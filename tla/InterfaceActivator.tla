------------------------- MODULE InterfaceActivator -------------------------
(***************************************************************************)
(* InterfaceActivator (src/net/interface_activator.h), the listener that   *)
(* brings a configured interface up and gives it its address, with the two *)
(* synchronous calls of Netlink (src/net/netlink.cc) it makes.             *)
(*                                                                         *)
(* It runs inside NetlinkMonitor's InterfaceCreated broadcast, while       *)
(* HandleRead is in the middle of a datagram.  It acts on what the message *)
(* said: the kernel's device may have changed since, and the changes it    *)
(* makes itself come back to the monitor as notifications.                 *)
(***************************************************************************)
EXTENDS NetlinkMonitor

CONSTANTS
  Configured,  \* the names given to ConfigureInterface
  AddressFor   \* the Ip4AddressInfo each of them was given

ASSUME ActivatorAssumption ==
  /\ Configured \subseteq Name
  /\ AddressFor \in [Configured -> Ip4Info]

\* The interface the callback is about.
Target == event.index
TargetPresent == dev[Target].state = "present"

\* interface_ip4_info_.find(info.name) finds nothing.
IgnoreInterface ==
  /\ pc = "created"
  /\ event.info.name \notin Configured
  /\ pc' = "flags"
  /\ UNCHANGED <<kernelVars, datagram, seqVars, tableVars>>

\* Faulty variant: the callback returns after the first of its two calls.
SetDeviceStatusOnly ==
  LET d == [dev[Target] EXCEPT !.up = TRUE]
  IN  /\ pc = "created"
      /\ event.info.name \in Configured
      /\ TargetPresent
      /\ ChangeDev(Target, d, Link("RTM_NEWLINK", Target, d))
      /\ pc' = "flags"
      /\ UNCHANGED <<subscribed, dump, failed, tampered, changes,
                     datagram, seqVars, tableVars>>

\* RTM_SETLINK with IFF_UP; the kernel notifies if that changed anything.
SetDeviceStatus ==
  LET d == [dev[Target] EXCEPT !.up = TRUE]
  IN  /\ pc = "created"
      /\ event.info.name \in Configured
      /\ TargetPresent
      /\ IF dev[Target].up
         THEN UNCHANGED <<dev, sock, overrun>>
         ELSE ChangeDev(Target, d, Link("RTM_NEWLINK", Target, d))
      /\ pc' = "address"
      /\ UNCHANGED <<subscribed, dump, failed, tampered, changes,
                     datagram, seqVars, tableVars>>

\* The kernel answers ENODEV and AbortIfNextMessageIsNetlinkError aborts.
SetDeviceStatusFails ==
  /\ pc = "created"
  /\ event.info.name \in Configured
  /\ ~TargetPresent
  /\ pc' = "aborted"
  /\ UNCHANGED <<kernelVars, datagram, seqVars, tableVars>>

\* It answers any other error, or there is no answer.
SetDeviceStatusRefused ==
  /\ pc = "created"
  /\ event.info.name \in Configured
  /\ Refused

\* Faulty variant: the address of any configured interface is used.
SetDeviceIp4AddressInfoAny ==
  \E n \in Configured :
    /\ pc = "address"
    /\ TargetPresent
    /\ AddressFor[n] \notin dev[Target].ip4
    /\ ChangeDev(Target, WithAddr4(dev[Target], AddressFor[n]),
                 Addr("RTM_NEWADDR", Target, AddressFor[n]))
    /\ pc' = "flags"
    /\ UNCHANGED <<subscribed, dump, failed, tampered, changes,
                   datagram, seqVars, tableVars>>

\* RTM_NEWADDR.
SetDeviceIp4AddressInfo ==
  LET a == AddressFor[event.info.name]
  IN  /\ pc = "address"
      /\ TargetPresent
      /\ a \notin dev[Target].ip4
      /\ ChangeDev(Target, WithAddr4(dev[Target], a),
                   Addr("RTM_NEWADDR", Target, a))
      /\ pc' = "flags"
      /\ UNCHANGED <<subscribed, dump, failed, tampered, changes,
                     datagram, seqVars, tableVars>>

\* ENODEV, or EEXIST when the device has the address already.
SetDeviceIp4AddressInfoFails ==
  /\ pc = "address"
  /\ ~TargetPresent \/ AddressFor[event.info.name] \in dev[Target].ip4
  /\ pc' = "aborted"
  /\ UNCHANGED <<kernelVars, datagram, seqVars, tableVars>>

SetDeviceIp4AddressInfoRefused == pc = "address" /\ Refused

InterfaceCreated ==
  \/ IgnoreInterface
  \/ SetDeviceStatus \/ SetDeviceStatusFails \/ SetDeviceStatusRefused
  \/ SetDeviceIp4AddressInfo \/ SetDeviceIp4AddressInfoFails
  \/ SetDeviceIp4AddressInfoRefused

ActivatorNext ==
  ~Ended /\ (MonitorStep \/ InterfaceCreated \/ KernelStep)

ActivatorSpec == Init /\ [][ActivatorNext]_vars

FairActivatorSpec ==
  /\ ActivatorSpec
  /\ WF_vars(MonitorStep \/ InterfaceCreated)
  /\ WF_vars(DumpProgress)

(***************************************************************************)
(* Properties.                                                             *)
(***************************************************************************)
\* Unless the kernel refuses a system call for a reason of its own, the program
\* gives up only when notifications were lost or when another program removed
\* or numbered the interface: never because of the notifications that its own
\* calls to Netlink cause.
AbortExplained == pc = "aborted" => overrun \/ Target \in tampered

\* Unless it was renamed meanwhile, the device that the activator changes
\* bears a configured name, and the address is the one given for that name.
RightDevice ==
  [][\A i \in Index :
       (pc \in {"created", "address"} /\ changes' = changes
          /\ dev'[i] # dev[i] /\ i \notin tampered) =>
         /\ dev[i].name \in Configured
         /\ dev'[i].ip4 \subseteq dev[i].ip4 \cup {AddressFor[dev[i].name]}]_vars

\* Every interface that has a configured name, no matter when it appears,
\* ends up active with its address, if no other program interferes.
Activated ==
  \A i \in Index, n \in Configured :
    (dev[i].state = "present" /\ dev[i].name = n) ~>
      \/ dev[i].up /\ AddressFor[n] \in dev[i].ip4
      \/ i \in tampered
      \/ "link" \in failed
      \/ Ended

(***************************************************************************)
(* The inductive invariant behind AbortExplained and RightDevice.          *)
(***************************************************************************)
\* Between its two calls the activator is working on a configured name.
ConfiguredInv == pc = "address" => event.info.name \in Configured

\* A message tells of a device that is still there under the name the
\* message gives, unless another program has interfered.
StillTrue(m) ==
  \/ IsAck(m)
  \/ m.index \in tampered
  \/ /\ dev[m.index].state = "present"
     /\ IsLink(m) => m.name \in {NoName, dev[m.index].name}

MessagesInv ==
  /\ \A k \in DOMAIN sock : StillTrue(sock[k])
  /\ \A k \in DOMAIN datagram : StillTrue(datagram[k])

\* Left alone, a device gets its addresses from the activator only, once its
\* announcement is dealt with.
PristineInv ==
  /\ \A i \in Index :
       \/ i \in tampered
       \/ dev[i].ip4 = {}
       \/ /\ interfaces_by_index[i].is_public
          /\ pc \in {"created", "address"} => event.index # i
  /\ pc \in {"created", "address"} => interfaces_by_index[event.index].is_public
=============================================================================
