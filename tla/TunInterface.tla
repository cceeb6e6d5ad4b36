---------------------------- MODULE TunInterface ----------------------------
(***************************************************************************)
(* TunInterface (src/net/tun_interface.{h,cc}) in a program that also runs *)
(* NetlinkMonitor and InterfaceActivator on the same event loop.           *)
(*                                                                         *)
(* The one thread of the program is in the code of this module's users     *)
(* when thread is neither "free" nor "init"; while it is, the event loop   *)
(* waits (pc = "idle").  The kernel and other programs go on.              *)
(***************************************************************************)
EXTENDS InterfaceActivator

VARIABLES
  thread,   \* "free": in the event loop or in NetlinkMonitor::HandleRead
  written,  \* history: the packets that write() has passed to the device
  lost      \* history: how many write() has not

tunVars == <<thread, written, lost>>

\* The TUN device takes packets: external, the kernel's side of write().
DeviceUp(i) == dev[i].state = "present" /\ dev[i].up

\* The program has ended in the code of this module's users.
ThreadEnded == thread \in {"aborted", "refused"}

\* Faulty variants: a packet may be written twice; EAGAIN is not forgiven;
\* the call waits until the device takes the packet.
SendPacketRetries(i, packet, next) ==
  /\ DeviceUp(i)
  /\ thread' \in {thread, next}
  /\ written' = Append(written, packet)
  /\ UNCHANGED lost

SendPacketStrict(i, packet, next) ==
  \/ /\ DeviceUp(i)
     /\ thread' = next
     /\ written' = Append(written, packet)
     /\ UNCHANGED lost
  \/ /\ thread' = "aborted"
     /\ lost' = lost + 1
     /\ UNCHANGED written

SendPacketWaits(i, packet, next) ==
  /\ DeviceUp(i)
  /\ thread' = next
  /\ written' = Append(written, packet)
  /\ UNCHANGED lost

\* SendPacket: the packet is written, or dropped with EAGAIN.  A device that
\* is down loses it in silence or fails with EIO, depending on the kernel.
\* Any errno but EAGAIN ends the program, with the device up or down.
SendPacket(i, packet, next) ==
  \/ /\ DeviceUp(i)
     /\ thread' = next
     /\ written' = Append(written, packet)
     /\ UNCHANGED lost
  \/ /\ DeviceUp(i)
     /\ thread' = next
     /\ lost' = lost + 1
     /\ UNCHANGED written
  \/ /\ ~DeviceUp(i)
     /\ thread' \in {next, "aborted"}
     /\ lost' = lost + 1
     /\ UNCHANGED written
  \/ /\ thread' = "refused"
     /\ lost' = lost + 1
     /\ UNCHANGED written

\* HandleRead, when the device has been deleted: read() fails and CheckFdOp
\* aborts.
HandleReadFails(i) ==
  /\ thread = "free"
  /\ pc = "idle"
  /\ dev[i].state = "gone"
  /\ thread' = "aborted"
  /\ UNCHANGED <<vars, written, lost>>

\* read() fails for any other reason.
HandleReadRefused ==
  /\ thread = "free"
  /\ pc = "idle"
  /\ thread' = "refused"
  /\ UNCHANGED <<vars, written, lost>>

\* The rest of the program and its environment.
NetlinkStep ==
  /\ ~Ended
  /\ MonitorStep \/ InterfaceCreated
OthersStep ==
  /\ ~Ended
  /\ KernelStep
=============================================================================
