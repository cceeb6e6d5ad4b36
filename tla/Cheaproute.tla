----------------------------- MODULE Cheaproute -----------------------------
(***************************************************************************)
(* The program cheaproute (src/main.cc): NetlinkMonitor, the activator of  *)
(* the TUN devices crIN and crOUT, and the two listeners of crIN: every    *)
(* packet read from crIN is sent on crOUT by PacketForwarder and then      *)
(* written to the log by PacketLogger.  All of it runs on one event loop.  *)
(***************************************************************************)
EXTENDS TunInterface, SequencesExt

CONSTANTS
  In, Out,     \* the devices that the descriptors of crIN and crOUT stand for
  QueueCap,    \* capacity of a TUN device's queue
  MaxPackets   \* bound on the number of packets that arrive

ASSUME ProgramAssumption ==
  /\ In \in Index /\ Out \in Index /\ In # Out
  /\ QueueCap \in Nat /\ MaxPackets \in Nat

VARIABLES
  queue,     \* queue[t]: packets that wait to be read from TUN device t
  arrivals,  \* history: the packets that the kernel has put in queue[In]
  packet,    \* the buffer of HandleRead
  logged     \* the packets in the log

programVars == <<tunVars, queue, arrivals, packet, logged>>
allVars == <<vars, programVars>>

NoPacket == 0

ProgramInit ==
  /\ Init
  /\ thread = "free"
  /\ written = <<>>
  /\ lost = 0
  /\ queue = [t \in {In, Out} |-> <<>>]
  /\ arrivals = <<>>
  /\ packet = NoPacket
  /\ logged = <<>>

(***************************************************************************)
(* The kernel routes a packet to a TUN device; if the queue is full it is  *)
(* lost.  The packets on crIN are numbered in the order in which they      *)
(* arrive.                                                                 *)
(***************************************************************************)
PacketArrives(t) ==
  /\ DeviceUp(t)
  /\ Len(queue[t]) < QueueCap
  /\ Len(arrivals) + Len(queue[Out]) < MaxPackets
  /\ LET p == Len(arrivals) + 1
     IN  /\ queue' = [queue EXCEPT ![t] = Append(@, p)]
         /\ arrivals' = IF t = In THEN Append(arrivals, p) ELSE arrivals
  /\ UNCHANGED <<vars, tunVars, packet, logged>>

(***************************************************************************)
(* The event loop calls HandleRead of a TUN device that has a packet.      *)
(***************************************************************************)
CanRead(t) == thread = "free" /\ pc = "idle" /\ dev[t].state = "present"

\* Faulty variant: all that is queued is read, but only the last one kept.
HandleReadInDrains ==
  /\ CanRead(In)
  /\ queue[In] # <<>>
  /\ packet' = Last(queue[In])
  /\ queue' = [queue EXCEPT ![In] = <<>>]
  /\ thread' = "forward"
  /\ UNCHANGED <<vars, written, lost, arrivals, logged>>

HandleReadIn ==
  /\ CanRead(In)
  /\ queue[In] # <<>>
  /\ packet' = Head(queue[In])
  /\ queue' = [queue EXCEPT ![In] = Tail(@)]
  /\ thread' = "forward"
  /\ UNCHANGED <<vars, written, lost, arrivals, logged>>

\* Nobody listens to crOUT: what is read there is forgotten.
HandleReadOut ==
  /\ CanRead(Out)
  /\ queue[Out] # <<>>
  /\ queue' = [queue EXCEPT ![Out] = Tail(@)]
  /\ UNCHANGED <<vars, tunVars, arrivals, packet, logged>>

DeviceGone(t) ==
  /\ HandleReadFails(t)
  /\ UNCHANGED <<queue, arrivals, packet, logged>>

\* PacketForwarder::PacketReceived.
Forward ==
  /\ thread = "forward"
  /\ SendPacket(Out, packet, "log")
  /\ UNCHANGED <<vars, queue, arrivals, packet, logged>>

\* read() fails on a device that is there.
ReadRefused(t) ==
  /\ queue[t] # <<>>
  /\ HandleReadRefused
  /\ UNCHANGED <<queue, arrivals, packet, logged>>

\* PacketLogger::PacketReceived: SerializePacket and Flush.
LogPacket ==
  /\ thread = "log"
  /\ logged' = Append(logged, packet)
  /\ packet' = NoPacket
  /\ thread' = "free"
  /\ UNCHANGED <<vars, written, lost, queue, arrivals>>

\* SerializePacket does not return from a packet with a TCP option of size 0
\* (PacketSerializer): any packet may be one.
LogEndless ==
  /\ thread = "log"
  /\ thread' = "endless"
  /\ UNCHANGED <<vars, written, lost, queue, arrivals, packet, logged>>

\* write() of the log's file fails.
LogRefused ==
  /\ thread \in {"log", "endless"}
  /\ thread' = "refused"
  /\ UNCHANGED <<vars, written, lost, queue, arrivals, packet, logged>>

TunStep ==
  \/ HandleReadIn \/ HandleReadOut \/ Forward
  \/ LogPacket \/ LogEndless \/ LogRefused
  \/ \E t \in {In, Out} : DeviceGone(t) \/ ReadRefused(t)

NetlinkRuns == thread = "free" /\ NetlinkStep /\ UNCHANGED programVars
OthersRun == ~ThreadEnded /\ OthersStep /\ UNCHANGED programVars

ProgramNext ==
  /\ ~Ended
  /\ ~ThreadEnded
  /\ \/ NetlinkRuns \/ OthersRun \/ TunStep
     \/ \E t \in {In, Out} : PacketArrives(t)

ProgramSpec == ProgramInit /\ [][ProgramNext]_allVars

\* The event loop calls the handlers of all the descriptors that stay
\* readable, and a handler runs to its end, but for LogEndless.
FairProgramSpec ==
  /\ ProgramSpec
  /\ WF_allVars(NetlinkRuns)
  /\ WF_allVars(HandleReadIn \/ DeviceGone(In))
  /\ WF_allVars(HandleReadOut \/ DeviceGone(Out))
  /\ WF_allVars(Forward \/ LogPacket)
  /\ WF_allVars(~ThreadEnded /\ DumpProgress /\ UNCHANGED programVars)

(***************************************************************************)
(* Properties.                                                             *)
(***************************************************************************)
InHand == IF packet = NoPacket THEN <<>> ELSE <<packet>>
Stopped == Ended \/ ThreadEnded

\* Every packet that came in on crIN is read once and logged, in the order in
\* which it came, whatever the netlink traffic in between.
NothingSkipped == logged \o (InHand \o queue[In]) = arrivals

\* The log and crOUT agree: a packet is written to crOUT at most once, in
\* the order of the log, and the log misses none of them but the one that is
\* being handled; no packet is missing on crOUT that was not refused there.
ForwardedAsLogged ==
  LET handled == IF thread = "forward" THEN logged ELSE logged \o InHand
  IN  /\ Len(written) + lost = Len(handled)
      /\ \A k \in DOMAIN written : written[k] \in {handled[j] : j \in DOMAIN handled}
      /\ \A j, k \in DOMAIN written : j < k => written[j] < written[k]

\* Unless the kernel refuses a system call for a reason of its own, the program
\* gives up only when notifications were lost, when another program interferes
\* with its devices, or when a packet comes in on crIN while crOUT is not
\* active yet.
ProgramAbortExplained ==
  (pc = "aborted" \/ thread = "aborted") =>
    overrun \/ tampered # {} \/ ~DeviceUp(Out)

\* A packet that waits on crIN is eventually logged, unless the program ends or
\* meets a packet that SerializePacket does not return from.
PacketsDrain ==
  <>[](Stopped \/ thread = "endless" \/ (queue[In] = <<>> /\ packet = NoPacket))
=============================================================================
