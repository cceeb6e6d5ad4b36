--------------------------- MODULE ProgramsProofs ---------------------------
(***************************************************************************)
(* Theorems about Cheaproute and PlaybackTun, the two programs.            *)
(***************************************************************************)
EXTENDS Cheaproute, PlaybackTun, NetlinkProofs

(***************************************************************************)
(* cheaproute puts packet handlers between the steps of NetlinkMonitor and *)
(* InterfaceActivator on the event loop; to them these are stuttering      *)
(* steps.                                                                  *)
(***************************************************************************)
THEOREM ProgramKeepsActivator == ProgramSpec => ActivatorSpec
<1>1. ProgramInit => Init
  BY DEF ProgramInit
<1>2. [ProgramNext]_allVars => [ActivatorNext]_vars
  <2> SUFFICES ASSUME [ProgramNext]_allVars PROVE [ActivatorNext]_vars
    OBVIOUS
  <2>1. CASE NetlinkRuns
    BY <2>1 DEF NetlinkRuns, NetlinkStep, ActivatorNext
  <2>2. CASE OthersRun
    BY <2>2 DEF OthersRun, OthersStep, ActivatorNext
  <2>3. CASE TunStep
    BY <2>3 DEF TunStep, HandleReadIn, HandleReadOut, Forward, LogPacket,
                LogEndless, LogRefused, DeviceGone, HandleReadFails,
                ReadRefused, HandleReadRefused
  <2>4. CASE \E t \in {In, Out} : PacketArrives(t)
    BY <2>4 DEF PacketArrives
  <2>5. CASE UNCHANGED allVars
    BY <2>5 DEF allVars
  <2> QED
    BY <2>1, <2>2, <2>3, <2>4, <2>5 DEF ProgramNext
<1> QED
  BY <1>1, <1>2, PTL DEF ProgramSpec, ActivatorSpec

\* What is proved of the activator holds in cheaproute: no query is refused,
\* netlink makes the program give up only for the reasons of AbortExplained,
\* and at rest the table of interfaces is the kernel's in the sense of CaughtUp.
THEOREM ProgramKeepsNetlink ==
  ProgramSpec => [](NeverBusy /\ AbortExplained /\ CaughtUp)
BY ProgramKeepsActivator, ActivatorNeverBusy, ActivatorAbortExplained,
   ActivatorCaughtUp, PTL

(***************************************************************************)
(* NothingSkipped.  Packets are numbered from one, so that the buffer of   *)
(* HandleRead is empty exactly while the thread is in the event loop.      *)
(***************************************************************************)
Pkt == Nat \ {NoPacket}

HandInv ==
  /\ thread \in {"free", "forward", "log", "endless", "aborted", "refused"}
  /\ packet \in Nat
  /\ thread = "free" => packet = NoPacket
  /\ thread \in {"forward", "log", "endless"} => packet # NoPacket
  /\ logged \in Seq(Pkt)
  /\ arrivals \in Seq(Pkt)
  /\ queue \in [{In, Out} -> Seq(Pkt)]

LEMMA PktSequences ==
  ASSUME NEW a \in Seq(Pkt), NEW b \in Seq(Pkt), NEW p \in Pkt
  PROVE  /\ a \o b \in Seq(Pkt)
         /\ <<>> \o a = a
         /\ <<>> \in Seq(Pkt)
         /\ <<p>> \in Seq(Pkt)
         /\ Append(a, p) = a \o <<p>>
         /\ Append(a, p) \in Seq(Pkt)
         /\ a # <<>> => /\ Head(a) \in Pkt /\ Tail(a) \in Seq(Pkt)
                        /\ a = <<Head(a)>> \o Tail(a)
OBVIOUS

LEMMA PktAssociative ==
  \A a, b, c \in Seq(Pkt) : (a \o b) \o c = a \o (b \o c)
OBVIOUS

LEMMA ProgramStepKeepsHand ==
  HandInv /\ NothingSkipped /\ [ProgramNext]_allVars
    => HandInv' /\ NothingSkipped'
<1> SUFFICES ASSUME HandInv, NothingSkipped, [ProgramNext]_allVars
             PROVE  HandInv' /\ NothingSkipped'
  OBVIOUS
<1>q. queue[In] \in Seq(Pkt) /\ queue[Out] \in Seq(Pkt)
  BY ProgramAssumption DEF HandInv
<1>h. InHand \in Seq(Pkt)
  <2>1. CASE packet = NoPacket
    BY <2>1, <1>q DEF InHand
  <2>2. CASE packet # NoPacket
    <3>1. packet \in Pkt
      BY <2>2 DEF HandInv, Pkt
    <3> QED BY <2>2, <3>1, <1>q, PktSequences DEF InHand
  <2> QED BY <2>1, <2>2
<1>1. CASE UNCHANGED programVars
  BY <1>1 DEF programVars, tunVars, HandInv, NothingSkipped, InHand
<1>2. ASSUME NEW t \in {In, Out}, PacketArrives(t)
      PROVE  HandInv' /\ NothingSkipped'
  <2> DEFINE p == Len(arrivals) + 1
  <2>1. p \in Pkt
    BY DEF HandInv, Pkt, NoPacket
  <2>2. HandInv'
    BY <1>2, <2>1 DEF PacketArrives, HandInv, tunVars
  <2>3. UNCHANGED <<logged, InHand>>
    BY <1>2 DEF PacketArrives, InHand
  <2>4. CASE t = In
    <3>1. queue'[In] = queue[In] \o <<p>> /\ arrivals' = arrivals \o <<p>>
      <4>1. queue'[In] = Append(queue[In], p) /\ arrivals' = Append(arrivals, p)
        BY <1>2, <2>4, ProgramAssumption DEF PacketArrives, HandInv
      <4> HIDE DEF p
      <4> QED BY <4>1, <2>1, <1>q, PktSequences DEF HandInv
    <3>2. <<p>> \in Seq(Pkt) /\ logged \in Seq(Pkt)
          /\ InHand \o queue[In] \in Seq(Pkt)
      BY <2>1, <1>q, <1>h, PktSequences DEF HandInv
    <3> HIDE DEF p
    <3>3. InHand \o (queue[In] \o <<p>>) = (InHand \o queue[In]) \o <<p>>
      BY <3>2, <1>q, <1>h, PktAssociative, Zenon
    <3>4. logged \o ((InHand \o queue[In]) \o <<p>>)
            = (logged \o (InHand \o queue[In])) \o <<p>>
      BY <3>2, <1>q, <1>h, PktAssociative, Zenon
    <3> QED
      BY <2>2, <2>3, <3>1, <3>3, <3>4 DEF NothingSkipped
  <2>5. CASE t = Out
    BY <1>2, <2>2, <2>3, <2>5, ProgramAssumption
    DEF PacketArrives, NothingSkipped, HandInv
  <2> QED BY <2>4, <2>5
<1>3. CASE HandleReadIn
  <2>1. /\ InHand = <<>> /\ queue[In] # <<>>
        /\ packet' = Head(queue[In]) /\ queue'[In] = Tail(queue[In])
        /\ UNCHANGED <<logged, arrivals>>
    BY <1>3, <1>q, ProgramAssumption DEF HandleReadIn, CanRead, HandInv, InHand
  <2>2. /\ Head(queue[In]) \in Pkt /\ Tail(queue[In]) \in Seq(Pkt)
        /\ queue[In] = <<Head(queue[In])>> \o Tail(queue[In])
        /\ <<>> \o queue[In] = queue[In]
    BY <2>1, <1>q
  <2>3. HandInv'
    BY <1>3, <2>1, <2>2 DEF HandleReadIn, HandInv, Pkt
  <2>4. InHand' = <<Head(queue[In])>>
    BY <2>1, <2>2 DEF InHand, Pkt
  <2> QED
    BY <2>1, <2>2, <2>3, <2>4 DEF NothingSkipped
<1>4. CASE HandleReadOut
  BY <1>4, <1>q, ProgramAssumption
  DEF HandleReadOut, CanRead, HandInv, NothingSkipped, InHand, tunVars
<1>5. CASE Forward
  <2>1. thread' \in {"log", "aborted", "refused"} /\ thread = "forward"
        /\ UNCHANGED <<queue, arrivals, packet, logged>>
    BY <1>5 DEF Forward, SendPacket
  <2> QED
    BY <2>1 DEF HandInv, NothingSkipped, InHand
<1>6. CASE LogPacket
  <2>1. /\ packet \in Pkt /\ InHand = <<packet>> /\ packet' = NoPacket
        /\ logged' = logged \o <<packet>>
        /\ UNCHANGED <<queue, arrivals>>
    BY <1>6 DEF LogPacket, HandInv, InHand, Pkt
  <2>2. InHand' = <<>> /\ <<>> \o queue[In] = queue[In]
    BY <2>1, <1>q DEF InHand
  <2>3. HandInv'
    BY <1>6, <2>1 DEF LogPacket, HandInv, Pkt, NoPacket
  <2>4. (logged \o <<packet>>) \o queue[In] = logged \o (<<packet>> \o queue[In])
    <3>1. <<packet>> \in Seq(Pkt) /\ logged \in Seq(Pkt)
      BY <2>1 DEF HandInv
    <3> QED BY <3>1, <1>q, PktAssociative, Zenon
  <2> QED
    BY <2>1, <2>2, <2>3, <2>4 DEF NothingSkipped
<1>7. ASSUME NEW t \in {In, Out}, DeviceGone(t) \/ ReadRefused(t)
      PROVE  HandInv' /\ NothingSkipped'
  BY <1>7 DEF DeviceGone, HandleReadFails, ReadRefused, HandleReadRefused,
              HandInv, NothingSkipped, InHand
<1>8. CASE LogEndless \/ LogRefused
  BY <1>8 DEF LogEndless, LogRefused, HandInv, NothingSkipped, InHand
<1> QED
  BY <1>1, <1>2, <1>3, <1>4, <1>5, <1>6, <1>7, <1>8
  DEF ProgramNext, NetlinkRuns, OthersRun, TunStep, allVars

\* Whatever netlink traffic and failures come between the calls of HandleRead,
\* the packets that came in on crIN are the logged ones, the one in hand and
\* those still queued, in this order.
THEOREM ProgramNothingSkipped == ProgramSpec => []NothingSkipped
<1>1. ProgramInit => HandInv /\ NothingSkipped
  <2> SUFFICES ASSUME ProgramInit PROVE HandInv /\ NothingSkipped
    OBVIOUS
  <2>1. HandInv
    BY DEF ProgramInit, HandInv, NoPacket
  <2>2. logged = <<>> /\ InHand = <<>> /\ queue[In] = <<>> /\ arrivals = <<>>
    BY ProgramAssumption DEF ProgramInit, InHand
  <2> QED BY <2>1, <2>2 DEF NothingSkipped
<1> QED
  BY <1>1, ProgramStepKeepsHand, PTL DEF ProgramSpec

(***************************************************************************)
(* ProgramAbortExplained, with GoneInv for the devices of the program.     *)
(***************************************************************************)
\* The reasons that this part of the program has for giving up.
ThreadExplained == thread = "aborted" => tampered # {} \/ ~DeviceUp(Out)

\* Unless the kernel refuses a system call for a reason of its own, cheaproute
\* gives up only over lost notifications, over a device another program has
\* interfered with, or over a packet for crOUT while crOUT is down: the
\* start-up race between the two activations is the only reason that lies in
\* the program itself.
THEOREM ProgramAborts == ProgramSpec => []ProgramAbortExplained
<1>1. ProgramInit => GoneInv /\ ThreadExplained
  <2>1. ProgramInit => GoneInv
    <3>1. Unborn.state # "gone"
      BY DEF Unborn
    <3> QED BY <3>1, ConstantsAssumption DEF ProgramInit, Init, KernelInit, GoneInv
  <2>2. ProgramInit => ThreadExplained
    BY DEF ProgramInit, ThreadExplained
  <2> QED BY <2>1, <2>2
<1>2. ActivatorInv /\ GoneInv /\ [ActivatorNext]_vars => GoneInv'
  BY ActivatorKeepsGone
<1>3. GoneInv /\ ThreadExplained /\ [ProgramNext]_allVars => ThreadExplained'
  <2> SUFFICES ASSUME GoneInv, ThreadExplained, [ProgramNext]_allVars
               PROVE  ThreadExplained'
    OBVIOUS
  <2>1. CASE thread' # "aborted"
    BY <2>1 DEF ThreadExplained
  <2>2. CASE Forward
    BY <2>2 DEF Forward, SendPacket, ThreadExplained, DeviceUp, vars, kernelVars
  <2>3. ASSUME NEW t \in {In, Out}, DeviceGone(t)
        PROVE  ThreadExplained'
    <3>1. t \in tampered /\ UNCHANGED tampered
      BY <2>3, ProgramAssumption
      DEF DeviceGone, HandleReadFails, GoneInv, vars, kernelVars
    <3> QED BY <3>1 DEF ThreadExplained
  <2>4. CASE UNCHANGED allVars
    BY <2>4 DEF allVars, programVars, tunVars, vars, kernelVars,
                ThreadExplained, DeviceUp
  <2>5. ProgramNext /\ ~Forward /\ ~(\E t \in {In, Out} : DeviceGone(t))
          => thread' # "aborted"
    BY DEF ProgramNext, NetlinkRuns, OthersRun, TunStep, HandleReadIn,
           HandleReadOut, LogPacket, LogEndless, LogRefused, ReadRefused,
           HandleReadRefused, PacketArrives, ThreadEnded, programVars, tunVars
  <2> QED BY <2>1, <2>2, <2>3, <2>4, <2>5
<1>4. AbortExplained /\ ThreadExplained => ProgramAbortExplained
  BY DEF AbortExplained, ThreadExplained, ProgramAbortExplained
<1>5. ProgramSpec => []ActivatorInv /\ []AbortExplained
                     /\ [][ActivatorNext]_vars
  BY ProgramKeepsActivator, ActivatorSpecWorld, ActivatorAbortExplained, PTL
  DEF ActivatorSpec
<1> QED
  BY <1>1, <1>2, <1>3, <1>4, <1>5, PTL DEF ProgramSpec

(***************************************************************************)
(* ForwardedAsLogged.  Packets are numbered as they come in and none is    *)
(* skipped, so the log holds 1, 2, ... and the packet in hand is the next. *)
(***************************************************************************)
NumberedInv == \A k \in DOMAIN arrivals : arrivals[k] = k

\* How many packets PacketForwarder has been called with.
Handled ==
  Len(logged) + (IF thread # "forward" /\ packet # NoPacket THEN 1 ELSE 0)

WrittenInv ==
  /\ written \in Seq(Pkt)
  /\ lost \in Nat
  /\ Len(written) + lost = Handled
  /\ \A k \in DOMAIN written : written[k] <= Handled
  /\ \A j, k \in DOMAIN written : j < k => written[j] < written[k]

LEMMA LogNumbered ==
  ASSUME HandInv, NothingSkipped, NumberedInv
  PROVE  /\ \A j \in 1..Len(logged) : logged[j] = j
         /\ packet # NoPacket => packet = Len(logged) + 1
<1>1. /\ logged \in Seq(Pkt) /\ arrivals \in Seq(Pkt) /\ queue[In] \in Seq(Pkt)
      /\ packet \in Nat
  BY ProgramAssumption DEF HandInv
<1> DEFINE rest == InHand \o queue[In]
<1>2. rest \in Seq(Pkt) /\ (packet # NoPacket => Len(rest) >= 1 /\ rest[1] = packet)
  <2>1. CASE packet = NoPacket
    BY <1>1, <2>1 DEF InHand
  <2>2. CASE packet # NoPacket
    <3>1. packet \in Pkt /\ InHand = <<packet>>
      BY <1>1, <2>2 DEF Pkt, InHand
    <3>2. \A p \in Pkt, q \in Seq(Pkt) : /\ <<p>> \o q \in Seq(Pkt)
                                         /\ Len(<<p>> \o q) >= 1
                                         /\ (<<p>> \o q)[1] = p
      OBVIOUS
    <3> QED BY <1>1, <3>1, <3>2
  <2> QED BY <2>1, <2>2
<1>3. arrivals = logged \o rest
  BY DEF NothingSkipped
<1> HIDE DEF rest
<1>4. /\ \A j \in 1..Len(logged) : j \in DOMAIN arrivals /\ arrivals[j] = logged[j]
      /\ Len(rest) >= 1 => /\ Len(logged) + 1 \in DOMAIN arrivals
                           /\ arrivals[Len(logged) + 1] = rest[1]
  BY <1>1, <1>2, <1>3
<1> QED BY <1>2, <1>4 DEF NumberedInv

LEMMA ArrivalsNumbered ==
  ASSUME HandInv, NumberedInv, [ProgramNext]_allVars
  PROVE  NumberedInv'
<1>1. CASE UNCHANGED arrivals
  BY <1>1 DEF NumberedInv
<1>2. CASE arrivals' = Append(arrivals, Len(arrivals) + 1)
  BY <1>2 DEF NumberedInv, HandInv
<1>3. UNCHANGED arrivals \/ arrivals' = Append(arrivals, Len(arrivals) + 1)
  BY DEF ProgramNext, NetlinkRuns, OthersRun, TunStep, HandleReadIn,
     HandleReadOut, Forward, LogPacket, LogEndless, LogRefused, DeviceGone,
     ReadRefused, PacketArrives, programVars, allVars
<1> QED BY <1>1, <1>2, <1>3

LEMMA WrittenKept ==
  ASSUME HandInv, NothingSkipped, NumberedInv, WrittenInv, [ProgramNext]_allVars
  PROVE  WrittenInv'
<1>0. logged \in Seq(Pkt) /\ written \in Seq(Pkt) /\ lost \in Nat /\ Len(logged) \in Nat
  BY DEF HandInv, WrittenInv
<1>1. ASSUME UNCHANGED <<written, lost>>, Handled' = Handled
      PROVE  WrittenInv'
  BY <1>1 DEF WrittenInv
<1>2. CASE UNCHANGED programVars
  BY <1>1, <1>2 DEF programVars, tunVars, Handled
<1>3. CASE HandleReadIn
  BY <1>1, <1>3 DEF HandleReadIn, CanRead, Handled, HandInv
<1>4. CASE HandleReadOut \/ \E t \in {In, Out} : PacketArrives(t)
  BY <1>1, <1>4 DEF HandleReadOut, PacketArrives, tunVars, Handled
<1>5. CASE Forward
  <2>1. /\ thread = "forward" /\ thread' \in {"log", "aborted", "refused"}
        /\ packet # NoPacket /\ UNCHANGED <<packet, logged>>
        /\ \/ written' = Append(written, packet) /\ lost' = lost
           \/ lost' = lost + 1 /\ written' = written
    BY <1>5 DEF Forward, SendPacket, HandInv
  <2>2. Handled = Len(logged) /\ Handled' = Len(logged) + 1
    BY <2>1 DEF Handled
  <2>3. packet = Len(logged) + 1 /\ packet \in Pkt
    BY <1>0, <2>1, LogNumbered DEF Pkt, NoPacket
  <2>4. \A k \in DOMAIN written : written[k] <= Len(logged) /\ written[k] \in Nat
    BY <1>0, <2>2 DEF WrittenInv, Pkt
  <2>5. CASE written' = Append(written, packet) /\ lost' = lost
    <3>1. /\ written' \in Seq(Pkt) /\ Len(written') = Len(written) + 1
          /\ DOMAIN written' = 1..(Len(written) + 1)
          /\ DOMAIN written = 1..Len(written) /\ Len(written) \in Nat
          /\ written'[Len(written) + 1] = packet
          /\ \A k \in DOMAIN written : written'[k] = written[k]
      BY <1>0, <2>3, <2>5
    <3>2. \A k \in DOMAIN written' : k \in DOMAIN written \/ k = Len(written) + 1
      BY <3>1
    <3>3. \A k \in DOMAIN written' : written'[k] <= Handled'
      BY <1>0, <2>2, <2>3, <2>4, <3>1, <3>2
    <3>4. ASSUME NEW j \in DOMAIN written', NEW k \in DOMAIN written', j < k
          PROVE  written'[j] < written'[k]
      <4>1. j \in DOMAIN written
        BY <3>1, <3>4
      <4>2. CASE k \in DOMAIN written
        BY <3>1, <3>4, <4>1, <4>2 DEF WrittenInv
      <4>3. CASE k = Len(written) + 1
        BY <1>0, <2>3, <2>4, <3>1, <4>1, <4>3
      <4> QED BY <3>2, <4>2, <4>3
    <3>5. Len(written') + lost' = Handled'
      BY <1>0, <2>2, <2>5, <3>1 DEF WrittenInv
    <3> QED BY <1>0, <2>5, <3>1, <3>3, <3>4, <3>5 DEF WrittenInv
  <2>6. CASE lost' = lost + 1 /\ written' = written
    BY <1>0, <2>2, <2>4, <2>6 DEF WrittenInv
  <2> QED BY <2>1, <2>5, <2>6
<1>6. CASE LogPacket
  <2>1. Handled = Len(logged) + 1 /\ Handled' = Len(logged')
    BY <1>6 DEF LogPacket, HandInv, Handled, NoPacket
  <2>2. Len(logged') = Len(logged) + 1
    BY <1>0, <1>6 DEF LogPacket
  <2> QED BY <1>1, <1>6, <2>1, <2>2 DEF LogPacket
<1>7. ASSUME NEW t \in {In, Out}, DeviceGone(t) \/ ReadRefused(t)
      PROVE  WrittenInv'
  BY <1>1, <1>7 DEF DeviceGone, HandleReadFails, ReadRefused, HandleReadRefused,
                    HandInv, Handled
<1>8. CASE LogEndless \/ LogRefused
  BY <1>1, <1>8 DEF LogEndless, LogRefused, Handled
<1> QED
  BY <1>2, <1>3, <1>4, <1>5, <1>6, <1>7, <1>8
  DEF ProgramNext, NetlinkRuns, OthersRun, TunStep, allVars

LEMMA WrittenSuffices ==
  ASSUME HandInv, NothingSkipped, NumberedInv, WrittenInv
  PROVE  ForwardedAsLogged
<1> DEFINE handled == IF thread = "forward" THEN logged ELSE logged \o InHand
<1>1. logged \in Seq(Pkt) /\ packet \in Nat
  BY DEF HandInv
<1>2. Len(handled) = Handled /\ \A j \in 1..Handled : j \in DOMAIN handled /\ handled[j] = j
  <2>1. CASE thread # "forward" /\ packet # NoPacket
    <3>1. handled = logged \o <<packet>> /\ Handled = Len(logged) + 1
            /\ packet = Len(logged) + 1 /\ packet \in Pkt
      BY <1>1, <2>1, LogNumbered DEF InHand, Handled, Pkt
    <3>2. \A j \in 1..Len(logged) : logged[j] = j
      BY LogNumbered
    <3> HIDE DEF handled
    <3> QED BY <1>1, <3>1, <3>2
  <2>2. CASE thread # "forward" /\ packet = NoPacket
    <3>1. handled = logged /\ Handled = Len(logged)
      BY <1>1, <2>2 DEF InHand, Handled
    <3> HIDE DEF handled
    <3> QED BY <1>1, <3>1, LogNumbered
  <2>3. CASE thread = "forward"
    <3>1. handled = logged /\ Handled = Len(logged)
      BY <1>1, <2>3 DEF Handled
    <3> HIDE DEF handled
    <3> QED BY <1>1, <3>1, LogNumbered
  <2> QED BY <2>1, <2>2, <2>3
<1> HIDE DEF handled
<1>3. Handled \in Nat
  BY <1>1 DEF Handled
<1>4. \A k \in DOMAIN written : written[k] \in 1..Handled
  BY <1>3 DEF WrittenInv, Pkt, NoPacket
<1>5. \A k \in DOMAIN written : written[k] \in {handled[j] : j \in DOMAIN handled}
  BY <1>2, <1>4
<1> QED BY <1>2, <1>5 DEF ForwardedAsLogged, WrittenInv, handled

\* For any number of packets, and wherever the program gives up, the packets
\* that PacketForwarder has written to crOUT are those that PacketLogger has
\* logged or is about to, without the refused ones, each once and in order.
THEOREM ProgramForwardsAsLogged == ProgramSpec => []ForwardedAsLogged
<1> DEFINE I == HandInv /\ NothingSkipped /\ NumberedInv /\ WrittenInv
<1>1. ProgramInit => I
  <2> SUFFICES ASSUME ProgramInit PROVE I
    OBVIOUS
  <2>1. HandInv
    BY DEF ProgramInit, HandInv, NoPacket
  <2>2. logged = <<>> /\ InHand = <<>> /\ queue[In] = <<>> /\ arrivals = <<>>
          /\ written = <<>> /\ lost = 0 /\ thread = "free"
          /\ packet = NoPacket
    BY ProgramAssumption DEF ProgramInit, InHand
  <2>3. NothingSkipped /\ NumberedInv
    BY <2>2 DEF NothingSkipped, NumberedInv
  <2>4. WrittenInv
    BY <2>2 DEF WrittenInv, Handled
  <2> QED BY <2>1, <2>3, <2>4
<1>2. I /\ [ProgramNext]_allVars => I'
  BY ProgramStepKeepsHand, ArrivalsNumbered, WrittenKept
<1>3. I => ForwardedAsLogged
  BY WrittenSuffices
<1> QED BY <1>1, <1>2, <1>3, PTL DEF ProgramSpec

(***************************************************************************)
(* playbacktun.                                                            *)
(***************************************************************************)
\* playbacktun, too, only puts its own steps between those of NetlinkMonitor
\* and InterfaceActivator.
THEOREM PlaybackKeepsActivator == PlaybackSpec => ActivatorSpec
<1>1. PlaybackInit => Init
  BY DEF PlaybackInit
<1>2. [PlaybackNext]_playerVars => [ActivatorNext]_vars
  <2> SUFFICES ASSUME [PlaybackNext]_playerVars PROVE [ActivatorNext]_vars
    OBVIOUS
  <2>1. CASE PlayerNetlinkRuns
    BY <2>1 DEF PlayerNetlinkRuns, NetlinkStep, ActivatorNext
  <2>2. CASE PlayerOthersRun
    BY <2>2 DEF PlayerOthersRun, OthersStep, ActivatorNext
  <2>3. CASE PlaybackStep
    BY <2>3 DEF PlaybackStep, Schedule, Timeout, ReadPacket, ReadInvalid,
                TimeoutRefused, LogReadRefused, RoundDone, Send, TunGone, HandleReadFails
  <2>4. CASE UNCHANGED playerVars
    BY <2>4 DEF playerVars
  <2>5. CASE TunRefused
    BY <2>5 DEF TunRefused, HandleReadRefused
  <2> QED
    BY <2>1, <2>2, <2>3, <2>4, <2>5 DEF PlaybackNext
<1> QED
  BY <1>1, <1>2, PTL DEF PlaybackSpec, ActivatorSpec

(***************************************************************************)
(* PlaysTheLog.                                                            *)
(***************************************************************************)
Tokens == Packet \cup NotPackets

\* The last token that was read, while there is one to come back to.
RoundInv ==
  /\ thread \in {"init", "free", "read", "send", "aborted", "refused"}
  /\ log \in Seq(Tokens)
  /\ next \in Nat
  /\ next <= Len(log) \/ next = 1
  /\ thread = "init" => next = 0
  /\ thread \in {"read", "send"} => next \in 1..Len(log) /\ Head(log) = "["
  /\ thread = "send" => next >= 2 /\ log[next] \in Packet
  /\ written \in Seq(Packet)
  /\ lost \in Nat

\* What SubSeq gives of a log, token by token.
LEMMA Behind ==
  ASSUME NEW l \in Seq(Tokens), NEW n \in Nat, n <= Len(l) \/ n <= 1
  PROVE  /\ n <= 1 => SubSeq(l, 2, n) = <<>>
         /\ n >= 1 => Len(SubSeq(l, 2, n)) = n - 1
         /\ n >= 2 => SubSeq(l, 2, n) = Append(SubSeq(l, 2, n - 1), l[n])
OBVIOUS

\* A packet that is passed over leaves the others in their places, and one
\* that is written has the last place.
LEMMA PlacesGrow ==
  ASSUME NEW s \in Seq(Packet), NEW t \in Seq(Packet), NEW p \in Packet,
         \E f \in [DOMAIN s -> DOMAIN t] : Places(f, s, t)
  PROVE  /\ \E f \in [DOMAIN s -> DOMAIN Append(t, p)] : Places(f, s, Append(t, p))
         /\ \E f \in [DOMAIN Append(s, p) -> DOMAIN Append(t, p)] :
              Places(f, Append(s, p), Append(t, p))
<1> DEFINE t1 == Append(t, p)
           s1 == Append(s, p)
<1>1. PICK f \in [DOMAIN s -> DOMAIN t] : Places(f, s, t)
  OBVIOUS
<1>2. /\ DOMAIN t = 1..Len(t) /\ DOMAIN t1 = 1..(Len(t) + 1)
      /\ DOMAIN s = 1..Len(s) /\ DOMAIN s1 = 1..(Len(s) + 1)
      /\ Len(s) \in Nat /\ Len(t) \in Nat
      /\ t1[Len(t) + 1] = p /\ s1[Len(s) + 1] = p
      /\ \A k \in 1..Len(t) : t1[k] = t[k]
      /\ \A k \in 1..Len(s) : s1[k] = s[k]
  OBVIOUS
<1> HIDE DEF s1, t1
<1>3. f \in [DOMAIN s -> DOMAIN t1] /\ Places(f, s, t1)
  <2>1. f \in [DOMAIN s -> DOMAIN t1]
    BY <1>1, <1>2
  <2> QED BY <1>1, <1>2, <2>1 DEF Places
<1>4. \E g \in [DOMAIN s1 -> DOMAIN t1] : Places(g, s1, t1)
  <2> DEFINE g == [k \in DOMAIN s1 |-> IF k \in DOMAIN s THEN f[k] ELSE Len(t) + 1]
  <2>1. g \in [DOMAIN s1 -> DOMAIN t1]
    BY <1>1, <1>2
  <2>2. ASSUME NEW k \in DOMAIN s1 PROVE s1[k] = t1[g[k]]
    BY <1>1, <1>2, <2>2 DEF Places
  <2>3. ASSUME NEW j \in DOMAIN s1, NEW k \in DOMAIN s1, j < k
        PROVE  g[j] < g[k]
    BY <1>1, <1>2, <2>3 DEF Places
  <2> HIDE DEF g
  <2> QED BY <2>1, <2>2, <2>3 DEF Places
<1> QED BY <1>3, <1>4 DEF s1, t1

LEMMA RoundKept ==
  ASSUME RoundInv, PlaysTheLog, [PlaybackNext]_playerVars
  PROVE  RoundInv' /\ PlaysTheLog'
<1>0. log \in Seq(Tokens) /\ next \in Nat /\ written \in Seq(Packet) /\ lost \in Nat
  BY DEF RoundInv
<1>1. CASE UNCHANGED playbackVars
  BY <1>1 DEF playbackVars, tunVars, RoundInv, PlaysTheLog, Given
<1>2. CASE \/ Schedule \/ ReadInvalid \/ RoundDone \/ TunGone
          \/ TimeoutRefused \/ LogReadRefused \/ TunRefused
  <2>1. /\ thread # "send" /\ thread' \in {"free", "aborted", "refused"}
        /\ UNCHANGED <<log, next, written, lost>>
    BY <1>2 DEF Schedule, ReadInvalid, RoundDone, TunGone, HandleReadFails,
                TimeoutRefused, LogReadRefused, TunRefused, HandleReadRefused
  <2>2. UNCHANGED Given
    BY <2>1 DEF Given
  <2> QED BY <2>1, <2>2 DEF RoundInv, PlaysTheLog
<1>3. CASE Timeout
  <2>1. /\ log' \in Seq(Tokens) /\ next' = 1 /\ written' = <<>> /\ lost' = 0
        /\ thread' \in {"read", "aborted"}
        /\ thread' = "read" => log' # <<>> /\ Head(log') = "["
    BY <1>3, PlaybackAssumption DEF Timeout, Tokens
  <2>2. RoundInv'
    BY <2>1 DEF RoundInv
  <2>3. Given' = <<>>
    BY <2>1, Behind DEF Given
  <2>4. Len(written') + lost' = Len(Given') /\ Given' \in Seq(Packet)
    BY <2>1, <2>3
  <2>5. \E f \in [DOMAIN written' -> DOMAIN Given'] : Places(f, written', Given')
    <3>1. [k \in DOMAIN written' |-> 1] \in [DOMAIN written' -> DOMAIN Given']
          /\ DOMAIN written' = {}
      BY <2>1
    <3> QED BY <3>1 DEF Places
  <2> QED BY <2>2, <2>4, <2>5 DEF PlaysTheLog
<1>4. CASE ReadPacket
  <2>1. /\ thread = "read" /\ thread' = "send" /\ next' = next + 1
        /\ UNCHANGED <<log, written, lost>>
    BY <1>4 DEF ReadPacket
  <2>2. next < Len(log) /\ log[next + 1] \in Packet
    BY <1>4, PlaybackAssumption DEF ReadPacket, Token, NotPackets
  <2>3. RoundInv'
    BY <2>1, <2>2 DEF RoundInv
  <2>4. UNCHANGED Given
    BY <1>0, <2>1 DEF Given
  <2> QED BY <2>1, <2>3, <2>4 DEF PlaysTheLog
<1>5. CASE Send
  <2>1. /\ thread = "send" /\ thread' \in {"read", "aborted", "refused"}
        /\ UNCHANGED <<log, next>>
        /\ \/ written' = Append(written, log[next]) /\ lost' = lost
           \/ lost' = lost + 1 /\ written' = written
    BY <1>5 DEF Send, SendPacket
  <2>2. next >= 2 /\ next <= Len(log) /\ log[next] \in Packet
    BY <2>1 DEF RoundInv
  <2>3. Given' = Append(Given, log[next])
    BY <1>0, <2>1, <2>2, Behind DEF Given
  <2>4. Given' \in Seq(Packet) /\ Len(Given') = Len(Given) + 1
    BY <2>2, <2>3 DEF PlaysTheLog
  <2> DEFINE p == log[next]
  <2>5. /\ Append(written, p) \in Seq(Packet)
        /\ Len(Append(written, p)) = Len(written) + 1
    <3>1. p \in Packet
      BY <2>2
    <3> HIDE DEF p
    <3> QED BY <1>0, <3>1
  <2>6. /\ written' \in Seq(Packet) /\ lost' \in Nat
        /\ Len(written') + lost' = Len(written) + lost + 1
        /\ written' = written \/ written' = Append(written, p)
    <3>1. Len(written) \in Nat
      BY <1>0
    <3>2. CASE written' = Append(written, p) /\ lost' = lost
      <4> HIDE DEF p
      <4> QED BY <1>0, <2>5, <3>1, <3>2
    <3>3. CASE lost' = lost + 1 /\ written' = written
      BY <1>0, <3>1, <3>3
    <3> QED BY <2>1, <3>2, <3>3
  <2>7. RoundInv'
    BY <1>0, <2>1, <2>6 DEF RoundInv
  <2>8. Len(written') + lost' = Len(Given')
    BY <2>4, <2>6 DEF PlaysTheLog
  <2>9. \E f \in [DOMAIN written' -> DOMAIN Given'] : Places(f, written', Given')
    <3>1. p \in Packet /\ Given' = Append(Given, p)
      BY <2>2, <2>3
    <3> HIDE DEF p
    <3> QED BY <1>0, <2>6, <3>1, PlacesGrow DEF PlaysTheLog
  <2> QED BY <2>4, <2>7, <2>8, <2>9 DEF PlaysTheLog
<1> QED
  BY <1>1, <1>2, <1>3, <1>4, <1>5
  DEF PlaybackNext, PlayerNetlinkRuns, PlayerOthersRun, PlaybackStep, playerVars

LEMMA PlaybackRound == PlaybackSpec => [](RoundInv /\ PlaysTheLog)
<1>1. PlaybackInit => RoundInv /\ PlaysTheLog
  <2> SUFFICES ASSUME PlaybackInit PROVE RoundInv /\ PlaysTheLog
    OBVIOUS
  <2>1. /\ thread = "init" /\ log = <<>> /\ next = 0 /\ written = <<>> /\ lost = 0
        /\ <<>> \in Seq(Tokens)
    BY DEF PlaybackInit
  <2>2. Given = <<>>
    BY <2>1, Behind DEF Given
  <2>3. \E f \in [DOMAIN written -> DOMAIN Given] : Places(f, written, Given)
    <3>1. [k \in DOMAIN written |-> 1] \in [DOMAIN written -> DOMAIN Given]
          /\ DOMAIN written = {}
      BY <2>1
    <3> QED BY <3>1 DEF Places
  <2>4. RoundInv
    BY <2>1 DEF RoundInv
  <2>5. Given \in Seq(Packet) /\ Len(written) + lost = Len(Given)
    BY <2>1, <2>2
  <2> QED BY <2>3, <2>4, <2>5 DEF PlaysTheLog
<1> QED BY <1>1, RoundKept, PTL DEF PlaybackSpec

\* For every packet log, and wherever the program gives up: the packets the
\* device got in this round are among those behind us in the log, each at a
\* place of its own and in the order of the log, and as many are missing as the
\* device refused.
THEOREM PlaybackPlaysTheLog == PlaybackSpec => []PlaysTheLog
BY PlaybackRound, PTL

(***************************************************************************)
(* PlaybackAbortExplained.                                                 *)
(***************************************************************************)
PlayerExplained ==
  thread = "aborted" => \/ tampered # {}
                        \/ next > 0 /\ ~WellFormed(log)
                        \/ ~DeviceUp(Tun)

\* Unless the kernel refuses a system call, playbacktun gives up only over lost notifications, over a device another
\* program has interfered with, over a log that is no array of packets, or
\* because its timer fires while the device is down.
THEOREM PlaybackAborts == PlaybackSpec => []PlaybackAbortExplained
<1>1. PlaybackInit => GoneInv /\ PlayerExplained
  <2>1. Unborn.state # "gone"
    BY DEF Unborn
  <2> QED BY <2>1, ConstantsAssumption
          DEF PlaybackInit, Init, KernelInit, GoneInv, PlayerExplained
<1>2. ActivatorInv /\ GoneInv /\ [ActivatorNext]_vars => GoneInv'
  BY ActivatorKeepsGone
<1>3. RoundInv /\ GoneInv /\ PlayerExplained /\ [PlaybackNext]_playerVars
        => PlayerExplained'
  <2> SUFFICES ASSUME RoundInv, GoneInv, PlayerExplained, [PlaybackNext]_playerVars,
                      thread' = "aborted"
               PROVE  PlayerExplained'
    BY DEF PlayerExplained
  <2>1. CASE UNCHANGED playerVars
    BY <2>1 DEF playerVars, playbackVars, tunVars, vars, kernelVars,
                PlayerExplained, DeviceUp
  <2>2. CASE TunGone
    BY <2>2, PlaybackAssumption
    DEF TunGone, HandleReadFails, GoneInv, PlayerExplained, vars, kernelVars
  <2>3. CASE Send
    BY <2>3 DEF Send, SendPacket, PlayerExplained, DeviceUp, vars, kernelVars
  <2>4. CASE Timeout
    <3>1. next' > 0 /\ ~WellFormed(log')
      BY <2>4 DEF Timeout, WellFormed
    <3> QED BY <3>1 DEF PlayerExplained
  <2>5. CASE ReadInvalid
    <3>1. next > 0 /\ next + 1 \in 2..Len(log)
          /\ log[next + 1] \in {"[", "invalid"} /\ UNCHANGED <<log, next>>
      BY <2>5 DEF ReadInvalid, RoundInv, Token
    <3> QED BY <3>1 DEF PlayerExplained, WellFormed
  <2> QED
    BY <2>1, <2>2, <2>3, <2>4, <2>5
    DEF PlaybackNext, PlayerNetlinkRuns, PlayerOthersRun, PlaybackStep, Schedule, ReadPacket,
        RoundDone, TimeoutRefused, LogReadRefused, TunRefused, HandleReadRefused,
        ThreadEnded, playbackVars, tunVars
<1>4. AbortExplained /\ PlayerExplained => PlaybackAbortExplained
  BY DEF AbortExplained, PlayerExplained, PlaybackAbortExplained
<1>5. PlaybackSpec => []ActivatorInv /\ []AbortExplained /\ [][ActivatorNext]_vars
  BY PlaybackKeepsActivator, ActivatorSpecWorld, ActivatorAbortExplained, PTL
  DEF ActivatorSpec
<1>6. PlaybackSpec => []RoundInv
  BY PlaybackRound, PTL
<1> QED
  BY <1>1, <1>2, <1>3, <1>4, <1>5, <1>6, PTL DEF PlaybackSpec

\* What is proved of the activator holds in playbacktun: no query is refused
\* and at rest the table of interfaces is the kernel's in the sense of CaughtUp.
THEOREM PlaybackKeepsNetlink == PlaybackSpec => [](NeverBusy /\ CaughtUp)
BY PlaybackKeepsActivator, ActivatorNeverBusy, ActivatorCaughtUp, PTL
=============================================================================
