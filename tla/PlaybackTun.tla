---------------------------- MODULE PlaybackTun -----------------------------
(***************************************************************************)
(* The program playbacktun (src/playback_tun.cc): it activates one TUN     *)
(* device and, one second after its start and after every round, opens the *)
(* packet log and sends the packets in it on the device.  Nothing orders   *)
(* the timer after the activation of the device.                           *)
(*                                                                         *)
(* A packet log is the sequence of the tokens at its top level and of the  *)
(* packets: "[" and "]", the packets, "invalid" for an element that        *)
(* DeserializePacket refuses and "broken" for a place where Next() finds   *)
(* no further token.                                                       *)
(***************************************************************************)
EXTENDS TunInterface, SequencesExt

CONSTANTS
  Tun,     \* the device that the descriptor of the TUN interface stands for
  Packet,  \* packets, as DeserializePacket gives them back
  Logs     \* what the packet log may hold when it is opened

NotPackets == {"[", "]", "invalid", "broken"}

ASSUME PlaybackAssumption ==
  /\ Tun \in Index
  /\ Packet \cap NotPackets = {}
  /\ Logs \subseteq Seq(Packet \cup NotPackets)

VARIABLES
  timer,   \* a task is scheduled on the event loop
  log,     \* the packet log of this round
  next     \* how many tokens of it have been read

playbackVars == <<tunVars, timer, log, next>>
playerVars == <<vars, playbackVars>>

PlaybackInit ==
  /\ Init
  /\ thread = "init"
  /\ written = <<>>
  /\ lost = 0
  /\ timer = FALSE
  /\ log = <<>>
  /\ next = 0

\* The end of TunPlaybackProgram::Init, behind NetlinkMonitor::Init.
Schedule ==
  /\ thread = "init"
  /\ pc = "idle"
  /\ timer' = TRUE
  /\ thread' = "free"
  /\ UNCHANGED <<vars, written, lost, log, next>>

\* Playback, up to its loop: the log must begin with an array.
Timeout ==
  /\ thread = "free"
  /\ pc = "idle"
  /\ timer
  /\ timer' = FALSE
  /\ log' \in Logs
  /\ next' = 1
  /\ written' = <<>>
  /\ lost' = 0
  /\ thread' = IF log' # <<>> /\ Head(log') = "[" THEN "read" ELSE "aborted"
  /\ UNCHANGED vars

\* The log cannot be opened, or its first bytes cannot be read.
TimeoutRefused ==
  /\ thread = "free"
  /\ pc = "idle"
  /\ timer
  /\ timer' = FALSE
  /\ thread' = "refused"
  /\ UNCHANGED <<vars, written, lost, log, next>>

Token == IF next < Len(log) THEN log[next + 1] ELSE "broken"

\* A packet has been deserialized.
ReadPacket ==
  /\ thread = "read"
  /\ Token \in Packet
  /\ next' = next + 1
  /\ thread' = "send"
  /\ UNCHANGED <<vars, written, lost, timer, log>>

\* DeserializePacket fails.
ReadInvalid ==
  /\ thread = "read"
  /\ Token \in {"[", "invalid"}
  /\ thread' = "aborted"
  /\ UNCHANGED <<vars, written, lost, timer, log, next>>

\* read() of the log's file fails on the way to the next token.
LogReadRefused ==
  /\ thread = "read"
  /\ thread' = "refused"
  /\ UNCHANGED <<vars, written, lost, timer, log, next>>

\* Faulty variant: the next round is not scheduled after a broken log.
RoundDoneAtBracket ==
  /\ thread = "read"
  /\ Token \in {"]", "broken"}
  /\ timer' = (Token = "]")
  /\ thread' = "free"
  /\ UNCHANGED <<vars, written, lost, log, next>>

\* Next() returns false or JSON_EndArray: an error in the log ends a round
\* the way its end does, and the next round is scheduled.
RoundDone ==
  /\ thread = "read"
  /\ Token \in {"]", "broken"}
  /\ timer' = TRUE
  /\ thread' = "free"
  /\ UNCHANGED <<vars, written, lost, log, next>>

Send ==
  /\ thread = "send"
  /\ SendPacket(Tun, log[next], "read")
  /\ UNCHANGED <<vars, timer, log, next>>

\* Nobody listens to the device, but what is read from it is thrown away
\* only as long as reading works.
TunGone ==
  /\ HandleReadFails(Tun)
  /\ UNCHANGED <<timer, log, next>>

\* read() fails on a device that is there and has a packet.
TunRefused ==
  /\ HandleReadRefused
  /\ UNCHANGED <<timer, log, next>>

PlaybackStep ==
  \/ Schedule \/ Timeout \/ TimeoutRefused
  \/ ReadPacket \/ ReadInvalid \/ LogReadRefused \/ RoundDone \/ Send
  \/ TunGone

\* NetlinkMonitor::Init runs inside TunPlaybackProgram::Init.
PlayerNetlinkRuns ==
  /\ \/ thread = "free"
     \/ thread = "init" /\ pc # "idle"
  /\ NetlinkStep
  /\ UNCHANGED playbackVars
PlayerOthersRun == ~ThreadEnded /\ OthersStep /\ UNCHANGED playbackVars

PlaybackNext ==
  /\ ~Ended
  /\ ~ThreadEnded
  /\ PlayerNetlinkRuns \/ PlayerOthersRun \/ PlaybackStep \/ TunRefused

PlaybackSpec == PlaybackInit /\ [][PlaybackNext]_playerVars

\* The timer fires, and the thread and the kernel's dump keep going.
FairPlaybackSpec ==
  /\ PlaybackSpec
  /\ WF_playerVars(PlayerNetlinkRuns)
  /\ WF_playerVars(PlaybackStep)
  /\ WF_playerVars(~ThreadEnded /\ DumpProgress /\ UNCHANGED playbackVars)

(***************************************************************************)
(* Properties.                                                             *)
(***************************************************************************)
PlayerStopped == Ended \/ ThreadEnded

\* What is behind us in the log of this round, after the bracket.
Given == SubSeq(log, 2, IF thread = "send" THEN next - 1 ELSE next)

\* f places the packets of s in t, in order and each at a place of its own.
Places(f, s, t) ==
  /\ \A k \in DOMAIN s : s[k] = t[f[k]]
  /\ \A j, k \in DOMAIN s : j < k => f[j] < f[k]

\* A round sends the packets of the log, in order and each one once, whether
\* or not the device refuses some: what it gets is the log less as many
\* packets as it has refused.
PlaysTheLog ==
  /\ Given \in Seq(Packet)
  /\ \E f \in [DOMAIN written -> DOMAIN Given] : Places(f, written, Given)
  /\ Len(written) + lost = Len(Given)

WellFormed(l) ==
  /\ l # <<>>
  /\ Head(l) = "["
  /\ \A k \in 2 .. Len(l) : l[k] \notin {"[", "invalid"}

\* Unless the kernel refuses a system call for a reason of its own, the program
\* gives up only when notifications were lost, when another program interferes
\* with the device, when the log is no array of packets, or when the timer
\* fires before the device has been activated.
PlaybackAbortExplained ==
  (pc = "aborted" \/ thread = "aborted") =>
    \/ overrun
    \/ tampered # {}
    \/ next > 0 /\ ~WellFormed(log)
    \/ ~DeviceUp(Tun)

\* Playback never ends for good: the next round always begins.
RoundsGoOn == []<>(PlayerStopped \/ thread = "read")
=============================================================================
