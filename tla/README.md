# cheaproute in TLA+

A TLA+ development of cheaproute: modules translated from the C++ under `src/`,
TLC configurations that check them on small instances, and theorems that TLAPS
checks for all values of the constants. `PROJECT.json` has the map from
definitions to source lines, the runs, the mutants that show each property can
fail, the hazards and the theorems.

To check a run: `tlc -workers 2 -config <cfg> <module>`. To check the proofs of
a module: `tlapm <module>.tla`.

## 1. The system

cheaproute reads IP packets from one TUN device (`crIN`), writes them to another
(`crOUT`) and logs them as JSON. `playbacktun` sends the packets of such a log
on a TUN device, once a second. Both programs have one thread, which runs an
event loop over libev. What makes them hard is not threads but the kernel on the
other side: the table of devices changes at any moment, and the thread learns of
it through a socket on which notifications, the entries of three dumps and the
consequences of the program's own calls are mixed.

| Component | State | Operations | Works with | What makes it correct |
|---|---|---|---|---|
| `NetlinkMonitor` (`net/netlink_monitor.*`, `net/netlink_util.h`) | sequence numbers, queue of unsent queries, table of interfaces | `Init` (three dump queries), `HandleRead`, `SendMessage` | kernel (messages), listeners (callbacks) | one query at a time; the table agrees with the kernel at rest; each interface announced once; comes to rest |
| `InterfaceActivator` and `Netlink` (`net/interface_activator.h`, `net/netlink.*`) | map from name to address | callback `InterfaceCreated`: `SetDeviceStatus`, `SetDeviceIp4AddressInfo` | called inside the monitor's broadcast; synchronous calls to the kernel | the right device gets the right address, once; its own notifications do not confuse it |
| `TunInterface` (`net/tun_interface.*`) | descriptor | `SendPacket`, `HandleRead` | event loop, packet listeners | a packet refused with `EAGAIN` is dropped, nothing else is |
| cheaproute (`main.cc`) | listeners of crIN | `PacketForwarder`, `PacketLogger` | all of the above on one loop | packets are logged in order, each once, and forwarded in that order |
| playbacktun (`playback_tun.cc`) | timer, log reader | `Playback` | `JsonReader`, `TunInterface`, activator | a round sends what the log holds; rounds never stop |
| `EventLoop` (`base/event_loop.*`) | watchers | `MonitorFd`, `Schedule`, `Run` | libev | a readable descriptor is served; one handler at a time |
| Streams (`base/stream.*`) | buffer and positions | `Read`, `Peek`, `Write`, `Flush` | a delegatee | no byte lost, repeated or overtaken |
| `JsonReader` (`base/json_reader.*`) | mode, stack of modes, token, value | `Next` | buffered input | the tokens nest as JSON's; the text accepted is JSON |
| `JsonWriter` (`base/json_writer.*`) | mode, stack, indentation, packing | `WriteX`, `BeginX`, `EndX` | buffered output | the text is the JSON of the calls; reading it gives them back |
| JSON packet codec (`net/json_packet.*`) | none (functions) | `SerializePacket`, `DeserializePacket` | reader, writer | a packet comes back from its text; lengths and checksums of what is made are right; the reader ends where the packet does |
| `Broadcaster` (`base/broadcaster.h`) | list of listeners | `AddListener`, `Broadcast`, handle destructor | all listeners | handles are registrations, also for listeners that come and go inside callbacks; everybody is called once, in order |
| Hex codec, addresses, descriptors (`base/common.*`, `net/ip_address.*`, `base/file_descriptor.*`) | none | formatting, parsing, `CheckFdOp` | everything | `ParseHex` inverts `FormatHex` |

`PROJECT.json` lists under `hazards` what is hard to test in this code, each at
its line. The main ones are: changes that fall into the middle of a dump; a
query sent while an earlier one is still being answered; a failed query that
stops the queue; repeated link messages that announce an interface twice; calls
made from inside a callback that cause messages on the socket being read; a
packet that arrives on crIN before crOUT is active; `EAGAIN` on one of several
listeners; the playback timer that races activation; the borders of the stream
buffers; a log whose writer is killed in the middle of a write; the modes of the
JSON reader and writer under nesting; the many sizes, tables and checksums of
the packet codec; a list of listeners that changes while it is iterated over.

## 2. The modules

    RtNetlink            external: the kernel's rtnetlink service
      NetlinkMonitor     the monitor                   implements NetlinkListener
        InterfaceActivator   + the activator and its calls
          TunInterface       + SendPacket and HandleRead of a TUN device
            Cheaproute       the program of main.cc
            PlaybackTun      the program of playback_tun.cc
    StreamSizes          the constants of the streams
      BufferedOutputStream, BufferedInputStream
    FileOutputStream
      LogFile            writer, file and reader of the packet log
    MemoryOutputStream
    JsonTokens           abstract: a stream of JSON tokens
    JsonLexemes          lexemes, and the text of a sequence of tokens
      JsonReader         implements JsonTokens
      JsonWriter         implements JsonTokens (its calls)
        JsonPipe         both: a reader over what the writer wrote
    JsonNumber           ReadNumber, character by character
    HexCodec             FormatHex, ParseHex
      JsonString         WriteRawString, ReadString
    IpPacket             offsets, tables and checksums of json_packet.cc
      PacketSerializer   SerializePacket
      PacketDeserializer DeserializePacket
        JsonPacket       a log is written, edited, played back and logged again
    Broadcaster          listeners, handles and broadcasts

Each `MC*` module defines the constants of a run; `MCJsonPipe` also lets a behaviour
begin with a text that no writer has written. The `*Proofs` modules hold the
theorems: `NetlinkProofs` those of `NetlinkMonitor` and `InterfaceActivator`,
`ProgramsProofs` those of the two programs, `LogFileProofs` those of the buffered
streams and of `LogFile`, `JsonPipeProofs` those of `JsonReader`, `JsonWriter` and
`JsonPipe`, `JsonNumberProofs` those of `JsonNumber`, `JsonPacketProofs` those of
the packet codec, `BroadcasterProofs` those of `Broadcaster`; `TextLemmas` has the
facts about sequences and induction that several of them use. Definitions whose
comment says "Faulty variant" are mutants: they are used by no specification.

**RtNetlink** is not code of the repository; it models the kernel as the code
in `src/` uses it. `dev` is the table of devices; `OtherPrograms` changes it at
any time (create, rename, flags, addresses, remove; an index is not used again),
and every change is appended to the monitor's socket, or dropped with `overrun`
if the socket holds `SockCap` messages. A query starts a dump; `DumpEntry`
delivers its objects one at a time as they are *at that moment*, so that changes
fall between entries, and `DumpDone` or `DumpFails` ends it. A second query
during a dump is refused with `EBUSY`. Two history variables mark what the
properties have to excuse: `tampered`, the devices that other programs have
their hands on too, and `failed`, the kinds of dump that the kernel gave up. Two more are kept per device,
`renamed` and `clashed` (two IPv4 addresses that differ in the prefix length only).

**NetlinkMonitor** has the members of the class as variables
(`sequence_number`, `last_received_seq`, `unsent_messages`,
`interfaces_by_index`), the local `old_last_received_seq`, the rest of the
datagram being handled, and `pc`. `Init` is `Bind`, `BeginLinkQuery` and twice
`BeginAddrQuery`; `HandleRead` is `ReceiveDatagram` (a datagram is any non-empty
prefix of the socket), then one action per message (`HandleAck`, `Announce` with
`UpdateLinkActive` behind it, `HandleAddr`), then `SendUnsent`/`FlushDone`, and
from the start until `recvmsg` says `EAGAIN`. The kernel acts between any two of
these. `event` is the last callback. The layout of messages and of their
attributes is abstracted: a message is a record. Addresses are put
into `ip4_addresses` the way `set<Ip4AddressInfo>` does it, by comparing the
address and not the prefix length. Renaming a device is a link message like
another: `HandleRead` takes the name of an interface only before it has announced
it (`netlink_monitor.cc:122`), and `NetlinkListener::InterfaceChanged`
(`netlink_monitor.h:34`), which could tell of a new name, is called nowhere.

A system call that the kernel refuses ends the program wherever it is made. The
state it ends in has one of two names. It is `"aborted"` where the model knows the
reason: an overrun socket (`ENOBUFS`), a device that is gone (`ENODEV`), an address
it has already (`EEXIST`), a device that is down, a log that is no array. These
aborts are what `AbortExplained` and its relatives are about. It is `"refused"`
where the kernel has reasons of its own (`EPERM`, `ENOMEM`, `EIO`, a disk that is
full): `BindRefused`, `SendRefused`, `ReceiveRefused` here, and one such action for
every other system call in the modules below. They can happen at any call and
nothing is claimed of why.

**NetlinkListener** is the abstract specification of the callbacks: `known` is
what a listener can know. An interface becomes known once, by
`InterfaceCreated`, with whatever state it has then; after that every change is
told by the one callback that fits, with the new state in it.

**InterfaceActivator** adds the callback body between `Announce` and
`UpdateLinkActive`: `SetDeviceStatus` and `SetDeviceIp4AddressInfo` change the
kernel's device and so put notifications on the socket that is being read.
`ENODEV` and `EEXIST` abort the program, as `AbortIfNextMessageIsNetlinkError`
does, and any other error refuses the call.

**TunInterface, Cheaproute, PlaybackTun.** `thread` is where the thread is when
it is not in netlink code. `SendPacket` writes the packet, drops it (`EAGAIN`),
or, on a device that is down, loses it or aborts, depending on the kernel; any
other errno ends the program with the device up as well.
`Cheaproute` has the queues of both TUN devices and the two listeners of crIN in
their order, `Forward` then `LogPacket`. Instead of returning, `SerializePacket` may
loop for ever on the packet (`LogEndless`: a TCP option of size 0, which is all
that `OptionsEnd` excepts), and the log's `write` may fail (`LogRefused`).
`PlaybackTun` has the one-shot timer
and reads the log a token at a time; a log is a sequence of brackets, packets,
elements that `DeserializePacket` refuses, and places where `Next()` returns
false. The packet as such is opaque in both.

**Streams.** `BufferedOutputStream` has the bytes before `pos_`; the copying loop
is a step per iteration; the delegatee takes everything. `BufferedInputStream`
has the bytes between `pos_` and `end_`; its delegatee may return any positive
number of bytes and 0 only at the end, or fail. `FileOutputStream` has the loop
over `write(2)` as it is written: it passes the same `buf` and `count` in every
iteration. **LogFile** puts them together the way `PacketLogger` and `Playback`
do: every call of the delegatee (`todo`) is made and returned from before the
buffered stream goes on; `OpenLog` may come at any moment, since cheaproute ends
only by being killed, and finds whatever has reached the file. `settled` is history:
how many bytes the last `Flush` that returned had flushed, which a later call that
is cut off by the kill does not take back. Writer and reader have a buffer size of
their own. The bytes are 1,
2, 3, ... so that a byte that is lost, repeated or moved shows.
`MemoryOutputStream` has sizes only.

**JSON.** The reader and the writer share an alphabet of lexemes (`JsonLexemes`):
punctuation, white space, keywords, and strings and numbers with a value, plus
ill-formed ones. `JsonReader` has one action for each branch of `Next()`;
`ReadValue`, `ReadName`, `PopMode` are operators as in the code. Whether a string
or a number is well formed is a property of the lexeme there; a minus sign alone
is a lexeme too, which `ReadNumber` takes for 0 together with the delimiter behind
it (`ReadMinus`). `JsonNumber` is `ReadNumber` in full, a step per iteration. `JsonWriter` has an action per call,
with its asserts as guards; that a value in an object has a name is not among them until
the first named member (`json_writer.cc:142`), so `NamesFirst` is what the caller has
to keep to. `margins` records the indentation of every line. Its
`mode_` and `mode_stack_` are `wmode` and `wmode_stack`, since `JsonPipe` extends
the reader's module and the writer's, and the reader has members of these names.
`Canonical(tokens)` is the reference: the text of a token sequence with every
comma and colon where the grammar wants it. `JsonString` has the text of a string
in characters: escapes, code points and their UTF-8.

**The packet codec.** A packet is the sequence of its bytes. `PacketSerializer`
makes the calls of `SerializePacket` on a `JsonWriter`, a step per header and per
turn of the loop over TCP options; `pack` is `pack_` of the one writer that all
packets go through. `PacketDeserializer` has the helpers of `DeserializePacket`
as functions from one state `r` of the call (reader, fields, `dest_buffer`, `ok`)
to the next, and a step per header, option and end. Numbers are in halves of 16
bits, so that 32-bit fields stay within TLC's integers. A name is an entry of
the table it comes from and an address a value of its own; a string of data is
the bytes that `FormatHex` or the text makes, escaped by `WriteRawString` and
read by `ReadString`. `str_value_` keeps its text over tokens without one, which is what
`StaleNames` is about. **JsonPacket** logs packets, puts the brackets and commas
around them that `PacketLogger` does not write, lets a hand edit the text in one
place (cut it, replace or add a scalar, a name, an option, take something out),
plays it back and logs the result once more. The layout is for a 64-bit build:
`WriteUdpHeader` returns the size of a pointer, which is that of a UDP header
only there.

**Broadcaster** has the memory of the vector `listeners_`, slot by slot, and
`Broadcast`'s iterator as an index into it. Callbacks may register and remove
anybody. An iterator that has passed `end()` goes on through the slots behind it,
which keep what they held; where it leaves the memory of the vector, or the
vector has moved, `pc` is `"undefined"`.

## 3. The runs

| Run | Module, config | States | Bounds | Properties |
|---|---|---|---|---|
| `monitor` | MCNetlinkMonitor | 1.75M | one interface, two names, one IPv4 address with two prefix lengths, one IPv6 address, 2 changes, socket of 3 | `NeverBusy`, `CaughtUp`, `AnswersInOrder`, `ListenerSpec`, `ComesToRest` |
| `activator` | MCInterfaceActivator | 436k | two interfaces, three names of which two configured, 1 change, socket of 3 | `AbortExplained`, `RightDevice`, `Activated` |
| `cheaproute` | MCCheaproute | 1.27M | both devices, 2 packets, queues of 2, 1 change, socket of 2 | `NothingSkipped`, `ForwardedAsLogged`, `ProgramAbortExplained`, `PacketsDrain` |
| `playback` | MCPlaybackTun | 489k | one device, 2 changes, five logs: whole, broken, invalid, no array, empty | `PlaysTheLog`, `PlaybackAbortExplained`, `RoundsGoOn` |
| `log_file` | LogFile, MCLogFile | 201k | a buffer of 6 to write and of 4 to read, writes and reads up to 3, 8 bytes in all, any short write or read, killed anywhere | `NothingLost`, `WholeWritesIntact`, `LogReadsBack`, `PeekIsNext`, `WriteReturns` |
| `memory_output` | MemoryOutputStream | | buffer of 16, writes up to 20 | `ContentsInBuffer`: **violated** |
| `json_number` | MCJsonNumber | 68k | all texts of up to 5 characters | `IntegersExact`, `DecimalsRead`, `NumberEnds` |
| `json_number_bad` | MCJsonNumber | | the same | `BadNumbersRefused`: **violated** |
| `json_pipe` | MCJsonPipe | 3.93M | 6 calls with two values, depth 3, one level of packing, indentation; all texts of up to 4 lexemes; all one-lexeme edits of a document of 19 | `WritesJson`, `IndentMatchesDepth`, `RoundTrip`, `CallStream`, `PopsWhatItPushed`, `ReadsJson`, `TokenStream` |
| `json_packet` | MCJsonPacket | 10k | 50 packets, alone and in logs of up to three; every one-place edit of four logs | `ReadsBack`, `SealedRight`, `ReaderAtEnd`, `StaleNames`, `PackDepth`, `OptionsEnd` |
| `json_packet_sealed` | MCJsonPacket, MCJsonPacketSealed | | the same | `ChecksumsSet`: **violated** |
| `broadcaster` | Broadcaster, MCBroadcaster | 931k | four listeners | `HandlesRegister`, `CallsInOrder`, `UndefinedExplained`, `AllCalled` |

Why the bounds are enough for the cases that matter. One interface and two
changes already give every order of a change, its notification, the dump entry
of the same object and the end of that dump; a socket of three messages is
overrun by some behaviours and not by others, and all three dumps run, wait in
the queue and fail. Two interfaces let the activator be called twice in one
datagram, and the second interface may be there from the start, appear, or be
someone else's. Two packets show reordering and loss; a queue of two can fill
while the thread is elsewhere. A buffer of 6 takes writes of 1, 2 and 3 bytes:
below half of it, so that they are copied and one of 2 may lie across its end,
and at half of it, so that they go around it; 8 bytes fill it once and begin
again. One of 4 is read past by 3 bytes and filled by one, so that reads go around it,
empty it and find it half full. A file that a short write has spoilt is not read back in `log_file`: the
reader's promises for it are those for any file, which are proved. The
packets of `json_packet` take every branch of the codec, and there is one for each
thing that the text has no place for; sizes are around 256, and two checksums
need a second carry. Four listeners let the vector grow from 1 to 2 to 4, so
that a callback registers with and without room. A depth of three has arrays in objects in arrays, and takes all six
calls to open and close; a seventh would only lengthen lists. The end of a
behaviour at `MaxChanges`, `MaxPackets`, `MaxLen` or `MaxCalls` is a stop, so
deadlock is not checked in those runs.

What the runs found. `memory_output`: `MemoryOutputStream::Write` compares the
size of a write with that of the buffer, not with what is left of it, so several
small writes pass its end. `json_number_bad`: the switch in `ReadNumber` has no
default, so it reads `--1`, which a test calls bad, as -1. `json_packet_sealed`:
`README.markdown:32` promises that deserialization "will set all the appropriate
checksums", and a checksum whose sum needs a second folding is off by one. Beside
these the models show, without a document that says otherwise: `FileOutputStream` repeats
bytes after a short write (`WholeWritesIntact` speaks of whole writes only); a
syntax error in a packet log ends a round without a message; a packet on crIN
while crOUT is still down may end the program, depending on the kernel
(`ProgramAbortExplained`), and so may a first round of playback before activation
(`PlaybackAbortExplained`); the table of the monitor keeps the first name of an
interface, and one entry for two prefix lengths of one address, which it drops when
either of them goes: `CaughtUp` excepts just these, the name of a device that was
`renamed` and the missing address of one that has `clashed`; `[-,]` is read as
an array of one number (`ReadsJson` leaves texts with such a minus sign out); a value
without a name right after `BeginObject` gets past the writer's asserts, and so does
what follows it (`NamelessValue`).
Of the packet codec they show: the total length of a packet of 256 bytes or more
is wrong (`SealedRight` has it right for shorter ones, and each checksum that
folds in one step); a TCP header leaves the writer packed for good (`PackDepth`); a TCP option
that says that its size is 0 keeps `SerializePacket` in its loop (`OptionsEnd`
excepts just this); which packets do not come back (`ReadsBack`: IP options,
window scaling, selective acknowledgements, ICMP redirects, among others); and
that a null typed for the name of a TCP option repeats the option before it
(`StaleNames` says that this happens in no other header). Of `Broadcaster`: callbacks may register listeners while there is
room and remove those still to be called, and nothing else
(`UndefinedExplained`); no listener in `src/` does either.

### Fairness

* The thread (`WF` of the program's own steps): a process that is not blocked
  runs on. The calls in the handlers return, with whatever result; the netlink
  calls of the activator are answered by the kernel at once. The exception is
  `SerializePacket`: `LogEndless` may be taken instead of `LogPacket`, nothing leads out
  of it, and `PacketsDrain` names it. That a call is refused is never assumed to
  happen.
* Each descriptor in `Cheaproute` (`WF` of `HandleReadIn`, of `HandleReadOut` and
  of netlink separately): libev calls the handlers of all ready descriptors
  in each turn of the loop, so none is passed over for ever.
* The timer in `PlaybackTun`: libev fires an expired timer, and the netlink socket
  cannot keep the loop busy for ever because the other programs' changes are
  finite. `WF` on `PlaybackStep` and on `PlayerNetlinkRuns` separately says so.
* The kernel's dump (`WF` of `DumpProgress`): it goes on as long as there is room
  in the socket. Failure of a dump is never assumed to happen.
* `LogFile`: a call that was begun goes on, and `write(2)` returns, with whatever
  result (`WF` of `Buffer` inside a call, `CallDelegatee`, `Kernel`). None on
  callers, on the reader and on the end of cheaproute.
* `JsonPacket`: a call of `SerializePacket` goes on (`WF` of `Serialize`).
* No fairness on other programs and on arriving packets.

## 4. The proofs

All theorems hold for every value of the constants allowed by the named
assumptions (`ConstantsAssumption`, `ActivatorAssumption`, `ProgramAssumption`,
`SizeAssumption`, `InputsAssumption`, ...), in particular for any number of
interfaces, names and addresses, any socket capacity and any number of changes,
any text of a number and any log of packets. The assumptions of the packet codec
say no more than what kind of thing is logged and typed: packets are sequences of
bytes (`LogsAssumption`), and what a hand puts into the text are scalars and
numbers of unnamed options (`StraysAssumption`, `OtherNamesAssumption`).

* **NetlinkProofs**, the monitor. `MonitorTypeCorrect`, `MonitorNeverBusy`,
  `MonitorAnswersInOrder`, `MonitorImplementsListener`. `NeverBusy` is not
  inductive: it says nothing of the query that will be sent. The invariant is
  the conjunction of `TypeOK`; `OneQuery` (at most one of: a dump running, its
  answer in the socket, its answer in the datagram; and it belongs to the oldest
  unanswered query); `QueueInv` (the sequence numbers count the queue: when
  something is out, `sequence_number = last_received_seq + 1 + Len(unsent_messages)`,
  and when nothing is, the queue is empty or `HandleRead` is about to flush
  it); and `DatagramInv` (there is a message to handle where `HandleRead` looks at
  one). One lemma per action. The refinement of
  `NetlinkListener` maps `known` to the public entries of the table.

  `MonitorCaughtUp` (flags, names but after a renaming, addresses but after a clash)
  needs `CaughtUpInv`, which relates the table, the messages on
  the way (the rest of the datagram, then the socket) and the rest of the dump to
  the kernel's devices. For each link and each address: the *last* message
  on the way that speaks of it tells the truth; where none does, the table agrees
  with the kernel already, or the object is still to come from a dump that is
  running, in the queue or lost with a failure. A dump entry is made from the
  device as it is at that moment and a change appends its own message, so both
  keep the truth of the last word; handling the first message takes away a word
  only when the table says the same. Two more parts are about what is excepted:
  `KeyKnown`, of an address that a device has, as long as the device has not `clashed`,
  the last word is also the last about any address with its key (so an insertion
  that finds the key taken loses nothing in the end, and no removal takes the wrong
  one for good), and `NamesInv` (`NameRight`), the name in the
  table and in every message on the way is the device's own unless it was
  `renamed`. The assumption on the constants
  says, for this, that addresses of the two families differ and that a device of
  the initial state is unborn or present under a name.
* **NetlinkProofs**, the activator. The same invariants survive the activator's
  calls (`ActivatorNeverBusy`, `ActivatorKeepsListenerSpec`, `ActivatorCaughtUp`).
  `ActivatorAbortExplained` needs two more parts: `MessagesInv`, every message on
  the way is still true of its device unless another program interfered, and
  `PristineInv`, a device that is left alone has an address only after its
  announcement, so `EEXIST` cannot come from the activator itself.
  `ActivatorRightDevice` follows from the same.
* **ProgramsProofs**, cheaproute. `ProgramKeepsActivator`: the program implements
  `ActivatorSpec`, so all of the above carries over (`ProgramKeepsNetlink`).
  `ProgramNothingSkipped` from `HandInv` (the buffer is full exactly inside a
  handler) and `ProgramAborts` from `GoneInv` (a device that is gone was removed by
  another program). `ProgramForwardsAsLogged` from `NumberedInv`, packets are
  numbered as they arrive, and `WrittenInv`: what was written to crOUT is increasing,
  and together with what was dropped it counts the packets that
  `PacketForwarder` has been called with, which is one more than were logged
  between the two listeners.
* **ProgramsProofs**, playbacktun. `PlaybackKeepsActivator` and
  `PlaybackKeepsNetlink`, as for cheaproute. `PlaybackPlaysTheLog` from `RoundInv`, which ties the place of the
  thread in `Playback` to the place of the reader in the log; that what was written
  is a subsequence of what was passed over is kept by giving a packet that is
  written the last place (`PlacesGrow`) and one that is refused none. `PlaybackAborts`
  from `GoneInv` and what the thread can have met (`PlayerExplained`).
* **LogFileProofs.** Of the streams alone: `WriterTypeCorrect`, `WriterNothingLost`,
  `WriterFlushReaches`, for every buffer size from 1 on (no bytes are
  pending outside of a call); `StreamTypeCorrect`, `StreamInOrder`,
  `StreamEndIsTheEnd`, for every file, every buffer size and every pattern of
  short reads (returned, buffered and remaining bytes are the file; an empty
  answer of the delegatee means an empty remainder). Of the log:
  `LogNothingLost`, `LogWholeWritesIntact`, `LogLogReadsBack`, `LogPeekIsNext`. `LogInv`
  is the writer's invariant; `FileInv`, as long as no write was short, a call of
  `write(2)` has taken all of its buffer or nothing, and the file, the buffer
  offered to it and `FlattenSeq(todo)` are all that the buffered stream has
  passed on; `SettleKeeps`, what the last `Flush` that returned had flushed is in the
  file, and stays there whatever call is begun next; and `PlayInv`, the reader's
  invariant over a file that changes no more. The bytes are 1, 2, 3, ... here (`LogAssumption`).
* **JsonPipeProofs**, the reader. `ReaderPopsWhatItPushed` and `ReaderTokenStream` for every
  text: the invariant `IInv` ties the stack, the mode and the last token
  together. `ReaderReadsJson`, soundness, from `TextInv`: the tokens so far are
  a prefix of a JSON value whose depth is that of the stack, and
  `Squeeze(source) = Canonical(tokens) \o Squeeze(rest)`, the text
  read, without its white space, is the canonical text of the tokens.
  `CommaIsSeparator` is the heart of it: the modes ask for a comma exactly where
  the grammar has one. The lemma `NextReads` is the other direction,
  completeness: before a canonical text, however spaced, `Next()` reads the next
  token and leaves the rest.
* **JsonPipeProofs**, the writer and the pipe. Of the writer: `WriterIndents`, `WriterCallStream` and
  `WriterWritesJson`, from `WriterInv` (mode, stack, indentation) and `WrittenInv`
  (the depth of the calls is that of the stack, and `mode_` asks for a comma
  exactly where the grammar does). Nothing in the code makes a caller name the first
  member of an object. So `WriterCallStream` is about all callers, and says which
  calls without a name get through; `WriterWritesJson` and `PipeRoundTrip` have
  `NamesFirst` as their condition, and need `NamedInv`, that `mode_` stands for a
  container without members only right after it was begun. `PipeRoundTrip`, a reader returns the calls of
  the writer as tokens and never refuses the text, whatever the nesting,
  indentation and packing, from `PipeInv`: `LoggedInv`, the calls
  nest, with witnesses of the containers open after each of them (`NestsTo`), and
  every number in the text has a delimiter behind it; and `ReadInv`,
  the tokens are the first of the calls, the reader has open what the writer had
  after that many calls, and the rest of the text is that of the calls left.
* **JsonNumberProofs.** `NumberIntegersExact` and `NumberDecimalsRead`, for texts of
  any length. `NumberInv` is `TypeOK`; `PlaceInv`, where in the text `ReadNumber`
  looks, which runs from the first character behind the sign on; `LocalsInv`, what
  the flags of the loop and the characters collected say of the text before that
  place, as long as it is `Clean` (only digits and points behind the sign); and
  `ResultInv`, at which characters the loop ends and with which result. A number of
  the grammar is clean up to its delimiter, so the loop has ended there, at a second
  point or at a digit behind an initial zero (`WhereItEnds`), and the grammar decides
  which.
* **JsonPacketProofs.** `PacketPackDepth`, `PacketReaderAtEnd`,
  `PacketStaleNames`, `PacketSealedExactly` and `PacketSealedRight`, for packets of any bytes, logs of any
  length and every edit of `JsonPacket`. The argument has four layers.

  *Nesting.* A sequence of tokens leads from one level to another, `Nests(ts, m, n)`,
  when each of them `Fits` the level it meets; the levels tell objects from
  arrays (level 1 is between the packets of the log, 2 inside a packet). Nothing
  that a token's text or number says matters to it, so writing a token and lexing
  it again keeps it (`ReadIsLike`; this is where `FormatHex`, `ParseHex`,
  `WriteRawString` and `ReadString` have to give bytes back, though not the same ones).

  *The serializer.* `Writes(s, m, n, k, j)` of every part of `SerializePacket`: the
  calls in `s` nest from level `m` to `n`, with `k` levels of packing more and `j`
  TCP headers. `SerializeInv` puts them together: the calls so far nest to the level
  that belongs to `pc`, and `pack` is the number of TCP headers written, and one
  more while their options are written.

  *The deserializer.* `Goes` and `Reads` of every helper: if it succeeds, the tokens
  it has consumed lead from level `m` to `n`, the fields or the bytes it makes have
  their kind and number, and `stale` is as before, except in `ExpectNextEnumValue`.
  There a lookup for a token without text can succeed only if what is left in
  `str_value_` is an entry of a table; everywhere but in the list of TCP options a
  property name comes just before, which is none, and an option makes the headers
  longer than 40 bytes, which padding brings to 44. `ReaderInv` says
  for each place of `dpc` how many bytes the packet has, at which level the rest
  of the text is, and whether a name may be stale: `AtIp`, `AtHeader2`,
  `AtOptions`, `AtDoff`, `AtData`, `AtAccepted`. `EditsOk` shows that each edit leaves
  a text that nests, or one that does not begin with a packet and is refused at
  once; `PacketInv` is all of this.

  *Checksums.* `WordSum` of a concatenation is the sum of both sums when the first
  part has an even length (`WordSumConcat`), and the code's `Add` is `WordSum`
  (`AddIsWordSum`). A sum is bounded by the number of words, so that the sum over at
  most 65535 bytes and a pseudo header is `Narrow`: its carry has 16 bits. Then
  `Checksummed`: where a checksum takes the place of two zero bytes, the whole is
  65535 in ones' complement if and only if the folding had no second carry. That
  there are two zero bytes when `Seal` runs is an invariant of the deserializer: from
  `AtHeader2` on a packet begins with byte 69 and has zeros for the first checksum
  (`IpBlank`), and the header behind it has zeros for the second (`Blank`). So
  `Seal` makes a packet that is `Sealed` (`SealSeals`), `AtAccepted` keeps that, and
  `PacketInv` says it of every packet in `got` (`SealedExactly`). It is an equivalence:
  the checksums that `ChecksumsSet` finds wrong are wrong in every packet of their
  kind. `SealedRight` is the half of it that a receiver would ask for.
* **TextLemmas.** The induction theorems of the library take an operator as a
  parameter, which the provers cannot instantiate; but that a nonempty set of
  naturals has a least element is one of its theorems about *sets*, so `Induct`, a
  set that has 0 and is closed under successor is all of `Nat`, can be proved
  and cited. From it come the facts about `FlattenSeq` and about cutting and
  joining sequences; those about `Squeeze` and `Canonical` (what they are of a
  sequence with one element more, of a concatenation) in `JsonPipeProofs`, and
  those about the recursive functions of the codec in `JsonPacketProofs`, rest on
  them.
* **BroadcasterProofs.** `BroadcasterTypeCorrect`, `BroadcasterHandlesRegister`,
  `BroadcasterCallsInOrder`, `BroadcasterUndefinedExplained` and
  `BroadcasterAllCalled`, for any set of listeners. The listeners called are the
  first `i` slots as long as nothing was disturbed; that the listeners in them
  are distinct is what makes a removal after the iterator harmless. `AllCalled`
  is an action property and follows from that invariant.

Only model-checked: all liveness (`ComesToRest`, `Activated`, `PacketsDrain`,
`RoundsGoOn`, `WriteReturns`, `NumberEnds`, `OptionsEnd`), which is beyond the
prover; and `ReadsBack` of `JsonPacket`. It says that the codec as a whole is the
identity on the packets it names: every field, table and escape with its inverse,
and an induction over the data for each.

`Sealed` states the second checksum for packets of at most 65535 bytes, the most
that IP allows. A text may describe more bytes than that; the model adds them up
without a limit, while the `uint32_t` of the code overflows beyond 128 KB, so the
model says nothing about the checksum of such a text.

## 5. What is not modelled

* libev, the kernel's TUN driver and rtnetlink are environment: RtNetlink and the
  external actions model them from how `src/` uses them.
* The bytes of netlink messages and their attributes, the text of addresses and
  all logging output: formatting only. `InterfaceStatusLogger` only prints.
* Start-up of the TUN devices (`open`, `ioctl`): part of the initial state.
* `scoped_ptr`, `FileDescriptor`: ownership helpers without behaviour of their
  own. `CheckFdOp`'s abort is an action beside each action that makes a system call:
  those whose names end in `Refused` or `Fails`, and the last disjunct of
  `SendPacket`. Only start-up, which is part of the initial state, has none.
* The ranges of `strtoll` and `strtod` (a number that is too large is a lexeme of
  its own); in `JsonReader` a string is well formed or one of the ill-formed
  kinds, and `JsonString` says which.
* Error messages of `DeserializePacket`, `StrPrintf` and its relatives.
* Reads outside of `kHexValues` for characters from 128 on: undefined behaviour
  with no set of outcomes to choose from. No text of the runs depends on them.

## 6. Plan

Done: the netlink core and both programs, the streams alone and composed into
the packet log, the JSON reader and writer, numbers, and the broadcaster, modelled
and with every safety property that the runs check proved; strings and the packet
codec, modelled and checked, and of the codec proved where the reader ends, which
names can be stale, how the writer is left packed and when the checksums and the
total length it makes are right.

1. `ReadsBack` of `JsonPacket` header by header, from lemmas that say which field
   each helper of `PacketDeserializer` makes of the calls of `PacketSerializer`.
2. Address clashes in the monitor's set: which of two prefix lengths of one address
   the table keeps (`CaughtUp` says only that it may lack one).
