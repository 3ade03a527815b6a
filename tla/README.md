# IceTunnel: TLA+ models, checks and proofs

IceTunnel carries TCP connections over UDP. A client-side process accepts TCP
connections and forwards the bytes in UDP packets to a server-side process, which
connects to the target and writes them there; the same happens in the other
direction. This directory models the protocol of `src/connection.cpp` and the code
around it (event loop, sockets, encoding of confirmations, speed control, listeners),
checks it with TLC on small instances, shows that a tunnel implements a pair of byte
streams, and proves with TLAPS, for all parameters, every invariant that a passing run checks.

## 1. Inventory

| Component | State | Operations | Interaction |
|---|---|---|---|
| `Connection` (`connection.cpp`) | two flags `tcpConnected`, `udpConnected`; indices of the next packet to send, the next to write to TCP, the received, the confirmed and the final one; the maps of sent and received packets, the queue of confirmations, the bytes waiting for a packet; two resend counters; eleven events | `tcpRead`, `tcpWrite`, `tcpClose`, `udpRead`, `udpWrite`, `udpResend`, `udpClose`, `buildUdpPackets`, `buildConfirmations`, `buildByeBye`, `isUdpFinished` | its handlers are called by the event loop, `udpRead` by the `UdpListener`; it is deleted by the `Server` |
| `Packet` (`packet.cpp`) | type, index, payload, CRC | `encode`, accessors, `packIntPair`, `unpackIntPair` | encoded by one end, decoded by the other |
| Event loop (`event.cpp`) | per event: time, readiness, priority; the list of ready events | `setTime`, `disable`, `raise`, `doEvents` | calls every handler; one thread |
| `Socket` (`socket.cpp`, `socket.linux.cpp`) | the file descriptor; five sources: ready for reading, for writing, closed for reading, for writing, closed; the error flag | `Group::poll`, `read`, `write`, `readfrom`, `writeto`, `accept`, `closeRead`, `closeWrite`, `close` | epoll reports changes once; `poll` turns them into the readiness of the sources, which the event loop raises |
| `Server`, `TcpListener`, `UdpListener` (`server.cpp`) | the listeners, the connections of each by address | accepting, dispatching datagrams, creating and deleting connections and listeners, the destructor | owns everything else |
| Speed control (`Measure`, `onUdpSent`, `onUdpDelivered`, `getUdpInitialIntervalUs`) | the send interval, the measures that are not evaluated yet, the measure of each sent packet | count a sent packet, count its answer (delivered or lost), evaluate a measure, the interval of a new connection | called by `udpWrite`, `udpResend`, `udpRead`; `udpWrite` and the flow control use the interval |
| Addresses, log, platform, command line, tests | none that matters here | | |

The protocol. Packets `Hello`, `Data`, `Bye` and `Disconnect` have consecutive
indices per direction. The receiver stores them, advances its *master index* over
what is there without a gap and answers with `Confirmation` packets: the master
index and the indices received beyond it. The sender repeats a packet until it is
confirmed, at most `udpResendCount` times, and then gives its peer up. When TCP
closes at one end it sends a `Bye` (or a `Disconnect`); its peer writes everything
before it to TCP, closes TCP and sends its own. `ByeBye` says that all packets of an
end are confirmed, so that the other end may stop confirming.

What is hard. Everything runs in one thread, but the order of the handlers is
arbitrary: timers, two sockets and two peers interleave freely, and the loop
shuffles what is ready. Datagrams are lost, repeated, delayed and reordered; TCP
accepts parts of packets; both ends may close at once; an event that nobody enables
again stops a connection silently; counters are kept by hand in many places. The
list with the lines where each hazard bites is in `PROJECT.json` under `hazards`.

What makes it correct, by component:

- `Connection`: TCP gets the peer's bytes once and in order; nothing is confirmed
  that was not received, nothing forgotten that TCP has not got; the end of the
  stream comes after its last byte; counters and queues agree; pending work always
  has an enabled event; a closed connection is deleted in the end.
- event loop: an enabled and ready event is raised in the end, once.
- `Packet`: what is packed is unpacked, and a split confirmation loses nothing.
- tunnel: to its two TCP hosts it is a pair of byte streams.
- socket: no readiness is missed, what arrived before a hangup is read, a hangup
  reaches the owner.
- server and listeners: a datagram reaches the connection of its sender, no pointer
  dangles, no listener leaks; a failed listener is recreated.
- speed control: measures count what was sent and answered, take effect in order and
  in the end, losses never speed a connection up, and the interval, by which the flow
  control divides, is not zero without reason.

## 2. Modules

    Connection          the class: a record of its fields, one operator per method
      |-- Endpoint      one connection in an environment that may do anything
      |     `-- MCEndpoint
      |-- Tunnel        client and server connections over an unreliable network
      |     `-- MCTunnel       (Tunnel implements ByteStream)
      `-- ConnectionProofs   every operator keeps the local invariant, and what each
            |                does to what the peer may rely on
            |-- EndpointProofs (with Endpoint)   the theorems about one end
            `-- TunnelProofs (with Tunnel)       the theorems about both, and about
                                                 ByteStream
    ByteStream          what a tunnel promises to the TCP hosts it joins
    SpeedControl        the measures and the send interval of a connection
      |-- MCSpeedControl
      `-- SpeedControlProofs
    EventLoop           Event, Event::Source and Event::Manager
      |-- MCEventLoop
      `-- EventLoopProofs
    Socket              a socket between epoll and its owner
      `-- SocketProofs
    PacketCodec         packIntPair and unpackIntPair
      `-- Confirmations splitting confirmations into packets and reading them
            `-- ConfirmationsProofs
    Server              the listeners and the connections of a process
      |-- MCServer
      `-- ServerProofs

**Connection** has no variables. The state of a connection is a record `c` whose
fields carry the names of the class's fields; a method is an operator from the
record before the call to the record after it and has the method's name.
`tcpRead(c, size)` and `tcpWrite(c, n)` take what the socket returned,
`udpResend(c, expired)` the packets whose time has come, `udpRead(c, m)` the
datagram. `handle(c, e)` is `Connection::handle` with the preceding
`Event::raise`, which disables the event. Abstractions:

- payload is a range of positions in the sender's TCP stream, so that order,
  loss and repetition of bytes are visible and their values are not;
- an event is in the set `ev` (`isEnabled`) or not; its time is dropped, so that an
  enabled timer may fire at any moment, earlier and later than in the program;
- a confirmation carries the set of indices that the code packs as ranges, in one
  datagram; how they are packed, split and unpacked is module Confirmations;
- `MaxSentCount` and `ReceiveWindow` stand for the quotients computed in
  `onUdpSentBufferChanged` and `udpRead`. The send interval is in module SpeedControl,
  here `MaxSentCount` is constant;
- `udpSentPackets.end()->first` (undefined in C++) has the value that libstdc++
  produces, the size of the map (`sentCount`). All builds of the repository use it;
- a loop whose number of rounds is fixed by an invariant is written without the
  loop: `buildUdpPackets` cuts at most one packet (`LeftoverIsPartial`),
  `tcpWrite(true)` goes to the master index (`ReceivedKept`). Both invariants are
  checked and proved.

**Endpoint** puts one connection into an environment without assumptions: any
datagram of the constant `Datagrams` may arrive at any time, consistent with an
honest peer or not; the TCP host delivers, accepts and hangs up at will; sockets
fail. One action per handler, one for each thing `Socket::Group::poll` may report,
and `Close`, the deletion by `Server::onConnectionClosed`.

**Tunnel** composes two connections. `net[s]` is the set of all datagrams ever sent
to `s`; delivery does not remove, so that every datagram may be lost, repeated,
delayed and overtaken. The client's connection exists from the start
(`TcpListener::handle`); the server's is opened by `Accept`, the branch of
`UdpListener::handle` for an unknown address, again after it has been deleted if
`MaxConnections` allows. An end goes on after the other is deleted. The history
variable `aborted` records which end gave up or lost its UDP socket. The host behind
the n-th connection of the server sends other bytes than the hosts before it
(`firstByte`), so that streams of several hosts can be told apart.

**ByteStream** is the abstract specification. It knows how many bytes were taken from
each host, what each host has got, whether it is connected, and whether its end of the
tunnel was lost. `Take` takes bytes, `Give` gives the next ones in order, `Finish`
disconnects a host whose peer is gone and has sent nothing more, `Lose` loses an end.
The refinement mapping (`Stream` in `Tunnel`) takes `tcpReceivedData`, `tcpWritten` and
`tcpConnected` of both connections; an end is lost when it has given up, its UDP socket
has failed or its TCP host has hung up. All packets, timers and datagrams are
stuttering steps.

How actions correspond to code: `TcpRead`, `TcpWrite`, `TcpClose`, `UdpWrite`,
`UdpClose`, `BuildUdpPackets`, `BuildConfirmations`, `BuildByeBye`, `UdpResend` and
`UdpCloseWait` are the branches of `Connection::handle`, with the guard "the event
is enabled and its source is ready"; `TcpReadEof` is `tcpRead` when `recv` returns 0
and `Socket::read` closes the socket for reading; `UdpRead` is
`UdpListener::handle`; `PollHangup` and `PollError` are the branches of
`Socket::Group::poll` for `EPOLLRDHUP`/`EPOLLHUP` and `EPOLLERR`. The map in
`PROJECT.json` gives the lines of every definition.

**EventLoop** is `event.cpp` with `Server::step`: `Collect` picks the due events of
the highest priority, `Raise` disables one and enters its handler, `Sleep` and `Wake`
are the wait in `Socket::Group::poll`. While a handler runs it may, in any number of
steps, set, disable, create and delete any event and change or delete any source
(`SetTime`, `Disable`, `Create`, `Delete`, `SetReady`, `DeleteSource`): more than any
handler of the program does. The clock is relative (`Tick`), so that times need no
bound but `MaxDelay`. The intrusive lists are sets, as `doEvents` shuffles what it
raises.

**PacketCodec** and **Confirmations** have the loop of `buildConfirmations` that packs
runs of indices (`PackRun`, `Split`, `CannotEncode`, `Queue`) and the loop of `udpRead`
that unpacks one packet after another (`Receive`, `Unpack`). The packets are read in
any order, and since the properties hold at every step, any of them may be missing.
`IntBits`, `GroupBits` and `MaxGroups` are 32, 7 and 6 in the code; `pow2` is a function
and stands for the shifts. `values(data)` has the `int` that the code adds up after each
byte, with the overflow of the program.

**Server** has the three maps of the class `Server` with their objects, named by ids
that are used again as memory is, so that a pointer to a deleted object may meet a new
one. One action per handler of the listeners (`TcpAccept`, `TcpListenerClose`,
`UdpAccept`, `UdpListenerClose`), `TcpFails` and `UdpFails` for `EPOLLERR`, and
`ConnectionClose` for `onConnectionClosed`. A connection is its listener and its
address; all it does is to finish (`Finish`) at any moment. Datagrams for a known
address change nothing here. The process has one listener of each kind. After `Stop`
the destructor deletes what is left, one object in each step (`StopConnection`,
`StopTcpListener`, `StopUdpListener`), in the order of `server.cpp:200-208`.

**Socket** is one socket with its owner and with the part of the kernel it talks to.
`polled` is the body of the loop in `Socket::Group::poll`; `Read`, `ReadAgain`,
`ReadFails` and `ReadEnd` are the outcomes of `recv`, `recvfrom` and `accept`, `Write`,
`WriteAgain` and `WriteFails` those of `send` and `sendto`; `OwnerClosesRead` and
`OwnerCloses` are the calls of `Connection`. The kernel's side (external: `Arrives`,
`HostCloses`, `HostResets`, `Drains` and so on) has a queue, free space, an error that
is reported once, and the entry in epoll's ready list (`pending`), which appears when
something changes and goes when `epoll_wait` reports it; `noSpace` is its note to wake
a writer. The three kinds of socket are a stream, a datagram socket and a listener.
A `connect` that fails at once is left out.

**SpeedControl** has the measures of a connection and the packets as far as they count
for them. `UdpWrite`, `UdpResend` and `UdpReadConfirmation` are what `udpWrite`,
`udpResend` and `udpRead` do to them; `getUdpInitialIntervalUs` gives the first
interval. The double arithmetic is exact, on fractions. A time stands only where it
counts, in the length of a measure, and may go back. `evaluations` and `twice` are
histories. Several packets that one call confirms or finds expired are taken one after
another. That the interval delays `udpWrite` is left out, as packets may be sent at any
moment anyway.

## 3. Runs

Every run takes less than five minutes with two workers.

| Run | Instance | Properties | Result |
|---|---|---|---|
| `endpoint` | packets and stream of 2 bytes, window 1, indices up to 2, confirmations of any of them | `TypeOK`, `UnsentCounted`, `LeftoverIsPartial`, `ReceivedKept`, `FinalIsMaster`, `NoLostWakeup`, `NothingAfterFinal` | hold |
| `endpoint_live` | indices up to 1, no selective confirmations, fairness | `ClosedIsDeleted`, `GivenUpIsFlushed` | hold |
| `transfer` | client sends 2 packets and hangs up, window 2, at most 6 datagrams | `TypeOK`, `InOrderDelivery`, `ConfirmedIsReceived`, `ImplementsByteStream` | hold |
| `closing` | the client's TCP host hangs up, no data; TCP error at the client, UDP error at the server | `FinishedIsReceived` | holds |
| `tunnel_live` | 1 packet, 1 resend, fairness, nothing assumed of the network | `ReadIsWritten` | holds |
| `speed` | 3 packets of 1 or 3 bytes, 1 resend, measures of 3 bytes or 10 us; alone or beside two other connections; packets fast, slow, or with the clock set back; fairness | `TypeOK`, `AnsweredWereSent`, `ZeroOnlyIfFast`, `EvaluatedInOrder`, `EvaluatedIsAnswered`, `LossNeverAmplifies`, `MeasureIsEvaluated` | hold |
| `event_loop` | a reader and a writer with priority, another event of the reader's source, a timer; `MaxDelay` 2, fairness | `TypeOK`, `RaisedAreReady`, `ListIsExact`, `OncePerRound`, `NoSleepWhileDue`, `DueIsRaised` | hold |
| `socket` | a queue of 2, space of 3, writers woken at 2; fairness | `TypeOK`, `NoLostReadiness`, `ReadBeforeClosed`, `HangupCloses` | hold |
| `confirmations` | `int` of 5 bits, groups of 2, all indices an `int` has, packets of 3 and 6 bytes | `TypeOK`, `ConfirmsOnlyReceived`, `AllConfirmed`, `NeverMalformed` | hold |
| `server` | memory for 2 TCP listeners, 3 UDP listeners, 3 connections; 2 addresses; the destructor at any moment | `TypeOK`, `Registered`, `PrivateListeners`, `ListenersStay` | hold |
| `send_buffer` | 5 packets, `MaxSentCount` 1 | `SendBufferIsBounded` | violated |
| `splice` | the server's host sends 2 packets, 2 connections | `StreamIsWhole` | violated |

What they show:

- `NoLostWakeup` is the heart of the local checks: after every handler, packets to
  send or resend, confirmations to build, bytes to cut or to write and a connection
  to delete have their event enabled. With fairness this is what makes the liveness
  properties true.
- `ImplementsByteStream` says that the tunnel is a pair of TCP streams: every step of
  the two connections is a step of `ByteStream` or invisible to the hosts. A host gets
  the next bytes and no others, and sees the end of the stream behind the last byte
  only, unless its end was lost. The invariants say it of the state and go further:
  `InOrderDelivery` relates what was written to what was received, by
  `ConfirmedIsReceived` the sender forgets a packet only when the receiver has it, and
  by `FinishedIsReceived` an end that finishes by itself has delivered everything.
- `ClosedIsDeleted` has one escape, `CutOff`: a `ByeBye` that arrives before the last
  confirmation was built cancels it (`connection.cpp:719-720`), and then
  `isUdpFinished` never becomes true, because `udpConfirmedMasterIndex` stays behind.
  Such a connection stays until the process ends. An honest peer sends such a
  `ByeBye`: an end that has received its peer's `Bye` counts as having no more data
  (`isNoMoreDataWillBeSent`, `connection.cpp:742`) although its own `Bye` is still to
  come (`connection.cpp:653`), and `packet.h:31-33` has `ByeBye` come after it.
- `GivenUpIsFlushed` describes what becomes of the TCP host of a connection that gave
  its peer up. It is disconnected, or it gets all that was received; in the second case
  `udpClose` has left TCP open and nothing closes it any more, so the host waits for
  ever.
- `SendBufferIsBounded` is violated: the count that bounds the send buffer is the
  size of the map minus its least index, so it shrinks as the connection gets older.
- `StreamIsWhole` is violated: datagrams name no connection but by their address. When
  the server's end gives up and is deleted while the client's goes on, a packet that
  the client repeats opens a second connection with a new TCP host, and the client takes
  its packets for those that are missing. With `MaxConnections` 2 neither
  `InOrderDelivery` nor `ReadIsWritten` says anything sensible for the same reason.
- `ZeroOnlyIfFast`: the interval is rounded and 0 is possible; then the division in
  `onUdpSentBufferChanged` (`connection.cpp:762`) divides by zero. It takes a measure
  without losses, or with fewer than `udpMaxSendLossPercent` allows, whose packets were
  sent within 6 us each: then the interval before amplification is below 1 us, and
  rounding does the rest.
- `EvaluatedIsAnswered` has the exception of packets that were counted twice: one whose
  time ran out counts as lost, and when its confirmation comes before the resend it
  counts as delivered too. `AnsweredWereSent` says that neither count alone exceeds what
  was sent. `MeasureIsEvaluated` leaves out measures during which the clock went back:
  `onUdpDelivered` never evaluates those.
- `RaisedAreReady` is the `assert` of `doEvents`: it holds whatever the handlers of a
  round do to the events that are still to be raised.
- `DueIsRaised` has a condition: the loop must find, again and again, nothing due of a
  higher priority. The server side gives the UDP read and write events of its listener
  and connections priority 1, so a UDP socket that is never idle starves their TCP
  handlers and timers.
- `NoLostReadiness` says that edge-triggered reports are enough: whatever can be read or
  written has its source ready or a report on the way. It depends on `read` leaving the
  source alone after errors other than `EAGAIN`. `ReadBeforeClosed` is about the hangup
  that comes together with the last bytes. A UDP socket that has an error while
  datagrams wait is closed for writing but, as nothing ends its stream, stays open for
  reading (`socket.linux.cpp:76-78`): its listener can no longer send and is not
  created again. `HangupCloses` is therefore about streams.
- `ConfirmsOnlyReceived` says that every packet of a split confirmation stands for
  itself: one that arrives without the others never confirms an index too many, which
  would make the peer forget a packet that nobody has. `NeverMalformed` goes up to the
  largest index, where sums come next to the overflow.
- `Registered` says that no pointer dangles between connections and listeners and that
  a datagram reaches the connection of its sender, also between two deletions of the
  destructor. `ListenersStay` says that listeners come back, with one exception: a UDP
  listener that fails while it has connections ignores its close event
  (`server.cpp:147`), which is then disabled, and nobody enables it again when the last
  connection goes. The process goes on without a UDP socket.

Bounds and why they are enough. Indices matter through their order and through gaps:
index 0 is the `Hello`, and two more allow a gap, a final packet behind the gap and
a packet behind the final one. A window of one index lets packets be
refused. `udpResendCount` 0 or 1 and `confirmationResendCount` 1 let the counters
reach their ends within a few steps; larger values repeat the same steps. Packets of
2 bytes let TCP deliver and accept parts of a packet, packets of 1 byte keep the runs
with two ends small. `INT_MAX` only has to be above every index. `StreamLen` bounds
the bytes a TCP host sends and `MaxConnections` the connections that late packets
open at the server; it is 1 where the properties speak of one connection, and 2 in `splice`.
`MaxDatagrams` bounds the datagrams that both ends of `transfer` send: four packets (two
`Data` and the `Hello` and `Bye` of an end) and two confirmations let a whole transfer
happen. TCP errors are checked without data only: with data and both
kinds of fault the runs take too long. `EventLoop` needs two events of one source, two of one priority,
a lower priority and an event without source. An `int` of 5 bits in groups of 2 has,
as 32 bits in groups of 7, a last group that is not full, integers of every
number of bytes, and indices up to the largest; packets of 3 bytes hold one pair and
refuse some, packets of 6 hold several. In `Server` the ids bound how many objects exist
at once; three UDP listeners are the forwarding one and two of clients. In `Socket` a
queue of 2 is read in one or two calls, and `MinSpace` below `MaxSpace` gives the space
that is free but does not count as writable. In `SpeedControl` three packets and their
resends make several measures, possibly one with the Hello only, so that answers of two
measures can overtake each other; 4 and 7 us lie on both sides of the border of `isIdle`, 20 us is
a pace at which the other connections send, and -20 us sets the clock back behind the
beginning of a measure; an interval of 60/3 us leaves all roundings visible. Elsewhere `net` needs no bound, as the datagrams an
end can send are determined by its stream. Deadlock is checked in all runs: a step is always possible
until the connections are gone (`Gone`, `Quiet`).

Fairness. `Endpoint` has one weak fairness condition for all its work (`Work`): as long
as an enabled event has a ready source, a hangup that has begun is still to be reported
or read, the TCP host accepts bytes or unconfirmed packets wait to expire, one of these
things happens in the end. In what order is left open, so that no handler is assumed to be
served before another; `doEvents` raises every such event (`DueIsRaised`), and time
passes. `endpoint_live` also assumes that datagrams do not arrive for ever, which would
restart the confirmations each time. In `Tunnel` (`Fairness`) each of these is fair by
itself, for each end, since the steps of one end must not make up for those of the
other. Nothing is assumed of the network in `Tunnel`. The preference of `doEvents` for
higher priorities can starve a handler in a loop that is never idle: both assume the
condition of `DueIsRaised`. In `EventLoop` the loop goes on and handlers return. In
`Socket` the loop polls and a ready source is read; nothing is assumed of the kernel or
of the host. In `SpeedControl` an unconfirmed packet expires. Nobody has to send, and
nobody has to hang up.

## 4. Proofs

`ConnectionProofs` and `EndpointProofs` prove, for all values of the constants that
satisfy the assumptions of `Connection` and `Endpoint` (packet size and
`MaxSentCount` at least 1, the other parameters natural numbers, `Datagrams` any set
of well-formed datagrams):

| Theorem | Statement |
|---|---|
| `TypeCorrect` | `Spec => []TypeOK` |
| `UnsentAreCounted` | `Spec => []UnsentCounted` |
| `LeftoversArePartial` | `Spec => []LeftoverIsPartial` |
| `ReceivedAreKept` | `Spec => []ReceivedKept` |
| `WakeupsAreKept` | `Spec => []NoLostWakeup` |
| `FinalIndexIsMaster` | `Spec => []FinalIsMaster` |
| `NothingAccepted` | `Spec => NothingAfterFinal` |

Since `Endpoint` restricts neither the peer nor the network, this covers each end of
every tunnel.

The inductive invariant is `LocalInv`: type, `UnsentCounted`, `ReceivedKept`,
`LeftoverIsPartial` and `NoLostWakeup` together. `NoLostWakeup` is not inductive
alone: that `udpWrite` may stop when `udpPacketsToSendCount` is 0 needs
`UnsentCounted`; that `tcpWrite` finds the next packet needs `ReceivedKept`; that
one packet takes all the waiting bytes needs `LeftoverIsPartial`. Inside a handler
the invariant does not hold, as `raise` has disabled an event that the handler
enables again if needed. The lemmas therefore speak of `WakeUpTo(c, X)`, the
invariant but for the events in `X`: `RaiseKeeps` starts with `X = {e}`, each
operator's lemma says which events it removes from `X`, and the handler ends with
`X = {}`. One lemma per operator (`TcpReadKeeps`, `UdpResendKeeps`,
`UdpReadConfirmationKeeps`, ...), stated on records; `EndpointProofs` combines them,
one case per action. `FinalIsMaster` is inductive beside `LocalInv`: only `udpRead` of
a packet moves the master index or sets the final one, and it moves the master index
over what is there without a gap, so the final packet is the last of that run. `NothingAfterFinal` is an action property and follows from the
same invariant.

`EventLoopProofs` proves, for any events, sources, priorities and `MaxDelay`:

| Theorem | Statement |
|---|---|
| `LoopTypes` | `Spec => []TypeOK` |
| `AssertionHolds` | `Spec => []RaisedAreReady` |
| `ListStaysExact` | `Spec => []ListIsExact` |
| `RaisedOnce` | `Spec => []OncePerRound` |
| `NeverSleepsWhileDue` | `Spec => []NoSleepWhileDue` |

The inductive invariant `Inv` adds three things to the types and `OncePerRound`. `Lists`:
the list of ready events is exact and contains the list of events to raise; from it
follows the assertion, and it is needed since `Collect` links for raising only what is
in the other list. `InRound`: handlers run in a round only; without it a handler could
enable an event while the loop sleeps. `WaitsForNext`: the loop sleeps at most until the
first of the times in the list; `NoSleepWhileDue` alone does not survive `Tick`. Every
method that changes a list has a lemma (`UpdateReadyKeeps`, `SetTimeKeeps`,
`SetReadyKeeps`).

`SocketProofs`, for any sizes of the kernel's queue and buffer:

| Theorem | Statement |
|---|---|
| `TypeCorrect` | `Spec => []TypeOK` |
| `ReadinessIsKept` | `Spec => []NoLostReadiness` |
| `ArrivedIsRead` | `Spec => []ReadBeforeClosed` |

The inductive invariant adds to these that a socket's kind does not change and only
streams connect and die (`KindInv`), that a socket closed for reading by the end of its
stream receives nothing more (`EndedInv`), and that a writer that was told to wait has
left a note with the kernel (`WaiterInv`). Without the last, space that becomes free
would not be reported.

`ServerProofs`, for any number of objects and addresses:

| Theorem | Statement |
|---|---|
| `ServerTypes` | `Spec => []TypeOK` |
| `PointersAreGood` | `Spec => []Registered` |
| `ListenersArePrivate` | `Spec => []PrivateListeners` |
| `ListenersComeBack` | `Spec => []ListenersStay` |

Here the properties are nearly inductive together: that a deleted listener of a client
leaves no connection behind needs `PrivateListeners`; that `onConnectionClosed` finds
the connection in the right map needs `Registered`; that a failed listener is replaced
needs the types, by which only errors close sockets (`SocketOK`). The invariant `IInv`
is stated on the maps (`Agree`, `Private`, `UdpOK`), since most steps build the new maps
in stages. The assumptions are that `Remote` is an address and that there is memory for
a first listener of each kind.

`TunnelProofs` begins with `ByteStream`, for its two ends and any `MaxChunk`:
`StreamIsPrefix` (what a host has got is a prefix of what the other sent) and
`EndIsComplete` (a host that sees the end has got all of it, unless its end was lost).

It then proves of both ends and the network between them, for streams of any length:

| Theorem | Statement |
|---|---|
| `TunnelTypeCorrect` | `Spec => []TypeOK`, for any `MaxConnections` |
| `ConfirmedAreReceived` | `Spec => []ConfirmedIsReceived`, if `MaxConnections <= 1` |
| `FinishedAreReceived` | `Spec => []FinishedIsReceived`, if `MaxConnections <= 1` |
| `DeliveredInOrder` | `Spec => []InOrderDelivery`, if `MaxConnections <= 1` and `ShortEnough` |
| `TunnelIsByteStream` | `Spec => ImplementsByteStream`, under the same hypotheses |
| `EndOfStreamIsTrue` | `Spec => []EndIsTrue`, under the same hypotheses |

`EndIsTrue` is what `Complete` of `ByteStream` says of the tunnel: a TCP socket that is
closed although its own end was not lost was given every byte that the other end has read
and will ever read. It follows from the refinement and from `EndIsComplete`.

A step of `Tunnel` changes one connection and may send datagrams; `ConnectionProofs` says what
each handler does to the fields that the other end depends on, in a few relations between
the connection before and after: `Stays` (nothing received, erased or written), `Closes`
(UDP is closed), `Finishes` (by `isUdpFinished`), `Hears` (a confirmation erases what it
confirms), `Stores` (a packet is received), `Skips`, `Writes` and `Ends` (`tcpWrite`). So
each of the 17 actions is a `Turn` of one `Kind` out of five, and the properties of the
tunnel need one case per kind. The inductive invariant `TunnelInv` has three parts:

- `EndsInv`: both ends are `Good` (`LocalInv`, `FinalIsMasterIn`, and `IsLogged`, by which
  the packets an end ever queued form a log without gaps that ends with its Bye or
  Disconnect) and every datagram is well formed. It holds for any `MaxConnections`.
- `Fresh`: before the first datagram the server has not received anything.
- `PromiseInv`: every confirmation in the network or in a queue of the receiver tells only
  of packets that the receiver has, and an end that has not given its peer up has erased
  only such packets. `ConfirmedIsReceived` alone is not inductive: a confirmation that is
  still under way decides what will be erased.

`StreamInv` is proved on top of it, and gives the order of delivery and the refinement:

- `Agrees`: for each end there is one log `P` of all the packets that its peer ever queued,
  and with it agree the datagrams on their way, the packets received (`Follows`), and what
  was written to TCP, which is `0, 1, 2, ...` up to the byte where the first packet that is
  left begins (`ReadTo`). The log is bound by an existential quantifier: the peer itself
  forgets confirmed packets, and no variable of the model keeps them.
- `SocketInv`: TCP is closed for writing only after a hangup or an error. So whenever
  `tcpClose` fires with packets unread, the end is lost and not finished.
- `QueueInv`: only confirmations wait in the queue of confirmations.
- `ShortStreams`: no more is read than the host sends.

For the refinement the relation `Shows` names what the hosts see of a `Turn`: bytes taken,
bytes written, the end of the stream, the end lost, or nothing. `TurnImplements` maps each
to `Take`, `Give`, `Finish`, `Lose` or a stutter. `Finish` needs the whole invariant: an end
that closes TCP for a Bye has written all that the peer read (`EndsAtEnd`), and the peer, as
it has queued a Bye, has closed TCP and reads no more.

The hypothesis on `MaxConnections` is needed: a second connection at the server forgets
what the first has confirmed, which is what the run `splice` shows. `ShortEnough` says that
a stream has at least three bytes fewer than `INT_MAX`, so that the indices of its packets,
with a Hello and a Bye, can be counted in an `int` (one byte a packet at worst). A packet
whose index is `INT_MAX` would read as "no final index known". The code has no check for it.

`SpeedControlProofs`, for all settings that satisfy `SettingsAssumption`, all sizes, all
times (set back or not) and any number of packets and connections:

| Theorem | Statement |
|---|---|
| `SpeedTypes` | `Spec => []TypeOK` |
| `SpeedAnsweredWereSent` | `Spec => []AnsweredWereSent` |
| `SpeedZeroOnlyIfFast` | `Spec => []ZeroOnlyIfFast` |
| `SpeedEvaluatedInOrder` | `Spec => []EvaluatedInOrder` |
| `SpeedEvaluatedIsAnswered` | `Spec => []EvaluatedIsAnswered` |
| `SpeedLossNeverAmplifies` | `Spec => []LossNeverAmplifies` |

The invariant is `Types /\ Accounts /\ Order /\ Evaluated /\ EvaluatedIsAnswered /\ Fast`.
`Accounts` keeps the books of each measure while UDP is connected: the bytes delivered and
the sizes of its packets that are not confirmed together do not exceed the bytes sent, nor
do the bytes lost and the sizes of its packets that are not answered; delivered, lost and
unanswered bytes are exactly those sent if no packet was counted twice. Such a sum over
packets is stated by its partial sums, whose existence is asserted (`Adds(w, t)`), so that a
step that changes one packet moves the later partial sums by a constant (`AddsChange`). So
when a measure is evaluated nothing of it is unanswered (`AccountIsAnswered`). The
arithmetic lemmas (`AmplifierIsBounded`, `AddedSpeed`, `IntervalAfterMeasure`) follow the
code's formula step by step; they bound the interval from above for the type, show that it
is 0 only after a fast measure, and that it is not below the unamplified one after losses.

`ConfirmationsProofs`, for every width of `int`, groups of any size, enough groups, any
received set, any capacity:

| Theorem | Statement |
|---|---|
| `PairsSurvive` | `unpackIntPair` gives back what `packIntPair` packed, whatever follows |
| `ConfirmationsTypes` | `Spec => []TypeOK` |
| `OnlyReceivedAreConfirmed` | `Spec => []ConfirmsOnlyReceived` |
| `AllIsConfirmed` | `Spec => []AllConfirmed` |
| `NothingIsMalformed` | `Spec => []NeverMalformed` |

The first part is the codec: `Recursion` derives the equations of `pow2` and `values` from
well-founded recursion; `BytesOfNatural` says that the bytes are enough for the number and
no more than needed; `PrefixValues` that after `i` bytes the value is the number shifted
right by the groups still to come, so that no intermediate value overflows; and
`UnpackOfPacked` that the pair ends where it was packed. The second part is the invariant
`Bounds /\ Sizing /\ Phases /\ Accounted`. `Says(bs, i, S, e)` means that the bytes `bs`,
read from index `i`, name exactly the set `S` and end at index `e`. It is defined without
recursion over `bs`, by a set of readings each of which is at its end or continues in the set,
and is extended at the end by a run (`SaysMore`) and consumed at the front by a pair
(`SaysNext`). `Accounted` asserts sets `W`, `D`, `L`: what each packet says, what the packet
being built says, and what the packet being read has still to say. What is received is in
them or in `rest` (`Told`), and a packet that was read has given its set to `confirmed`
except for `L` (`Heard`).

Only model-checked: the liveness properties `ClosedIsDeleted`, `GivenUpIsFlushed`,
`ReadIsWritten`, `DueIsRaised`, `HangupCloses` and `MeasureIsEvaluated`, which are out of
the prover's reach, and the two properties that are violated. Every invariant and every
safety property of a passing run is a theorem. The library's induction theorems cannot be used, as they
take an operator as a parameter; induction is done instead with a least counterexample in a
set of numbers (`LeastNumber`, `SetInduction`).

## 5. Not modelled, and what is left

Not modelled:

- the Windows sockets, the same interface over `select`; the Linux build is modelled;
- addresses, log and platform: parsing, output and the clock, no protocol state;
- the command line, which is read once before anything runs; its options are constants;
- the test programs, the test listeners and the statistics, which only count and print;
- damaged packets, which the CRC check turns into lost ones;
- the time of `eventUdpWrite`, by which the send interval spaces packets, and the feedback
  of the interval on `MaxSentCount`: packets may be sent at any moment;
- errors of `bind`, `listen` and `connect` beyond a socket that is closed from the start.

Left for later: several tunnels between one pair of processes, as a composition of
`Server` and `Tunnel`; the time of `eventUdpWrite` and the feedback of the send interval on
`MaxSentCount`, as a composition of `SpeedControl` and `Connection`.

## 6. Reproducing

    tlc -workers 2 -config MCTransfer.cfg MCTunnel     # likewise the other configurations
    tlc -workers 2 -config Socket.cfg Socket
    for m in Connection Endpoint Tunnel EventLoop Socket Server SpeedControl Confirmations
    do tlapm ${m}Proofs.tla; done
