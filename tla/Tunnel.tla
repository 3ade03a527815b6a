------------------------------- MODULE Tunnel -------------------------------
(***************************************************************************)
(* A tunnel: the connection that a TcpListener opened at the client and    *)
(* the one that the server's UdpListener opens when the first datagram of  *)
(* an unknown address arrives, joined by a network that loses, duplicates, *)
(* delays and reorders datagrams.  Each end keeps running after the other  *)
(* has been deleted, as in the program.                                    *)
(***************************************************************************)
EXTENDS Connection

CONSTANTS
  StreamLen,       \* StreamLen[s]: bound on the bytes the TCP host of s sends
  Closing,         \* the ends whose TCP host may close
  FaultyTcp,       \* the ends whose TCP socket may report an error
  FaultyUdp,       \* the ends whose UDP socket may report an error
  MaxConnections   \* bound on the connections the server opens for the client

Side == {"client", "server"}
Peer(s) == IF s = "client" THEN "server" ELSE "client"

ASSUME StreamLenAssumption == StreamLen \in [Side -> Nat]
ASSUME EndsAssumption ==
  Closing \subseteq Side /\ FaultyTcp \subseteq Side /\ FaultyUdp \subseteq Side
ASSUME MaxConnectionsAssumption == MaxConnections \in Nat

VARIABLES
  conn,      \* conn[s]: the connection at s
  phase,     \* phase[s]: "none" before it is created, "open", "deleted"
  hangup,    \* hangup[s]: s has noticed that its TCP host closed
  net,       \* net[s]: every datagram ever sent to s
  opened,    \* the number of connections the server has opened
  aborted    \* history: s gave its peer up, or its UDP socket failed

vars == <<conn, phase, hangup, net, opened, aborted>>

Init ==
  /\ conn = [s \in Side |-> newConnection]
  /\ phase = [s \in Side |-> IF s = "client" THEN "open" ELSE "none"]
  /\ hangup = [s \in Side |-> FALSE]
  /\ net = [s \in Side |-> {}]
  /\ opened = 0
  /\ aborted = [s \in Side |-> FALSE]

\* A step of the connection at s that sends the datagrams out.
Send(s, c, out) ==
  /\ phase[s] = "open"
  /\ conn' = [conn EXCEPT ![s] = c]
  /\ net' = [net EXCEPT ![Peer(s)] = @ \cup out]
  /\ UNCHANGED <<phase, hangup, opened, aborted>>

Becomes(s, c) == Send(s, c, {})

\* The same, where the end may give its peer up.
Aborts(s, c) ==
  /\ phase[s] = "open"
  /\ conn' = [conn EXCEPT ![s] = c]
  /\ aborted' = [aborted EXCEPT ![s] = @ \/ (conn[s].udpConnected /\ ~c.udpConnected)]
  /\ UNCHANGED <<phase, hangup, net, opened>>

\* The same, where the end notices that its TCP host has closed.
HangsUp(s, c) ==
  /\ s \in Closing
  /\ phase[s] = "open"
  /\ conn' = [conn EXCEPT ![s] = c]
  /\ hangup' = [hangup EXCEPT ![s] = TRUE]
  /\ UNCHANGED <<phase, net, opened, aborted>>

-----------------------------------------------------------------------------
(* Handlers of the connections.                                            *)

\* Every connection of the server has a TCP host of its own: the positions of
\* its stream follow those of the connection before.
firstByte(s) == IF s = "server" /\ opened > 0 THEN (opened - 1) * StreamLen[s] ELSE 0

TcpRead(s) ==
  /\ canTcpRead(conn[s])
  /\ \E n \in 0 .. udpSendPacketSize :
       /\ conn[s].tcpReceivedData.to + n <= firstByte(s) + StreamLen[s]
       /\ Becomes(s, tcpRead(raise(conn[s], "TcpRead"), n))

\* recv returns 0: Socket::read closes the socket for reading.
TcpReadEof(s) ==
  /\ canTcpRead(conn[s])
  /\ HangsUp(s, tcpRead(closeRead(raise(conn[s], "TcpRead")), 0))

TcpWrite(s) ==
  /\ canTcpWrite(conn[s])
  /\ \E n \in 0 .. udpSendPacketSize :
       Becomes(s, tcpWrite(raise(conn[s], "TcpWrite"), n))

TcpClose(s) == canTcpClose(conn[s]) /\ Becomes(s, handle(conn[s], "TcpClose"))

UdpWrite(s) ==
  /\ "UdpWrite" \in conn[s].ev
  /\ Send(s, handle(conn[s], "UdpWrite"), udpWritten(conn[s]))

\* eventUdpClose after an error of the UDP socket.
UdpClose(s) ==
  /\ s \in FaultyUdp
  /\ "UdpClose" \in conn[s].ev
  /\ Aborts(s, handle(conn[s], "UdpClose"))

Handle(s, e) == e \in conn[s].ev /\ Becomes(s, handle(conn[s], e))

BuildUdpPackets(s)    == Handle(s, "BuildUdpPackets")
BuildConfirmations(s) == Handle(s, "BuildConfirmations")
BuildByeBye(s)        == Handle(s, "BuildByeBye")
UdpCloseWait(s)       == Handle(s, "UdpCloseWait")

sentPackets(s) == DOMAIN conn[s].udpSentPackets \ unsent(conn[s])

UdpResend(s, expired) ==
  /\ "UdpResend" \in conn[s].ev
  /\ Aborts(s, udpResend(raise(conn[s], "UdpResend"), expired))

\* eventClose: Server::onConnectionClosed deletes the connection, and at the
\* client its UdpListener with it.
Close(s) ==
  /\ phase[s] = "open"
  /\ "Close" \in conn[s].ev
  /\ phase' = [phase EXCEPT ![s] = "deleted"]
  /\ UNCHANGED <<conn, hangup, net, opened, aborted>>

-----------------------------------------------------------------------------
(* UdpListener::handle: a datagram for an address with a connection goes to *)
(* it; one of the four data types for an unknown address opens a connection *)
(* at the server and goes to that.                                          *)

UdpRead(s, m) == Becomes(s, udpRead(conn[s], m))

opensConnection(m) == m.type \in DataTypes

Accept(m) ==
  /\ phase["server"] # "open"
  /\ opensConnection(m)
  /\ opened < MaxConnections
  /\ opened' = opened + 1
  /\ LET first == opened * StreamLen["server"]
         c == [newConnection EXCEPT !.tcpReceivedData = [from |-> first, to |-> first]]
     IN  conn' = [conn EXCEPT !["server"] = udpRead(c, m)]
  /\ phase' = [phase EXCEPT !["server"] = "open"]
  /\ hangup' = [hangup EXCEPT !["server"] = FALSE]
  /\ aborted' = [aborted EXCEPT !["server"] = FALSE]
  /\ UNCHANGED net

-----------------------------------------------------------------------------
(* The TCP hosts and Socket::Group::poll.                                   *)

\* EPOLLRDHUP or EPOLLHUP: the socket is closed for writing at once.
PollHangup(s) ==
  /\ ~socketClosed(conn[s])
  /\ \E readable \in BOOLEAN : HangsUp(s, polled(conn[s], FALSE, readable))

\* EPOLLERR: closed for writing with an error.
PollError(s) ==
  /\ s \in FaultyTcp
  /\ ~socketClosed(conn[s])
  /\ \E readable \in BOOLEAN : Becomes(s, polled(conn[s], TRUE, readable))

\* Nothing is left to do; a server without a connection may wait for ever.
Quiet ==
  /\ phase["client"] = "deleted"
  /\ phase["server"] # "open"
  /\ UNCHANGED vars

Deliver == \/ \E s \in Side : \E m \in net[s] : UdpRead(s, m)
           \/ \E m \in net["server"] : Accept(m)

Local(s) ==
  \/ TcpRead(s) \/ TcpReadEof(s) \/ TcpWrite(s) \/ TcpClose(s)
  \/ UdpWrite(s) \/ UdpClose(s)
  \/ BuildUdpPackets(s) \/ BuildConfirmations(s) \/ BuildByeBye(s)
  \/ \E expired \in SUBSET sentPackets(s) : UdpResend(s, expired)
  \/ UdpCloseWait(s) \/ Close(s)

Host(s) == PollHangup(s) \/ PollError(s)

Next == Deliver \/ (\E s \in Side : Local(s) \/ Host(s)) \/ Quiet

Spec == Init /\ [][Next]_vars

\* The event loop raises every enabled event whose source is ready, epoll
\* reports every hangup, the TCP host keeps accepting bytes, and a packet that
\* stays unconfirmed expires.  Nothing is assumed of the network or of when a
\* TCP host hangs up.
Fairness ==
  \A s \in Side :
    /\ WF_vars(hangup[s] /\ TcpReadEof(s))
    /\ WF_vars(canTcpWrite(conn[s])
               /\ Becomes(s, tcpWrite(raise(conn[s], "TcpWrite"), udpSendPacketSize)))
    /\ WF_vars(TcpClose(s))
    /\ WF_vars(UdpWrite(s))
    /\ WF_vars(BuildUdpPackets(s))
    /\ WF_vars(BuildConfirmations(s))
    /\ WF_vars(BuildByeBye(s))
    /\ WF_vars(UdpCloseWait(s))
    /\ WF_vars(UdpResend(s, sentPackets(s)))
    /\ WF_vars(Close(s))
    /\ WF_vars(hangup[s] /\ conn[s].socketWrite /\ PollHangup(s))

FairSpec == Spec /\ Fairness

-----------------------------------------------------------------------------
(* Properties.                                                             *)

\* Packet i of s has reached the connection of its peer.
Received(s, i) ==
  \/ i < conn[Peer(s)].udpReceivedMasterIndex
  \/ i \in DOMAIN conn[Peer(s)].udpReceivedPackets

\* Both ends keep the types of their fields and the index ranges of their
\* buffers, which udpRead checks, and only well-formed datagrams are sent.
TypeOK ==
  /\ \A s \in Side : ConnectionType(conn[s]) /\ net[s] \subseteq Datagram
  /\ DOMAIN conn = Side /\ DOMAIN net = Side
  /\ phase \in [Side -> {"none", "open", "deleted"}]
  /\ hangup \in [Side -> BOOLEAN]
  /\ aborted \in [Side -> BOOLEAN]
  /\ opened \in Nat

\* tcpWrite hands the bytes that the peer read to TCP, each once and in order,
\* whatever the network loses, repeats or reorders.
InOrderDelivery ==
  \A s \in Side :
    LET w == conn[s].tcpWritten
    IN  /\ Len(w) <= conn[Peer(s)].tcpReceivedData.to
        /\ \A k \in 1 .. Len(w) : w[k] = k - 1

\* A packet leaves udpSentPackets on a confirmation only when the peer has it:
\* late, repeated and reordered confirmations never confirm too much.
ConfirmedIsReceived ==
  \A s \in Side : conn[s].udpConnected =>
    \A i \in 0 .. (conn[s].udpNextSendIndex - 1) :
      i \notin DOMAIN conn[s].udpSentPackets => Received(s, i)

\* An end that closes UDP without giving up leaves nothing behind: the peer
\* received all its packets up to the Bye.
FinishedIsReceived ==
  \A s \in Side :
    phase[s] # "none" /\ ~conn[s].udpConnected /\ ~aborted[s] =>
      \A i \in 0 .. (conn[s].udpNextSendIndex - 1) : Received(s, i)

\* The tunnel is a pair of byte streams: whatever the network does, every step
\* of a connection takes bytes from a TCP host, gives the next bytes to one,
\* ends a stream behind its last byte (tcpWrite, which closes TCP for a Bye or
\* a Disconnect), loses an end, or is invisible to the hosts.
Stream == INSTANCE ByteStream WITH
  MaxChunk <- udpSendPacketSize,
  sent <- [s \in Side |-> conn[s].tcpReceivedData.to],
  got  <- [s \in Side |-> conn[s].tcpWritten],
  open <- [s \in Side |-> conn[s].tcpConnected],
  lost <- [s \in Side |-> aborted[s] \/ hangup[s] \/ conn[s].socketError]

ImplementsByteStream == Stream!Spec

\* A byte read from TCP is written to the TCP socket of the other end, unless
\* one of the ends gives up or the other end closes its TCP socket first.
ReadIsWritten ==
  \A s \in Side : \A k \in 1 .. StreamLen[s] :
    conn[s].tcpReceivedData.to >= k ~>
      \/ Len(conn[Peer(s)].tcpWritten) >= k
      \/ aborted[s] \/ aborted[Peer(s)]
      \/ hangup[Peer(s)]

-----------------------------------------------------------------------------
(* What the documentation says and the code does not do.                   *)

\* README, --udp-max-sent-buffer-size: "size of send buffer per connection".
\* TCP is not read while more than MaxSentCount packets are buffered, give or
\* take the packet being read and a Bye.
SendBufferIsBounded ==
  \A s \in Side : Cardinality(DOMAIN conn[s].udpSentPackets) <= MaxSentCount + 2

\* README: "IceTunnel allow to pass TCP-traffic via UDP".  What the client's TCP
\* host gets is a prefix of the stream of one TCP host at the server's side.
StreamIsWhole ==
  LET w == conn["client"].tcpWritten
  IN  \E n \in 0 .. MaxConnections :
        \A k \in DOMAIN w : w[k] = n * StreamLen["server"] + k - 1

=============================================================================
