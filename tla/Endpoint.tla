------------------------------ MODULE Endpoint ------------------------------
(***************************************************************************)
(* A single connection in an environment that may do anything: the local   *)
(* TCP host sends, accepts and hangs up at will, the UDP socket may fail,  *)
(* and any well-formed datagram may arrive at any time, whether or not an  *)
(* honest peer could have sent it.  What holds here holds of each end of a *)
(* tunnel, over every network.                                             *)
(***************************************************************************)
EXTENDS Connection

CONSTANTS
  StreamLen,   \* bound on the bytes read from the TCP socket
  Datagrams    \* the datagrams that may arrive

ASSUME StreamLenAssumption == StreamLen \in Nat
ASSUME DatagramsAssumption == Datagrams \subseteq Datagram

VARIABLES
  conn,      \* the connection
  alive,     \* FALSE once Server::onConnectionClosed has deleted it
  hangup     \* it has noticed that its TCP host closed

vars == <<conn, alive, hangup>>

Init ==
  /\ conn = newConnection
  /\ alive = TRUE
  /\ hangup = FALSE

Becomes(c) == alive /\ conn' = c /\ UNCHANGED <<alive, hangup>>

\* The same, where the connection notices that its TCP host has closed.
HangsUp(c) == alive /\ conn' = c /\ hangup' = TRUE /\ UNCHANGED alive

-----------------------------------------------------------------------------
(* Handlers of the connection.                                             *)

TcpRead ==
  /\ canTcpRead(conn)
  /\ \E n \in 0 .. udpSendPacketSize :
       /\ conn.tcpReceivedData.to + n <= StreamLen
       /\ Becomes(tcpRead(raise(conn, "TcpRead"), n))

\* recv returns 0: Socket::read closes the socket for reading.
TcpReadEof ==
  /\ canTcpRead(conn)
  /\ HangsUp(tcpRead(closeRead(raise(conn, "TcpRead")), 0))

TcpWrite ==
  /\ canTcpWrite(conn)
  /\ \E n \in 0 .. udpSendPacketSize :
       Becomes(tcpWrite(raise(conn, "TcpWrite"), n))

TcpClose == canTcpClose(conn) /\ Becomes(handle(conn, "TcpClose"))

\* The events without a source, eventUdpWrite (the UDP socket is writable) and
\* eventUdpClose (the UDP socket was closed after an error).
Handle(e) == e \in conn.ev /\ Becomes(handle(conn, e))

sentPackets == DOMAIN conn.udpSentPackets \ unsent(conn)

UdpResend(expired) ==
  /\ "UdpResend" \in conn.ev
  /\ Becomes(udpResend(raise(conn, "UdpResend"), expired))

UdpRead == \E m \in Datagrams : Becomes(udpRead(conn, m))

\* eventClose: Server::onConnectionClosed deletes the connection.
Close ==
  /\ alive
  /\ "Close" \in conn.ev
  /\ alive' = FALSE
  /\ UNCHANGED <<conn, hangup>>

-----------------------------------------------------------------------------
(* The TCP host and Socket::Group::poll.                                   *)

\* EPOLLRDHUP or EPOLLHUP: the socket is closed for writing at once.
PollHangup ==
  /\ ~socketClosed(conn)
  /\ \E readable \in BOOLEAN : HangsUp(polled(conn, FALSE, readable))

\* EPOLLERR: closed for writing with an error.
PollError ==
  /\ ~socketClosed(conn)
  /\ \E readable \in BOOLEAN : Becomes(polled(conn, TRUE, readable))

\* The connection is gone.
Gone == ~alive /\ UNCHANGED vars

Next ==
  \/ TcpRead \/ TcpReadEof \/ TcpWrite \/ TcpClose
  \/ \E e \in LocalEvents : Handle(e)
  \/ \E expired \in SUBSET sentPackets : UdpResend(expired)
  \/ UdpRead \/ Close
  \/ PollHangup \/ PollError
  \/ Gone

Spec == Init /\ [][Next]_vars

\* What the program does by itself: an enabled event whose source is ready, a
\* hangup that is reported and read to its end, a TCP host that accepts bytes,
\* packets that stay unconfirmed and expire.
Work ==
  \/ hangup /\ TcpReadEof
  \/ hangup /\ conn.socketWrite /\ PollHangup
  \/ /\ canTcpWrite(conn)
     /\ Becomes(tcpWrite(raise(conn, "TcpWrite"), udpSendPacketSize))
  \/ TcpClose
  \/ \E e \in LocalEvents \ {"UdpClose"} : Handle(e)
  \/ UdpResend(sentPackets)
  \/ Close

\* The loop goes on while there is work, in whatever order.  Nothing is assumed
\* of the datagrams, but that they do not come for ever.
Fairness == WF_vars(Work)

FiniteDelivery == <>[][~UdpRead]_vars

LiveSpec == Spec /\ Fairness /\ FiniteDelivery

-----------------------------------------------------------------------------
(* Properties.                                                             *)

\* Whatever the peer sends, the fields keep their types, no index is sent that
\* was not handed out, and udpRead stores nothing beyond the receive window.
TypeOK == ConnectionType(conn) /\ alive \in BOOLEAN /\ hangup \in BOOLEAN

\* udpPacketsToSendCount, kept by hand in addPacket's callers, udpWrite,
\* udpResend and udpRead (a confirmation may erase a packet that waits for its
\* resend), is the number of packets that wait for udpWrite.
UnsentCounted == UnsentCountedIn(conn)

\* buildUdpPackets leaves less than one packet of TCP data behind, however
\* reads, flushes and closes follow each other.
LeftoverIsPartial == LeftoverIsPartialIn(conn)

\* buildConfirmations erases, and tcpWrite passes over, only packets that TCP
\* has got: everything from tcpNextSendIndex to the master index is stored.
ReceivedKept == ReceivedKeptIn(conn)

\* udpRead learns the final index only when the master index reaches it, so
\* that udpReceivedFinalIndex is unknown or equal to the master index: a Bye
\* that came early does not count before the gap below it is filled.
FinalIsMaster == FinalIsMasterIn(conn)

\* Between two handlers of the event loop, work that waits (packets to send, to
\* resend, to confirm, to build, to write to TCP, a connection to delete) has
\* its event enabled: no handler returns without waking the next one.
NoLostWakeup == NoLostWakeupIn(conn)

\* After the last packet of the peer nothing of it is accepted any more: the
\* stream that TCP gets does not grow past a Bye or a Disconnect.
NothingAfterFinal ==
  [][finalReceived(conn) =>
       /\ conn'.udpReceivedMasterIndex = conn.udpReceivedMasterIndex
       /\ DOMAIN conn'.udpReceivedPackets \subseteq DOMAIN conn.udpReceivedPackets]_vars

\* A ByeBye that comes before the last confirmation was built cancels it, and
\* the connection never counts the peer's last packets as confirmed.
CutOff ==
  /\ conn.udpConfirmedMasterIndex < conn.udpReceivedMasterIndex
  /\ "BuildConfirmations" \notin conn.ev

\* Once TCP is closed the connection is deleted in the end, whatever the peer
\* answers and whatever is lost, unless it was cut off.
ClosedIsDeleted == ~conn.tcpConnected ~> (~alive \/ CutOff)

\* A connection that gives its peer up, or whose UDP socket fails, disconnects
\* its TCP host or, when packets waited for TCP at that moment (udpClose leaves
\* TCP open then, and nothing closes it later), at least hands them all over.
GivenUpIsFlushed ==
  ~conn.udpConnected ~>
    \/ ~conn.tcpConnected
    \/ conn.tcpNextSendIndex = conn.udpReceivedMasterIndex

=============================================================================
