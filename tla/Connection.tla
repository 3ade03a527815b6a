----------------------------- MODULE Connection -----------------------------
(***************************************************************************)
(* One end of an IceTunnel connection: class Connection of connection.cpp. *)
(* The module has no variables.  A connection is a record with the fields  *)
(* of the class, and every method is an operator from the record before    *)
(* the call to the record after it, named after the method.                *)
(*                                                                         *)
(* Payload is abstracted to positions in the byte stream that the local    *)
(* TCP socket produces: a chunk [from, to) stands for the bytes from, ..., *)
(* to-1.  Time is abstracted away: an enabled timer may fire at any moment,*)
(* so an event is either in the set ev (Event::isEnabled) or not.  Speed   *)
(* control (onUdpSent, onUdpDelivered) only moves the times of eventUdpWrite*)
(* and the value MaxSentCount, and is left out here.                       *)
(***************************************************************************)
EXTENDS Integers, Sequences, SequencesExt

CONSTANTS
  udpSendPacketSize,        \* payload bytes of a full packet
  udpResendCount,           \* resends of a packet before the peer is given up
  confirmationResendCount,  \* confirmations built after a received packet
  MaxSentCount,             \* maxCount of onUdpSentBufferChanged
  ReceiveWindow,            \* 2*udpMaxReceiveBufferSize/udpSendPacketSize
  INT_MAX                   \* "no final index known"; above every used index

ASSUME PacketSizeAssumption    == udpSendPacketSize \in Nat \ {0}
ASSUME ResendCountAssumption   == udpResendCount \in Nat
ASSUME ConfirmCountAssumption  == confirmationResendCount \in Nat
ASSUME MaxSentCountAssumption  == MaxSentCount \in Nat \ {0}
ASSUME ReceiveWindowAssumption == ReceiveWindow \in Nat
ASSUME IntMaxAssumption        == INT_MAX \in Nat \ {0}

-----------------------------------------------------------------------------
(* Packets (packet.h) and the events of a connection (connection.h).       *)

\* The packets that occupy an index of the stream.
DataTypes  == {"Hello", "Bye", "Data", "Disconnect"}
FinalTypes == {"Bye", "Disconnect"}
Types      == DataTypes \cup {"Confirmation", "ByeBye"}

Events == {"TcpRead", "TcpWrite", "TcpClose", "UdpWrite", "UdpClose",
           "BuildUdpPackets", "BuildConfirmations", "BuildByeBye",
           "UdpResend", "UdpCloseWait", "Close"}

\* A datagram on the wire.  A Confirmation carries its master index and the
\* set of selectively confirmed indices, which the code packs as ranges.
datagram(type, index, from, to, acks) ==
  [type |-> type, index |-> index, from |-> from, to |-> to, acks |-> acks]

Datagram ==
  {m \in [type : Types, index : Nat, from : Nat, to : Nat, acks : SUBSET Nat] :
     m.type = "Data" => m.from < m.to}

Chunk       == [from : Nat, to : Nat]
SentPacket  == [type : DataTypes, from : Nat, to : Nat,
                sent : BOOLEAN, remainResendCount : Nat]
ReceivedPacket == [type : DataTypes, from : Nat, to : Nat]

-----------------------------------------------------------------------------
(* Events and the TCP socket.                                              *)

enable(c, E)  == [c EXCEPT !.ev = @ \cup E]
disable(c, E) == [c EXCEPT !.ev = @ \ E]

\* Event::raise disables the event before it calls the handler.
raise(c, e) == disable(c, {e})

\* Socket::closeRead and closeWrite: when both directions are closed the
\* socket closes itself, which makes sourceClose ready.
closeRead(c)     == [c EXCEPT !.socketRead = FALSE]
closeWrite(c, e) == [c EXCEPT !.socketWrite = FALSE, !.socketError = @ \/ e]
socketClosed(c)  == ~c.socketRead /\ ~c.socketWrite

\* Socket::Group::poll on a hangup or an error: the socket is closed for
\* writing, and for reading as well unless there is something to read.
polled(c, error, readable) ==
  LET w == closeWrite(c, error)
  IN  IF readable THEN w ELSE closeRead(w)

-----------------------------------------------------------------------------
(* Flow control.                                                           *)

\* What udpSentPackets.end()->first - udpSentPackets.begin()->first yields:
\* end() of a libstdc++ map overlays the first int of its "pair" on the node
\* count of the map, so the difference is the size minus the least index.
sentCount(indices) ==
  IF indices = {} THEN 0 ELSE Cardinality(indices) - Min(indices)

\* indices is the domain of udpSentPackets at the moment of the call.
onUdpSentBufferChanged(c, indices) ==
  IF sentCount(indices) <= MaxSentCount
    THEN enable(c, {"TcpRead"})
    ELSE disable(c, {"TcpRead"})

unsent(c) == {i \in DOMAIN c.udpSentPackets : ~c.udpSentPackets[i].sent}

\* Encode a packet with the next index, queue it and wake eventUdpWrite: the
\* sequence shared by the constructor, buildUdpPackets and tcpClose.
addPacket(c, type, from, to) ==
  LET n == c.udpNextSendIndex
      p == [type |-> type, from |-> from, to |-> to,
            sent |-> FALSE, remainResendCount |-> udpResendCount]
      packets == [i \in DOMAIN c.udpSentPackets \cup {n} |->
                    IF i = n THEN p ELSE c.udpSentPackets[i]]
  IN  onUdpSentBufferChanged(
        [c EXCEPT !.udpSentPackets = packets,
                  !.udpNextSendIndex = n + 1,
                  !.udpPacketsToSendCount = @ + 1,
                  !.ev = @ \cup {"UdpWrite"}],
        DOMAIN packets)

\* The constructor: a fresh connection with its Hello queued.
emptyMap == [i \in {} |-> 0]

newConnection ==
  addPacket(
    [tcpConnected |-> TRUE,
     udpConnected |-> TRUE,
     tcpNextSendIndex |-> 0,
     udpNextSendIndex |-> 0,
     udpReceivedMasterIndex |-> 0,
     udpConfirmedMasterIndex |-> 0,
     udpReceivedFinalIndex |-> INT_MAX,
     udpPacketsToSendCount |-> 0,
     remainConfirmationResendCount |-> 0,
     remainByeByeResendCount |-> 0,
     tcpReceivedData |-> [from |-> 0, to |-> 0],
     udpSentPackets |-> emptyMap,
     udpConfirmationPackets |-> <<>>,
     udpReceivedPackets |-> emptyMap,
     socketRead |-> TRUE,
     socketWrite |-> TRUE,
     socketError |-> FALSE,
     tcpWritten |-> <<>>,      \* history: the bytes written to the TCP socket
     ev |-> {"TcpClose", "UdpClose"}],
    "Hello", 0, 0)

\* The last packet of the peer has been received in order.
finalReceived(c) == c.udpReceivedFinalIndex = c.udpReceivedMasterIndex

isNoMoreDataWillBeSent(c) ==
  /\ ~c.tcpConnected \/ finalReceived(c)
  /\ c.tcpReceivedData.from = c.tcpReceivedData.to
  /\ DOMAIN c.udpSentPackets = {}

isUdpFinished(c) ==
  \/ ~c.udpConnected
  \/ /\ isNoMoreDataWillBeSent(c)
     /\ c.udpConfirmationPackets = <<>>
     /\ c.udpConfirmedMasterIndex >= c.udpReceivedMasterIndex
     /\ c.tcpNextSendIndex >= c.udpReceivedMasterIndex
     /\ c.remainConfirmationResendCount <= 0
     /\ c.remainByeByeResendCount <= 0
     /\ "UdpCloseWait" \notin c.ev

-----------------------------------------------------------------------------
(* From TCP to UDP.                                                        *)

\* How many of size waiting bytes make the next packet.
packetBytesLate(size, flush) ==   \* mutant: a full packet is left waiting
  IF size > udpSendPacketSize THEN udpSendPacketSize
  ELSE IF flush THEN size ELSE 0

packetBytes(size, flush) ==
  IF size >= udpSendPacketSize THEN udpSendPacketSize
  ELSE IF flush THEN size ELSE 0

\* Cut the bytes read from TCP into packets.  Fewer than udpSendPacketSize
\* bytes wait between calls (invariant LeftoverIsPartial), so the loop builds
\* at most one packet: a full one, or on flush whatever is there.
buildUdpPackets(c, flush) ==
  LET d    == c.tcpReceivedData
      from == IF finalReceived(c) THEN d.to ELSE d.from
      n    == packetBytes(d.to - from, flush)
      rest == [from |-> from + n, to |-> d.to]
      cut  == [c EXCEPT !.tcpReceivedData = rest]
      built == IF n > 0 THEN addPacket(cut, "Data", from, from + n) ELSE cut
  IN  IF ~c.udpConnected THEN c
      ELSE IF rest.from = rest.to
        THEN disable(built, {"BuildUdpPackets"})
        ELSE enable(built, {"BuildUdpPackets"})

\* size is the result of Socket::read: 0 when nothing was read.
tcpRead(c, size) ==
  LET d    == c.tcpReceivedData
      more == [c EXCEPT !.tcpReceivedData = [from |-> d.from, to |-> d.to + size]]
      read == IF size > 0 /\ c.udpConnected THEN buildUdpPackets(more, FALSE) ELSE c
  IN  IF ~c.tcpConnected THEN c
      ELSE onUdpSentBufferChanged(read, DOMAIN read.udpSentPackets)

-----------------------------------------------------------------------------
(* Closing.                                                                *)

\* tcpWrite(true): with TCP closed, pass over everything received in order.
\* Every index below the master index is stored (invariant ReceivedKept), so
\* the loop ends at the master index.
tcpWriteFake(c) ==
  IF c.tcpConnected THEN c
  ELSE [c EXCEPT !.tcpNextSendIndex = c.udpReceivedMasterIndex]

tcpClose(c, error) ==
  LET closed  == [c EXCEPT !.tcpConnected = FALSE,
                           !.socketRead = FALSE,
                           !.socketWrite = FALSE,
                           !.ev = @ \ {"TcpRead", "TcpWrite"}]
      flushed == buildUdpPackets(tcpWriteFake(closed), TRUE)
  IN  IF ~c.tcpConnected THEN c
      ELSE IF ~c.udpConnected THEN enable(closed, {"Close"})
      ELSE addPacket(flushed, IF error THEN "Disconnect" ELSE "Bye",
                     c.tcpReceivedData.to, c.tcpReceivedData.to)

\* The events disabled here; eventTcpRead is among them, but the trailing
\* onUdpSentBufferChanged enables it again.  eventBuildByeBye and
\* eventUdpCloseWait stay as they are.
udpClose(c) ==
  LET d == c.tcpReceivedData
      cleared == [c EXCEPT !.udpConnected = FALSE,
                           !.socketRead = FALSE,
                           !.tcpReceivedData = [from |-> d.to, to |-> d.to],
                           !.udpConfirmationPackets = <<>>,
                           !.udpSentPackets = emptyMap,
                           !.ev = @ \ {"BuildUdpPackets", "BuildConfirmations",
                                       "UdpResend", "UdpWrite"}]
      closed == onUdpSentBufferChanged(cleared, {})
  IN  IF ~c.udpConnected THEN c
      ELSE IF ~c.tcpConnected THEN enable(closed, {"Close"})
      ELSE IF c.tcpNextSendIndex >= c.udpReceivedMasterIndex
        THEN tcpClose(closed, FALSE)
        ELSE closed

\* The check that ends udpRead and the handler of eventUdpCloseWait.
finishNever(c) == c               \* mutant: the check is forgotten

finish(c) == IF isUdpFinished(c) THEN udpClose(c) ELSE c

-----------------------------------------------------------------------------
(* From UDP to TCP.                                                        *)

\* The index to write next after size bytes of packet p with index k.
nextToWriteAlways(p, k, size) == k + 1   \* mutant: a short write skips the rest

nextToWritePast(p, k, size) ==           \* mutant: a packet is never complete
  IF p.from + size > p.to THEN k + 1 ELSE k

nextToWrite(p, k, size) == IF p.from + size = p.to THEN k + 1 ELSE k

\* One call of tcpWrite(false); Socket::write accepts at most n bytes.  Only
\* packet 0 can be a Hello, so at most one packet is passed over silently; the
\* loop leaves after the first write and after a final packet.
tcpWrite(c, n) ==
  LET received == c.udpReceivedPackets
      master == c.udpReceivedMasterIndex
      k == IF /\ c.tcpNextSendIndex < master
              /\ received[c.tcpNextSendIndex].type = "Hello"
             THEN c.tcpNextSendIndex + 1
             ELSE c.tcpNextSendIndex
      p == received[k]
      size == IF n < p.to - p.from THEN n ELSE p.to - p.from
      next == nextToWrite(p, k, size)
      wrote == [c EXCEPT
        !.tcpNextSendIndex = next,
        !.udpReceivedPackets = [received EXCEPT ![k] =
            [type |-> p.type, from |-> p.from + size, to |-> p.to]],
        !.tcpWritten = @ \o [j \in 1..size |-> p.from + j - 1]]
  IN  IF ~c.tcpConnected THEN c
      ELSE IF k >= master THEN [c EXCEPT !.tcpNextSendIndex = k]
      ELSE IF p.type \in FinalTypes
        THEN tcpClose([c EXCEPT !.tcpNextSendIndex = k + 1], FALSE)
      ELSE IF next < master THEN enable(wrote, {"TcpWrite"}) ELSE wrote

\* The datagrams that one call of udpWrite puts on the wire: the first queued
\* confirmation, or else the first packet that is not sent.
udpWritten(c) ==
  LET i == Min(unsent(c))
      p == c.udpSentPackets[i]
  IN  IF ~c.udpConnected THEN {}
      ELSE IF c.udpConfirmationPackets # <<>> THEN {Head(c.udpConfirmationPackets)}
      ELSE IF unsent(c) = {} THEN {}
      ELSE {datagram(p.type, i, p.from, p.to, {})}

\* udpWrite wakes itself again while something is queued.
moreToWriteQueued(c) ==           \* mutant: waiting packets are forgotten
  c.udpConfirmationPackets # <<>>

moreToWrite(c) ==
  c.udpConfirmationPackets # <<>> \/ c.udpPacketsToSendCount > 0

udpWriteConfirmation(c) ==
  LET popped == onUdpSentBufferChanged(
                  [c EXCEPT !.udpConfirmationPackets = Tail(@)],
                  DOMAIN c.udpSentPackets)
  IN  IF isUdpFinished(popped) THEN udpClose(popped)
      ELSE IF moreToWrite(popped) THEN enable(popped, {"UdpWrite"})
      ELSE popped

\* A stored packet is never confirmed (a confirmation erases it), so the
\* branch "packet was confirmed before sent" is not taken.
udpWritePacket(c) ==
  LET i == Min(unsent(c))
      wrote == [c EXCEPT
        !.udpSentPackets[i].sent = TRUE,
        !.udpPacketsToSendCount = @ - 1,
        !.ev = @ \cup {"UdpResend"}]
  IN  IF unsent(c) = {} THEN c
      ELSE IF moreToWrite(wrote) THEN enable(wrote, {"UdpWrite"})
      ELSE wrote

\* A writeto that fails leaves everything as it is and wakes eventUdpWrite
\* again, which is no step at all.
udpWrite(c) ==
  IF ~c.udpConnected THEN c
  ELSE IF c.udpConfirmationPackets # <<>> THEN udpWriteConfirmation(c)
  ELSE udpWritePacket(c)

\* expired: the sent packets whose udpResendUs have passed.  They are taken in
\* index order; the first one without resends left closes the UDP side, the
\* ones that are not due yet keep eventUdpResend enabled.
exhausted(c, expired) ==
  {i \in expired : c.udpSentPackets[i].remainResendCount = 0}

udpResend(c, expired) ==
  LET dead  == exhausted(c, expired)
      again == {i \in expired : \A j \in dead : i < j}
      waiting == {i \in DOMAIN c.udpSentPackets \ expired : c.udpSentPackets[i].sent}
      p(i)  == c.udpSentPackets[i]
      resent == [c EXCEPT
        !.udpSentPackets = [i \in DOMAIN c.udpSentPackets |->
            IF i \in again
              THEN [p(i) EXCEPT !.sent = FALSE, !.remainResendCount = @ - 1]
              ELSE p(i)],
        !.udpPacketsToSendCount = @ + Cardinality(again),
        !.ev = @ \cup (IF again # {} THEN {"UdpWrite"} ELSE {})
                 \cup (IF waiting # {} THEN {"UdpResend"} ELSE {})]
  IN  IF ~c.udpConnected THEN c
      ELSE IF dead # {} THEN udpClose(resent)
      ELSE resent

-----------------------------------------------------------------------------
(* Confirmations.                                                          *)

isConfirmation(m) == m.type = "Confirmation"

\* Erase the queued confirmations; at most one is ever queued.
dropConfirmations(c) ==
  IF \E k \in 1..Len(c.udpConfirmationPackets) : isConfirmation(c.udpConfirmationPackets[k])
    THEN onUdpSentBufferChanged(
           [c EXCEPT !.udpConfirmationPackets = RemoveFirstMatch(@, isConfirmation)],
           DOMAIN c.udpSentPackets)
    ELSE c

queueConfirmation(c, m) ==
  onUdpSentBufferChanged(
    [c EXCEPT !.udpConfirmationPackets = Append(@, m), !.ev = @ \cup {"UdpWrite"}],
    DOMAIN c.udpSentPackets)

\* What may be forgotten once confirmed: packets already written to TCP.
receivedToKeepUnconfirmed(c) ==   \* mutant: what TCP has not got is erased
  {i \in DOMAIN c.udpReceivedPackets : i >= c.udpReceivedMasterIndex}

receivedToKeep(c) ==
  {i \in DOMAIN c.udpReceivedPackets : i >= c.tcpNextSendIndex}

buildConfirmations(c) ==
  LET master == c.udpReceivedMasterIndex
      acks   == {i \in DOMAIN c.udpReceivedPackets : i >= master}
      queued == queueConfirmation(dropConfirmations(c),
                                  datagram("Confirmation", master, 0, 0, acks))
      remain == c.remainConfirmationResendCount - 1
      built  == [queued EXCEPT
        !.udpConfirmedMasterIndex = master,
        !.udpReceivedPackets = Restrict(@, receivedToKeep(c)),
        !.remainConfirmationResendCount = remain]
  IN  IF ~c.udpConnected THEN c
      ELSE IF remain > 0 THEN enable(built, {"BuildConfirmations"})
      ELSE built

buildByeBye(c) ==
  LET queued == queueConfirmation(c, datagram("ByeBye", c.udpNextSendIndex, 0, 0, {}))
      remain == c.remainByeByeResendCount - 1
      built  == [queued EXCEPT !.remainByeByeResendCount = remain]
  IN  IF ~c.udpConnected THEN c
      ELSE IF remain > 0 THEN enable(built, {"BuildByeBye"})
      ELSE built

-----------------------------------------------------------------------------
(* udpRead: one branch per kind of packet.                                 *)

\* The packets that a Confirmation erases, and the unsent ones among some.
confirmedByInclusive(c, m) ==     \* mutant: the master index itself as well
  {i \in DOMAIN c.udpSentPackets : i <= m.index \/ i \in m.acks}

confirmedBy(c, m) ==
  {i \in DOMAIN c.udpSentPackets : i < m.index \/ i \in m.acks}

unsentAmongNone(c, indices) == {} \* mutant: the count is not corrected

unsentAmong(c, indices) == indices \cap unsent(c)

\* onUdpSentBufferChanged runs before each erase, so its last call still sees
\* the packet erased last.
udpReadConfirmation(c, m) ==
  LET gone == confirmedBy(c, m)
      left == DOMAIN c.udpSentPackets \ gone
      erased == [c EXCEPT
        !.udpSentPackets = Restrict(@, left),
        !.udpPacketsToSendCount = @ - Cardinality(unsentAmong(c, gone))]
      counted == IF gone = {} THEN erased
                 ELSE onUdpSentBufferChanged(erased, left \cup {Max(gone)})
      quiet == IF counted.udpPacketsToSendCount >= Cardinality(left)
                 THEN disable(counted, {"UdpResend"}) ELSE counted
  IN  IF isNoMoreDataWillBeSent(quiet) /\ ~isNoMoreDataWillBeSent(c)
        THEN [quiet EXCEPT !.remainByeByeResendCount = confirmationResendCount,
                           !.ev = @ \cup {"BuildByeBye"}]
        ELSE quiet

\* Which packets udpRead stores: not below the master index, not past the
\* final one, and within the window.
acceptableAnyIndex(c, m) ==       \* mutant: no window
  /\ m.index >= c.udpReceivedMasterIndex
  /\ m.index < c.udpReceivedFinalIndex
  /\ m.type \in DataTypes
  /\ m.type = "Hello" => m.index = 0

acceptableAfterFinal(c, m) ==     \* mutant: no final index
  /\ m.index >= c.udpReceivedMasterIndex
  /\ m.index - c.tcpNextSendIndex <= ReceiveWindow
  /\ m.type \in DataTypes
  /\ m.type = "Hello" => m.index = 0

acceptable(c, m) ==
  /\ m.index >= c.udpReceivedMasterIndex
  /\ m.index < c.udpReceivedFinalIndex
  /\ m.index - c.tcpNextSendIndex <= ReceiveWindow
  /\ m.type \in DataTypes
  /\ m.type = "Hello" => m.index = 0

\* The master index advances over every packet present, and stops after a
\* final one.  No stored index is above tcpNextSendIndex + ReceiveWindow.
nextMaster(c, received) ==
  LET master == c.udpReceivedMasterIndex
  IN  Min({k \in master .. (c.tcpNextSendIndex + ReceiveWindow + 1) :
             \/ k \notin DOMAIN received
             \/ /\ k > master /\ k - 1 \in DOMAIN received
                /\ received[k - 1].type \in FinalTypes})

\* A new packet; the final index can only be unknown here, because a known
\* one equals the master index (invariant FinalIsMaster).
storePacket(c, m) ==
  LET n == m.index
      received == [i \in DOMAIN c.udpReceivedPackets \cup {n} |->
                     IF i = n THEN [type |-> m.type, from |-> m.from, to |-> m.to]
                     ELSE c.udpReceivedPackets[i]]
      master == nextMaster(c, received)
      final  == IF /\ master > c.udpReceivedMasterIndex
                   /\ received[master - 1].type \in FinalTypes
                  THEN master ELSE c.udpReceivedFinalIndex
      stored == tcpWriteFake([c EXCEPT !.udpReceivedPackets = received,
                                       !.udpReceivedMasterIndex = master,
                                       !.udpReceivedFinalIndex = final])
  IN  enable(stored,
             (IF stored.tcpNextSendIndex < master THEN {"TcpWrite"} ELSE {})
             \cup (IF master >= final THEN {"UdpCloseWait"} ELSE {}))

udpReadData(c, m) ==
  LET stored == IF m.index \in DOMAIN c.udpReceivedPackets THEN c ELSE storePacket(c, m)
  IN  [stored EXCEPT !.remainConfirmationResendCount = confirmationResendCount,
                     !.ev = @ \cup {"BuildConfirmations"}]

\* eventUdpCloseWait is brought forward when enabled, so it stays as it is.
udpReadByeBye(c, m) ==
  dropConfirmations([c EXCEPT !.remainConfirmationResendCount = 0,
                              !.ev = @ \ {"BuildConfirmations"}])

udpRead(c, m) ==
  IF ~c.udpConnected THEN c
  ELSE finish(
    IF m.type = "Confirmation" THEN udpReadConfirmation(c, m)
    ELSE IF acceptable(c, m) THEN udpReadData(c, m)
    ELSE IF m.type = "ByeBye" /\ m.index = c.udpReceivedMasterIndex /\ finalReceived(c)
      THEN udpReadByeBye(c, m)
    ELSE c)

-----------------------------------------------------------------------------
(* When the event loop may raise the events that depend on a socket: the    *)
(* event is enabled and its source is ready.                                *)

canTcpRead(c)  == "TcpRead" \in c.ev /\ c.socketRead
canTcpWrite(c) == "TcpWrite" \in c.ev /\ c.socketWrite
canTcpClose(c) == "TcpClose" \in c.ev /\ socketClosed(c)

\* The events that need nothing of the TCP socket and read no input.
LocalEvents ==
  {"UdpWrite", "UdpClose", "BuildUdpPackets", "BuildConfirmations",
   "BuildByeBye", "UdpCloseWait"}

\* Connection::handle of the events that read no input.  eventClose is left
\* to the owner, which deletes the connection.
handle(c, e) ==
  LET r == raise(c, e)
  IN  CASE e = "TcpClose"           -> tcpClose(r, c.socketError)
        [] e = "UdpWrite"           -> udpWrite(r)
        [] e = "UdpClose"           -> udpClose(r)
        [] e = "BuildUdpPackets"    -> buildUdpPackets(r, TRUE)
        [] e = "BuildConfirmations" -> buildConfirmations(r)
        [] e = "BuildByeBye"        -> buildByeBye(r)
        [] e = "UdpCloseWait"       -> finish(r)

-----------------------------------------------------------------------------
(* What holds of every connection, whatever its peer and its TCP host do.   *)

\* The type of a connection.
ConnectionType(c) ==
  /\ c \in [tcpConnected : BOOLEAN, udpConnected : BOOLEAN,
            tcpNextSendIndex : Nat, udpNextSendIndex : Nat,
            udpReceivedMasterIndex : Nat, udpConfirmedMasterIndex : Nat,
            udpReceivedFinalIndex : Nat, udpPacketsToSendCount : Int,
            remainConfirmationResendCount : Int, remainByeByeResendCount : Int,
            tcpReceivedData : Chunk,
            udpSentPackets : [DOMAIN c.udpSentPackets -> SentPacket],
            udpConfirmationPackets : Seq(Datagram),
            udpReceivedPackets : [DOMAIN c.udpReceivedPackets -> ReceivedPacket],
            socketRead : BOOLEAN, socketWrite : BOOLEAN, socketError : BOOLEAN,
            tcpWritten : Seq(Nat), ev : SUBSET Events]
  /\ DOMAIN c.udpSentPackets \subseteq 0 .. (c.udpNextSendIndex - 1)
  /\ DOMAIN c.udpReceivedPackets \subseteq 0 .. (c.tcpNextSendIndex + ReceiveWindow)

\* udpPacketsToSendCount is the number of packets that wait for udpWrite.
UnsentCountedIn(c) ==
  c.udpConnected => c.udpPacketsToSendCount = Cardinality(unsent(c))

\* Less than one packet waits in tcpReceivedData between two handlers.
LeftoverIsPartialIn(c) ==
  /\ c.tcpReceivedData.from <= c.tcpReceivedData.to
  /\ c.tcpReceivedData.to - c.tcpReceivedData.from < udpSendPacketSize

\* What TCP still has to get is stored, and nothing beyond it was passed over.
ReceivedKeptIn(c) ==
  /\ c.tcpNextSendIndex <= c.udpReceivedMasterIndex
  /\ c.tcpNextSendIndex .. (c.udpReceivedMasterIndex - 1)
       \subseteq DOMAIN c.udpReceivedPackets

\* The final index, once known, is the master index.
FinalIsMasterIn(c) ==
  c.udpReceivedFinalIndex \in {INT_MAX, c.udpReceivedMasterIndex}

\* Work that waits always has an enabled event that will do it.
NoLostWakeupIn(c) ==
  /\ c.udpConnected =>
       /\ DOMAIN c.udpSentPackets # unsent(c) => "UdpResend" \in c.ev
       /\ unsent(c) # {} => "UdpWrite" \in c.ev
       /\ c.udpConfirmationPackets # <<>> => "UdpWrite" \in c.ev
       /\ c.tcpReceivedData.from # c.tcpReceivedData.to => "BuildUdpPackets" \in c.ev
       /\ c.remainConfirmationResendCount > 0 => "BuildConfirmations" \in c.ev
       /\ c.remainByeByeResendCount > 0 => "BuildByeBye" \in c.ev
       /\ c.tcpConnected /\ DOMAIN c.udpSentPackets = {} => "TcpRead" \in c.ev
  /\ c.tcpConnected /\ c.tcpNextSendIndex < c.udpReceivedMasterIndex
       => "TcpWrite" \in c.ev
  /\ ~c.tcpConnected /\ ~c.udpConnected => "Close" \in c.ev

=============================================================================
