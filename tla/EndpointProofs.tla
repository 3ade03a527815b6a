--------------------------- MODULE EndpointProofs ---------------------------
(***************************************************************************)
(* Theorems about Endpoint: the local invariant of a connection holds for  *)
(* every value of the constants, every behaviour of the TCP host and every *)
(* sequence of datagrams.                                                  *)
(***************************************************************************)
EXTENDS Endpoint, ConnectionProofs

\* The inductive invariant.  NoLostWakeup is not inductive alone: that an
\* emptied queue of unsent packets needs no event rests on UnsentCounted, that
\* a handler can find what TCP has not got on ReceivedKept, and that one packet
\* empties tcpReceivedData on LeftoverIsPartial.
EndpointInv == LocalInv(conn) /\ alive \in BOOLEAN /\ hangup \in BOOLEAN

-----------------------------------------------------------------------------
(* The inductive step and the theorems.                                    *)

\* A new connection is good.
LEMMA InitInv == Init => EndpointInv
BY NewConnectionIsGood DEF Init, EndpointInv

\* Every step keeps the invariant, one case per action.
LEMMA NextInv == EndpointInv /\ [Next]_vars => EndpointInv'
<1>. SUFFICES ASSUME EndpointInv, [Next]_vars PROVE EndpointInv'
  OBVIOUS
<1>0. LocalInv(conn) /\ alive \in BOOLEAN /\ hangup \in BOOLEAN
  BY DEF EndpointInv
<1>1. CASE TcpRead
  <2>1. PICK n \in 0 .. udpSendPacketSize : Becomes(tcpRead(raise(conn, "TcpRead"), n))
    BY <1>1 DEF TcpRead
  <2>. QED
    BY <1>0, <2>1, RaisedTcpRead DEF Becomes, EndpointInv
<1>2. CASE TcpReadEof
  BY <1>0, <1>2, RaisedTcpReadEof DEF TcpReadEof, HangsUp, EndpointInv
<1>3. CASE TcpWrite
  <2>1. PICK n \in 0 .. udpSendPacketSize : Becomes(tcpWrite(raise(conn, "TcpWrite"), n))
    BY <1>3 DEF TcpWrite
  <2>. QED
    BY <1>0, <2>1, RaisedTcpWrite DEF Becomes, EndpointInv
<1>4. CASE TcpClose
  BY <1>0, <1>4, HandleKeeps DEF TcpClose, Becomes, EndpointInv
<1>5. CASE \E e \in LocalEvents : Handle(e)
  <2>1. PICK e \in LocalEvents : Handle(e)
    BY <1>5
  <2>. QED
    BY <1>0, <2>1, HandleKeeps DEF Handle, Becomes, EndpointInv
<1>6. CASE \E expired \in SUBSET sentPackets : UdpResend(expired)
  <2>1. PICK expired \in SUBSET sentPackets : UdpResend(expired)
    BY <1>6
  <2>2. expired \subseteq DOMAIN conn.udpSentPackets \ unsent(conn)
    BY DEF sentPackets
  <2>. QED
    BY <1>0, <2>1, <2>2, RaisedUdpResend DEF UdpResend, Becomes, EndpointInv
<1>7. CASE UdpRead
  <2>1. PICK m \in Datagrams : Becomes(udpRead(conn, m))
    BY <1>7 DEF UdpRead
  <2>2. m \in Datagram
    BY DatagramsAssumption
  <2>. QED
    BY <1>0, <2>1, <2>2, UdpReadKeeps DEF Becomes, EndpointInv
<1>8. CASE Close
  BY <1>0, <1>8 DEF Close, EndpointInv
<1>9. CASE PollHangup
  BY <1>0, <1>9, PolledKeeps DEF PollHangup, HangsUp, EndpointInv
<1>10. CASE PollError
  BY <1>0, <1>10, PolledKeeps DEF PollError, Becomes, EndpointInv
<1>11. CASE UNCHANGED vars
  BY <1>0, <1>11 DEF vars, EndpointInv
<1>. QED
  BY <1>1, <1>2, <1>3, <1>4, <1>5, <1>6, <1>7, <1>8, <1>9, <1>10, <1>11 DEF Next, Gone

\* The local invariant holds in every state that a connection can reach.
THEOREM InvHolds == Spec => []EndpointInv
BY InitInv, NextInv, PTL DEF Spec

\* Whatever the TCP host and the peer do, the fields of a connection keep their
\* types, and the buffers of udpRead and of buildUdpPackets their index ranges.
THEOREM TypeCorrect == Spec => []TypeOK
<1>1. EndpointInv => TypeOK
  BY DEF EndpointInv, LocalInv, Base, TypeOK
<1>. QED
  BY <1>1, InvHolds, PTL

\* udpPacketsToSendCount, which udpWrite and udpReadConfirmation maintain step
\* by step, is always the number of packets that wait to be sent.
THEOREM UnsentAreCounted == Spec => []UnsentCounted
<1>1. EndpointInv => UnsentCounted
  BY DEF EndpointInv, LocalInv, Base, UnsentCounted
<1>. QED
  BY <1>1, InvHolds, PTL

\* buildUdpPackets never leaves a full packet behind.
THEOREM LeftoversArePartial == Spec => []LeftoverIsPartial
<1>1. EndpointInv => LeftoverIsPartial
  BY DEF EndpointInv, LocalInv, LeftoverIsPartial
<1>. QED
  BY <1>1, InvHolds, PTL

\* No packet that TCP has not got is erased by buildConfirmations or skipped by
\* tcpWrite.
THEOREM ReceivedAreKept == Spec => []ReceivedKept
<1>1. EndpointInv => ReceivedKept
  BY DEF EndpointInv, LocalInv, Base, ReceivedKept
<1>. QED
  BY <1>1, InvHolds, PTL

\* No handler leaves work behind without an enabled event that will do it.
THEOREM WakeupsAreKept == Spec => []NoLostWakeup
<1>1. EndpointInv => NoLostWakeup
  BY DEF EndpointInv, LocalInv, NoLostWakeup
<1>. QED
  BY <1>1, InvHolds, PTL

-----------------------------------------------------------------------------
(* The end of the peer's stream: the final index is learnt in its turn, and  *)
(* nothing is accepted behind it.                                           *)

\* Every step of Endpoint but the arrival of a datagram leaves the indices.
LEMMA OthersAreIdle ==
  ASSUME EndpointInv, [Next]_vars, ~UdpRead
  PROVE  Idle(conn, conn')
<1>0. HasFields(conn) /\ LocalInv(conn)
  BY TypedHasFields DEF EndpointInv, LocalInv, Base
<1>1. Idle(conn, conn)
  BY <1>0, SelfStays DEF Silent, Stays
<1>2. CASE TcpRead
  BY <1>0, <1>2, RaisedTcpReadStays DEF TcpRead, Becomes, Stays
<1>3. CASE TcpReadEof
  BY <1>0, <1>3, RaisedTcpReadEofStays DEF TcpReadEof, HangsUp, Stays
<1>4. CASE TcpWrite
  <2>1. PICK n \in 0 .. udpSendPacketSize : conn' = tcpWrite(raise(conn, "TcpWrite"), n)
    BY <1>4 DEF TcpWrite, Becomes
  <2>2. n \in Nat
    BY PacketSizeAssumption
  <2>. QED
    BY <1>0, <2>1, <2>2, RaisedTcpWriteWrites
    DEF Silent, Stays, Skips, Ends, Writes, Advances
<1>5. CASE TcpClose
  BY <1>0, <1>5, HandleStays DEF TcpClose, Becomes, Stays
<1>6. CASE \E e \in LocalEvents : Handle(e)
  <2>1. PICK e \in LocalEvents : conn' = handle(conn, e)
    BY <1>6 DEF Handle, Becomes
  <2>. QED
    BY <1>0, <2>1, HandleStays DEF LocalEvents, Silent, Stays, Finishes, Closes
<1>7. CASE \E expired \in SUBSET sentPackets : UdpResend(expired)
  BY <1>0, <1>7, RaisedUdpResendStays DEF UdpResend, Becomes, Silent, Stays, Closes
<1>. DEFINE F == FALSE
            T == TRUE
<1>8. CASE PollHangup
  <2>1. PICK readable \in BOOLEAN : conn' = polled(conn, F, readable)
    BY <1>8 DEF PollHangup, HangsUp
  <2>. HIDE DEF F
  <2>. QED
    BY <1>0, <2>1, PolledStays
<1>9. CASE PollError
  <2>1. PICK readable \in BOOLEAN : conn' = polled(conn, T, readable)
    BY <1>9 DEF PollError, Becomes
  <2>. HIDE DEF T
  <2>. QED
    BY <1>0, <2>1, PolledStays
<1>10. CASE Close \/ UNCHANGED vars
  BY <1>1, <1>10 DEF Close, vars
<1>. QED
  BY <1>2, <1>3, <1>4, <1>5, <1>6, <1>7, <1>8, <1>9, <1>10 DEF Next, Gone

\* The inductive step, and what no step does behind the final packet.
LEMMA FinalStep ==
  ASSUME EndpointInv, FinalIsMaster, [Next]_vars
  PROVE  /\ FinalIsMaster'
         /\ finalReceived(conn) => Idle(conn, conn')
<1>0. LocalInv(conn) /\ FinalIsMasterIn(conn)
  BY DEF EndpointInv, FinalIsMaster
<1>1. CASE UdpRead
  <2>1. PICK m \in Datagram : conn' = udpRead(conn, m)
    BY <1>1, DatagramsAssumption DEF UdpRead, Becomes
  <2>. QED
    BY <1>0, <2>1, UdpReadFinal DEF FinalIsMaster
<1>2. CASE ~UdpRead
  <2>1. Idle(conn, conn')
    BY <1>2, OthersAreIdle
  <2>. QED
    BY <1>0, <2>1 DEF Idle, FinalIsMaster, FinalIsMasterIn
<1>. QED
  BY <1>1, <1>2

\* A new connection knows of no final index.
LEMMA InitFinal == Init => FinalIsMaster
BY DEF Init, FinalIsMaster, FinalIsMasterIn, newConnection, addPacket,
       onUdpSentBufferChanged, enable, disable

\* udpRead learns the final index only when the master index reaches it: a Bye
\* or a Disconnect that overtakes data counts in its turn.
THEOREM FinalIndexIsMaster == Spec => []FinalIsMaster
<1>1. EndpointInv /\ FinalIsMaster /\ [Next]_vars => FinalIsMaster'
  BY FinalStep
<1>. QED
  BY <1>1, InitFinal, InvHolds, PTL DEF Spec

\* Behind the last packet of the peer udpRead accepts nothing, whatever arrives.
THEOREM NothingAccepted == Spec => NothingAfterFinal
<1>. DEFINE A == finalReceived(conn) =>
                   /\ conn'.udpReceivedMasterIndex = conn.udpReceivedMasterIndex
                   /\ DOMAIN conn'.udpReceivedPackets \subseteq DOMAIN conn.udpReceivedPackets
<1>1. EndpointInv /\ FinalIsMaster /\ [Next]_vars => [A]_vars
  BY FinalStep DEF Idle
<1>. QED
  BY <1>1, InvHolds, FinalIndexIsMaster, PTL DEF Spec, NothingAfterFinal

=============================================================================
