---------------------------- MODULE TunnelProofs ----------------------------
(***************************************************************************)
(* Theorems about Tunnel, for streams of any length and every value of the *)
(* constants: the two ends and the datagrams between them are well formed, *)
(* an end forgets a packet only when its peer has it, and the tunnel is a  *)
(* pair of byte streams, so that no stream ends early or loses a byte.     *)
(***************************************************************************)
EXTENDS Tunnel, ConnectionProofs, SequenceTheorems

-----------------------------------------------------------------------------
(* What a step does to the end where it happens.                           *)

\* A connection that is as it should be, whatever its peer does.
Good(c) == LocalInv(c) /\ FinalIsMasterIn(c) /\ IsLogged(c)

\* m comes from c: a queued confirmation or a packet that is still kept.
SentBy(c, m) ==
  \/ m \in Queued(c)
  \/ /\ ~isConfirmation(m)
     /\ m.type \in DataTypes
     /\ m.index \in DOMAIN c.udpSentPackets
     /\ SamePacket(m, c.udpSentPackets[m.index])

\* udpWrite sends a queued confirmation or a packet that it keeps until it is
\* confirmed.
LEMMA WrittenIsSent ==
  ASSUME NEW c, Good(c), NEW m \in udpWritten(c)
  PROVE  m \in Datagram /\ SentBy(c, m)
<1>. DEFINE U == unsent(c)
            i == Min(U)
            p == c.udpSentPackets[i]
            none == {}
            d == datagram(p.type, i, p.from, p.to, none)
<1>1. ConnectionType(c)
  BY DEF Good, LocalInv, Base
<1>2. CASE c.udpConfirmationPackets # <<>>
  <2>. DEFINE q == c.udpConfirmationPackets
  <2>1. m = Head(q)
    BY <1>2 DEF udpWritten
  <2>2. q \in Seq(Datagram) /\ 1 \in 1 .. Len(q) /\ Head(q) = q[1]
    BY <1>1, <1>2 DEF ConnectionType
  <2>3. m \in Datagram /\ m = q[1]
    BY <2>1, <2>2
  <2>. QED
    BY <2>2, <2>3 DEF SentBy, Queued
<1>3. CASE ~(c.udpConfirmationPackets # <<>>)
  <2>1. U # {} /\ m = d
    BY <1>3 DEF udpWritten
  <2>2. U \subseteq Nat /\ U \subseteq DOMAIN c.udpSentPackets
    BY <1>1 DEF ConnectionType, unsent
  <2>3. i \in U
    BY <2>1, <2>2, MinIsLeast
  <2>. HIDE DEF U, i
  <2>4. p \in SentPacket /\ i \in Nat /\ i \in DOMAIN c.udpSentPackets
    BY <1>1, <2>2, <2>3 DEF ConnectionType
  <2>5. /\ d.type = p.type /\ d.index = i /\ d.from = p.from /\ d.to = p.to
        /\ d \in [type : Types, index : Nat, from : Nat, to : Nat, acks : SUBSET Nat]
        /\ p.type \in DataTypes /\ d.type # "Confirmation"
    BY <2>4 DEF datagram, SentPacket, Types, DataTypes
  <2>6. p.type = "Data" => p.from < p.to
    <3>1. PICK P, b : PacketLog(c, P, b)
      BY DEF Good, IsLogged, Logged
    <3>2. i \in 0 .. (c.udpNextSendIndex - 1) /\ SamePacket(p, P[i])
      BY <2>4, <3>1 DEF PacketLog
    <3>. HIDE DEF p
    <3>3. CASE i = 0
      BY <3>1, <3>2, <3>3 DEF PacketLog, SamePacket, Hello
    <3>4. CASE i # 0
      <4>1. i \in 1 .. (c.udpNextSendIndex - 1)
        BY <3>1, <3>2, <3>4 DEF PacketLog
      <4>. QED
        BY <3>1, <3>2, <4>1 DEF PacketLog, SamePacket
    <3>. QED
      BY <3>3, <3>4
  <2>. HIDE DEF p, d
  <2>. QED
    BY <2>1, <2>4, <2>5, <2>6 DEF SentBy, isConfirmation, SamePacket, Datagram, p
<1>. QED
  BY <1>2, <1>3

\* A handler that leaves the indices of what was received.
LEMMA GoodOn ==
  ASSUME NEW c, Good(c), NEW r, LocalInv(r), FinalIsMasterIn(r), Continues(c, r)
  PROVE  Good(r)
BY LoggedOn DEF Good

\* The connection that the server opens, wherever its stream starts.
LEMMA NewConnectionIsFine ==
  ASSUME NEW b \in Nat
  PROVE  Good([newConnection EXCEPT !.tcpReceivedData = [from |-> b, to |-> b]])
<1>. DEFINE data == [from |-> b, to |-> b]
            n == newConnection
            c == [n EXCEPT !.tcpReceivedData = data]
<1>1. LocalInv(n)
  BY NewConnectionIsGood
<1>2. data \in Chunk /\ data.from = b /\ data.to = b /\ b - b = 0
  BY DEF Chunk
<1>3. n.udpReceivedFinalIndex = INT_MAX /\ n.tcpReceivedData.from = n.tcpReceivedData.to
  BY DEF newConnection, addPacket, onUdpSentBufferChanged, enable, disable
<1>4. IsLogged(c)
  BY NewConnectionIsLogged DEF IsLogged
<1>. HIDE DEF n, data
<1>5. Fields \subseteq DOMAIN n
  BY <1>1, TypedHasFields DEF LocalInv, Base, HasFields
<1>6. ConnectionType(c)
  BY <1>1, <1>2 DEF LocalInv, Base, ConnectionType
<1>7. UnsentCountedIn(c) /\ ReceivedKeptIn(c) /\ FinalIsMasterIn(c)
  BY <1>1, <1>3, <1>5 DEF LocalInv, Base, UnsentCountedIn, unsent, ReceivedKeptIn,
                          FinalIsMasterIn, Fields
<1>8. LeftoverIsPartialIn(c)
  <2>1. c.tcpReceivedData = data
    BY <1>5 DEF Fields
  <2>. HIDE DEF c
  <2>. QED
    BY <1>2, <2>1, PacketSizeAssumption DEF LeftoverIsPartialIn
<1>9. NoLostWakeupIn(c)
  BY <1>1, <1>2, <1>5 DEF LocalInv, NoLostWakeupIn, unsent, Fields
<1>. QED
  BY <1>4, <1>6, <1>7, <1>8, <1>9 DEF Good, LocalInv, Base, n, data

-----------------------------------------------------------------------------
(* The kinds of steps.  c is the connection at s before the step, r the one *)
(* after it, and out what it sends.                                         *)

\* The end of the peer's stream has been passed on, or nothing was received at
\* all: no promise to the peer is touched.
Plain(c, r) == Idle(c, r) /\ SameReads(c, r) /\ Sends(c, r)

\* UDP is closed because the peer is given up or the UDP socket failed.
GivesUp(s, c, r) == c.udpConnected /\ Closes(c, r) /\ aborted' = [aborted EXCEPT ![s] = TRUE]

\* A datagram is read, and then UDP may be closed.
ReadsAs(c, r, m, d) ==
  /\ \/ Silent(c, d)
     \/ c.udpConnected /\ isConfirmation(m) /\ Hears(c, d, m)
     \/ c.udpConnected /\ Stores(c, d, m)
  /\ r = d \/ Finishes(d, r)

Reads(s, c, r) == \E m \in net[s] : \E d : ReadsAs(c, r, m, d)

\* TCP accepts bytes, or a Hello is passed over.
WritesTcp(c, r) ==
  Skips(c, r) \/ \E size \in Int : size <= udpSendPacketSize /\ Writes(c, r, size)

Kind(s, c, r) ==
  \/ GivesUp(s, c, r)
  \/ /\ aborted' = aborted
     /\ Plain(c, r) \/ Finishes(c, r) \/ Reads(s, c, r) \/ WritesTcp(c, r)

\* No byte is taken or given.
Keeps(c, r) ==
  /\ r.tcpReceivedData.to = c.tcpReceivedData.to
  /\ r.tcpWritten = c.tcpWritten
  /\ r.tcpConnected => c.tcpConnected

\* Bytes are taken from TCP.
Takes(s, c, r) ==
  /\ c.tcpConnected /\ r.tcpConnected /\ SameSocket(c, r)
  /\ r.tcpWritten = c.tcpWritten
  /\ \E n \in 1 .. udpSendPacketSize :
       /\ r.tcpReceivedData.to = c.tcpReceivedData.to + n
       /\ r.tcpReceivedData.to <= firstByte(s) + StreamLen[s]

\* The peer is given up, or the TCP host hangs up or fails.
Loses(s, c, r) ==
  /\ Keeps(c, r)
  /\ aborted'[s] \/ hangup'[s] \/ r.socketError
  /\ SameSocket(c, r) \/ hangup'[s] \/ r.socketError
  /\ hangup[s] => hangup'[s]
  /\ \A t \in Side : t # s => aborted'[t] = aborted[t] /\ hangup'[t] = hangup[t]

\* What the two TCP hosts see of the step.
Shows(s, c, r) ==
  \/ Loses(s, c, r)
  \/ /\ hangup' = hangup /\ aborted' = aborted
     /\ \/ /\ Keeps(c, r) /\ SameSocket(c, r)
           /\ r.tcpConnected = c.tcpConnected \/ ~c.socketWrite
        \/ Takes(s, c, r)
        \/ WritesTcp(c, r)
        \/ Ends(c, r) /\ r.tcpReceivedData.to = c.tcpReceivedData.to
        \/ Finishes(c, r)
        \/ Reads(s, c, r)

Turn(s, r, out) ==
  /\ conn' = [conn EXCEPT ![s] = r]
  /\ net' = [net EXCEPT ![Peer(s)] = @ \cup out]
  /\ \A m \in out : m \in Datagram /\ SentBy(conn[s], m)
  /\ Good(r) /\ Continues(conn[s], r)
  /\ Kind(s, conn[s], r) /\ Shows(s, conn[s], r)

\* The host sees nothing.
LEMMA SilentShows ==
  ASSUME NEW s, NEW c, NEW r, hangup' = hangup, aborted' = aborted, Silent(c, r)
  PROVE  Shows(s, c, r)
BY DEF Silent, Stays, SameReads, SameLog, Shows, Keeps

-----------------------------------------------------------------------------
(* Both ends are good, whatever the network does.                           *)

EndsInv ==
  /\ conn = [s \in Side |-> conn[s]]
  /\ net \in [Side -> SUBSET Datagram]
  /\ phase \in [Side -> {"none", "open", "deleted"}]
  /\ hangup \in [Side -> BOOLEAN]
  /\ aborted \in [Side -> BOOLEAN]
  /\ opened \in Nat
  /\ \A s \in Side : Good(conn[s])

\* The handlers that close UDP only when the peer is given up.
LEMMA AbortsIsKind ==
  ASSUME EndsInv, NEW s \in Side, NEW r, Aborts(s, r),
         Silent(conn[s], r) \/ (conn[s].udpConnected /\ Closes(conn[s], r))
  PROVE  Kind(s, conn[s], r) /\ Shows(s, conn[s], r)
<1>0. hangup' = hangup
  BY DEF Aborts
<1>1. CASE Silent(conn[s], r)
  <2>1. ~(conn[s].udpConnected /\ ~r.udpConnected)
    BY <1>1 DEF Silent, Stays, Sends
  <2>2. aborted[s] \in BOOLEAN /\ aborted' = [aborted EXCEPT ![s] = aborted[s]]
    BY <2>1 DEF Aborts, EndsInv
  <2>3. aborted' = aborted
    BY <2>2 DEF EndsInv
  <2>. QED
    BY <1>0, <1>1, <2>3, SilentShows DEF Kind, Plain, Silent, Stays
<1>2. CASE conn[s].udpConnected /\ Closes(conn[s], r)
  <2>1. ~r.udpConnected
    BY <1>2 DEF Closes
  <2>2. aborted' = [aborted EXCEPT ![s] = TRUE]
    BY <1>2, <2>1 DEF Aborts, EndsInv
  <2>3. aborted'[s] /\ \A t \in Side : t # s => aborted'[t] = aborted[t]
    BY <2>2 DEF EndsInv
  <2>4. Keeps(conn[s], r) /\ SameSocket(conn[s], r)
    BY <1>2 DEF Closes, SameReads, SameLog, Keeps
  <2>. QED
    BY <1>0, <1>2, <2>2, <2>3, <2>4 DEF Kind, GivesUp, Shows, Loses
<1>. QED
  BY <1>1, <1>2

\* A step that sends nothing.
LEMMA BecomesIsTurn ==
  ASSUME EndsInv, NEW s \in Side, NEW r, conn' = [conn EXCEPT ![s] = r], net' = net,
         Good(r), Continues(conn[s], r), Kind(s, conn[s], r), Shows(s, conn[s], r)
  PROVE  Turn(s, r, {})
<1>1. Peer(s) \in Side
  BY DEF Peer, Side
<1>2. net' = [net EXCEPT ![Peer(s)] = net[Peer(s)] \cup {}]
  BY <1>1 DEF EndsInv
<1>. QED
  BY <1>2 DEF Turn

\* The shape that Becomes stands for.
LEMMA BecomesKeeps ==
  ASSUME EndsInv, NEW s \in Side, NEW r, Becomes(s, r)
  PROVE  /\ conn' = [conn EXCEPT ![s] = r] /\ net' = net
         /\ hangup' = hangup /\ aborted' = aborted
<1>1. Peer(s) \in Side
  BY DEF Peer, Side
<1>2. net' = [net EXCEPT ![Peer(s)] = net[Peer(s)] \cup {}]
  BY DEF Becomes, Send
<1>. QED
  BY <1>1, <1>2 DEF Becomes, Send, EndsInv

\* A handler that touches no promise.
LEMMA PlainIsTurn ==
  ASSUME EndsInv, NEW s \in Side, NEW r, conn' = [conn EXCEPT ![s] = r], net' = net,
         aborted' = aborted, LocalInv(r), Continues(conn[s], r), Plain(conn[s], r),
         Shows(s, conn[s], r)
  PROVE  Turn(s, r, {})
<1>1. Good(conn[s])
  BY DEF EndsInv
<1>2. FinalIsMasterIn(r)
  BY <1>1 DEF Plain, Idle, Good, FinalIsMasterIn
<1>3. Good(r)
  BY <1>1, <1>2, GoodOn
<1>. QED
  BY <1>3, BecomesIsTurn DEF Kind

\* The events that read no input, and what they send.
LEMMA HandleKind ==
  ASSUME NEW c, Good(c), NEW e \in LocalEvents \cup {"TcpClose"}
  PROVE  LET r == handle(c, e)
         IN  /\ Good(r) /\ Continues(c, r)
             /\ e # "UdpClose" => Plain(c, r) \/ Finishes(c, r)
             /\ e # "UdpClose" =>
                  \/ Finishes(c, r)
                  \/ /\ Keeps(c, r) /\ SameSocket(c, r)
                     /\ e # "TcpClose" => r.tcpConnected = c.tcpConnected
<1>. DEFINE r == handle(c, e)
<1>0. LocalInv(c) /\ IsLogged(c) /\ FinalIsMasterIn(c)
  BY DEF Good
<1>1. LocalInv(r) /\ Continues(c, r)
  BY <1>0, HandleKeeps, HandleContinues
<1>2. \/ Stays(c, r) \/ Closes(c, r)
      \/ e # "UdpClose" /\ Finishes(c, r)
  BY <1>0, HandleStays DEF Silent, LocalEvents
<1>3. e # "UdpClose" => Stays(c, r) \/ Finishes(c, r)
  BY <1>0, HandleStays DEF Silent, LocalEvents
<1>7. r.tcpReceivedData.to = c.tcpReceivedData.to
  BY <1>0, HandleContinues
<1>8. e # "UdpClose" /\ e # "TcpClose" => Finishes(c, r) \/ r.tcpConnected = c.tcpConnected
  BY <1>0, HandleStays, HandleContinues DEF Silent, LocalEvents
<1>. HIDE DEF r
<1>4. Idle(c, r)
  BY <1>2 DEF Stays, Closes, Finishes
<1>5. FinalIsMasterIn(r)
  BY <1>0, <1>4 DEF Idle, FinalIsMasterIn
<1>6. Good(r)
  BY <1>1, <1>5, GoodOn
<1>. QED
  BY <1>1, <1>3, <1>6, <1>7, <1>8 DEF Plain, Stays, SameReads, Keeps, r

\* The handlers of one end, but for the one that deletes it.
LEMMA LocalTurns ==
  ASSUME EndsInv, NEW s \in Side, Local(s) \/ Host(s), ~Close(s)
  PROVE  \E r, out : Turn(s, r, out)
<1>. DEFINE c == conn[s]
<1>0. Good(c) /\ LocalInv(c) /\ IsLogged(c) /\ HasFields(c)
  BY TypedHasFields DEF EndsInv, Good, LocalInv, Base
<1>. HIDE DEF c
<1>1. CASE TcpRead(s)
  <2>1. PICK n \in 0 .. udpSendPacketSize :
               /\ c.tcpReceivedData.to + n <= firstByte(s) + StreamLen[s]
               /\ Becomes(s, tcpRead(raise(c, "TcpRead"), n))
    BY <1>1 DEF TcpRead, c
  <2>. DEFINE r == tcpRead(raise(c, "TcpRead"), n)
  <2>2. n \in Nat /\ n \in 0 .. udpSendPacketSize
    BY PacketSizeAssumption
  <2>3. LocalInv(r) /\ Continues(c, r) /\ Plain(c, r) /\ SameSocket(c, r)
    BY <1>0, <2>2, RaisedTcpRead, RaisedTcpReadContinues, RaisedTcpReadStays DEF Stays, Plain
  <2>5. /\ r.tcpConnected = c.tcpConnected
        /\ r.tcpReceivedData.to \in {c.tcpReceivedData.to, c.tcpReceivedData.to + n}
        /\ ~c.tcpConnected => r.tcpReceivedData.to = c.tcpReceivedData.to
    BY <1>0, <2>2, RaisedTcpReadContinues
  <2>. HIDE DEF r
  <2>6. c.tcpReceivedData.to \in Nat /\ c.tcpConnected \in BOOLEAN
    BY <1>0 DEF LocalInv, Base, ConnectionType, Chunk
  <2>7. \/ Keeps(c, r) /\ SameSocket(c, r) /\ r.tcpConnected = c.tcpConnected
        \/ Takes(s, c, r)
    <3>1. CASE r.tcpReceivedData.to = c.tcpReceivedData.to
      BY <2>3, <2>5, <3>1 DEF Plain, SameReads, Keeps
    <3>2. CASE r.tcpReceivedData.to # c.tcpReceivedData.to
      <4>1. c.tcpConnected /\ r.tcpConnected /\ r.tcpReceivedData.to = c.tcpReceivedData.to + n
        BY <2>5, <3>2
      <4>2. n \in 1 .. udpSendPacketSize
        <5>. DEFINE x == c.tcpReceivedData.to
        <5>1. x + n # x /\ x \in Nat
          BY <2>6, <3>2, <4>1
        <5>. HIDE DEF x
        <5>. QED
          BY <2>2, <5>1, PacketSizeAssumption
      <4>3. r.tcpReceivedData.to <= firstByte(s) + StreamLen[s]
        BY <2>1, <4>1 DEF c
      <4>. QED
        BY <2>3, <4>1, <4>2, <4>3 DEF Takes, Plain, SameReads
    <3>. QED
      BY <3>1, <3>2
  <2>4. conn' = [conn EXCEPT ![s] = r] /\ net' = net /\ hangup' = hangup /\ aborted' = aborted
    BY <2>1, BecomesKeeps DEF r
  <2>. QED
    BY <2>3, <2>4, <2>7, PlainIsTurn DEF Shows, c
<1>2. CASE TcpReadEof(s)
  <2>. DEFINE r == tcpRead(closeRead(raise(c, "TcpRead")), 0)
  <2>1. /\ conn' = [conn EXCEPT ![s] = r] /\ net' = net /\ aborted' = aborted
        /\ hangup' = [hangup EXCEPT ![s] = TRUE]
    BY <1>2 DEF TcpReadEof, HangsUp, c
  <2>2. LocalInv(r) /\ Continues(c, r) /\ Plain(c, r)
    BY <1>0, RaisedTcpReadEof, RaisedTcpReadEofContinues, RaisedTcpReadEofStays DEF Stays, Plain
  <2>3. r.tcpReceivedData.to = c.tcpReceivedData.to
    BY <1>0, RaisedTcpReadEofContinues
  <2>. HIDE DEF r
  <2>4. Keeps(c, r) /\ hangup'[s] /\ \A t \in Side : t # s => hangup'[t] = hangup[t]
    BY <2>1, <2>2, <2>3 DEF Plain, SameReads, Keeps, EndsInv
  <2>5. Shows(s, c, r)
    BY <2>1, <2>4 DEF Shows, Loses
  <2>. QED
    BY <2>1, <2>2, <2>5, PlainIsTurn DEF c
<1>3. CASE TcpWrite(s)
  <2>1. PICK n \in 0 .. udpSendPacketSize : Becomes(s, tcpWrite(raise(c, "TcpWrite"), n))
    BY <1>3 DEF TcpWrite, c
  <2>. DEFINE r == tcpWrite(raise(c, "TcpWrite"), n)
  <2>2. n \in Nat
    BY PacketSizeAssumption
  <2>3. LocalInv(r) /\ Continues(c, r) /\ r.tcpReceivedData.to = c.tcpReceivedData.to
    BY <1>0, RaisedTcpWrite, RaisedTcpWriteContinues
  <2>4. \/ Silent(c, r) \/ Skips(c, r) \/ Ends(c, r)
        \/ \E size \in Int : size <= n /\ Writes(c, r, size)
    BY <1>0, <2>2, RaisedTcpWriteWrites
  <2>. HIDE DEF r
  <2>5. conn' = [conn EXCEPT ![s] = r] /\ net' = net /\ hangup' = hangup /\ aborted' = aborted
    BY <2>1, BecomesKeeps DEF r
  <2>9. Silent(c, r) \/ WritesTcp(c, r) \/ Ends(c, r)
    <3>1. ASSUME NEW size \in Int, size <= n PROVE size <= udpSendPacketSize
      BY <3>1, PacketSizeAssumption
    <3>. QED
      BY <2>4, <3>1 DEF WritesTcp
  <2>6. Plain(c, r) \/ WritesTcp(c, r)
    BY <2>9 DEF Silent, Ends, Stays, Plain
  <2>10. Shows(s, c, r)
    BY <2>3, <2>5, <2>9, SilentShows DEF Shows
  <2>7. FinalIsMasterIn(r)
    BY <1>0, <2>4 DEF Good, FinalIsMasterIn, Silent, Ends, Stays, Skips, Writes, Advances, Idle
  <2>8. Good(r)
    BY <1>0, <2>3, <2>7, GoodOn
  <2>. QED
    BY <2>3, <2>5, <2>6, <2>8, <2>10, BecomesIsTurn DEF Kind, c
<1>. DEFINE Local1 == {"BuildUdpPackets", "BuildConfirmations", "BuildByeBye", "UdpCloseWait",
                       "TcpClose"}
<1>4. CASE \E e \in Local1 : /\ Becomes(s, handle(c, e))
                             /\ e = "TcpClose" => ~c.socketWrite
  <2>1. PICK e \in Local1 : Becomes(s, handle(c, e)) /\ (e = "TcpClose" => ~c.socketWrite)
    BY <1>4
  <2>. DEFINE r == handle(c, e)
  <2>2. /\ Good(r) /\ Continues(c, r) /\ (Plain(c, r) \/ Finishes(c, r))
        /\ \/ Finishes(c, r)
           \/ /\ Keeps(c, r) /\ SameSocket(c, r)
              /\ e # "TcpClose" => r.tcpConnected = c.tcpConnected
    BY <1>0, HandleKind DEF LocalEvents
  <2>. HIDE DEF r
  <2>3. conn' = [conn EXCEPT ![s] = r] /\ net' = net /\ hangup' = hangup /\ aborted' = aborted
    BY <2>1, BecomesKeeps DEF r
  <2>4. Shows(s, c, r)
    BY <2>1, <2>2, <2>3 DEF Shows
  <2>. QED
    BY <2>2, <2>3, <2>4, BecomesIsTurn DEF Kind, c
<1>5. CASE UdpWrite(s)
  <2>. DEFINE e == "UdpWrite"
              r == handle(c, e)
              out == udpWritten(c)
  <2>1. conn' = [conn EXCEPT ![s] = r] /\ hangup' = hangup /\ aborted' = aborted
    BY <1>5 DEF UdpWrite, Send, c
  <2>2. net' = [net EXCEPT ![Peer(s)] = net[Peer(s)] \cup out]
    BY <1>5 DEF UdpWrite, Send, c
  <2>3. e # "UdpClose" /\ e # "TcpClose" /\ e \in LocalEvents \cup {"TcpClose"}
    BY DEF LocalEvents
  <2>. HIDE DEF e
  <2>4. /\ Good(r) /\ Continues(c, r) /\ (Plain(c, r) \/ Finishes(c, r))
        /\ \/ Finishes(c, r)
           \/ Keeps(c, r) /\ SameSocket(c, r) /\ r.tcpConnected = c.tcpConnected
    BY <1>0, <2>3, HandleKind
  <2>5. \A m \in out : m \in Datagram /\ SentBy(c, m)
    BY <1>0, WrittenIsSent
  <2>. HIDE DEF r, out
  <2>6. Kind(s, c, r) /\ Shows(s, c, r)
    BY <2>1, <2>4 DEF Kind, Shows
  <2>7. Turn(s, r, out)
    BY <2>1, <2>2, <2>4, <2>5, <2>6 DEF Turn, c
  <2>. QED
    BY <2>7
<1>6. CASE UdpClose(s)
  <2>. DEFINE e == "UdpClose"
              r == handle(c, e)
  <2>1. Aborts(s, r)
    BY <1>6 DEF UdpClose, c
  <2>2. e \in LocalEvents \cup {"TcpClose"} /\ e = "UdpClose"
    BY DEF LocalEvents
  <2>. HIDE DEF e
  <2>3. Good(r) /\ Continues(c, r)
    BY <1>0, <2>2, HandleKind
  <2>4. Silent(c, r) \/ (c.udpConnected /\ Closes(c, r))
    BY <1>0, <2>2, HandleStays
  <2>. HIDE DEF r
  <2>5. Kind(s, c, r) /\ Shows(s, c, r)
    BY <2>1, <2>4, AbortsIsKind DEF c
  <2>6. conn' = [conn EXCEPT ![s] = r] /\ net' = net
    BY <2>1 DEF Aborts
  <2>. QED
    BY <2>3, <2>5, <2>6, BecomesIsTurn DEF c
<1>7. CASE \E expired \in SUBSET sentPackets(s) : UdpResend(s, expired)
  <2>1. PICK expired \in SUBSET sentPackets(s) : UdpResend(s, expired)
    BY <1>7
  <2>. DEFINE r == udpResend(raise(c, "UdpResend"), expired)
  <2>2. Aborts(s, r)
    BY <2>1 DEF UdpResend, c
  <2>3. expired \subseteq DOMAIN c.udpSentPackets \ unsent(c)
    BY DEF sentPackets, c
  <2>4. LocalInv(r) /\ Continues(c, r)
    BY <1>0, <2>3, RaisedUdpResend, RaisedUdpResendContinues
  <2>5. Silent(c, r) \/ (c.udpConnected /\ Closes(c, r))
    BY <1>0, RaisedUdpResendStays
  <2>. HIDE DEF r
  <2>6. Kind(s, c, r) /\ Shows(s, c, r)
    BY <2>2, <2>5, AbortsIsKind DEF c
  <2>7. conn' = [conn EXCEPT ![s] = r] /\ net' = net
    BY <2>2 DEF Aborts
  <2>8. FinalIsMasterIn(r)
    BY <1>0, <2>5 DEF Good, FinalIsMasterIn, Silent, Stays, Closes, Idle
  <2>9. Good(r)
    BY <1>0, <2>4, <2>8, GoodOn
  <2>. QED
    BY <2>4, <2>6, <2>7, <2>9, BecomesIsTurn DEF c
<1>8. CASE Host(s)
  <2>. DEFINE others == \A t \in Side : t # s => hangup'[t] = hangup[t]
  <2>1. PICK error \in BOOLEAN, readable \in BOOLEAN :
          /\ conn' = [conn EXCEPT ![s] = polled(c, error, readable)]
          /\ net' = net /\ aborted' = aborted /\ others
          /\ hangup'[s] \/ (error /\ hangup' = hangup)
    <3>1. CASE PollHangup(s)
      <4>1. hangup' = [hangup EXCEPT ![s] = TRUE]
        BY <3>1 DEF PollHangup, HangsUp
      <4>2. hangup'[s] /\ others
        BY <4>1 DEF EndsInv
      <4>. HIDE DEF others
      <4>. QED
        BY <3>1, <4>2 DEF PollHangup, HangsUp, c
    <3>2. CASE PollError(s)
      <4>1. PICK readable \in BOOLEAN : Becomes(s, polled(c, TRUE, readable))
        BY <3>2 DEF PollError, c
      <4>. DEFINE r == polled(c, TRUE, readable)
      <4>2. conn' = [conn EXCEPT ![s] = r] /\ net' = net /\ hangup' = hangup /\ aborted' = aborted
        <5>. HIDE DEF r
        <5>. QED
          BY <4>1, BecomesKeeps DEF r
      <4>. QED
        BY <4>2
    <3>. QED
      BY <1>8, <3>1, <3>2 DEF Host
  <2>. DEFINE r == polled(c, error, readable)
  <2>2. LocalInv(r) /\ Continues(c, r) /\ r.tcpReceivedData.to = c.tcpReceivedData.to
    BY <1>0, PolledKeeps, PolledContinues
  <2>3. Plain(c, r) /\ (error => r.socketError)
    BY <1>0, PolledStays DEF Plain
  <2>. HIDE DEF r
  <2>4. Keeps(c, r)
    BY <2>2, <2>3 DEF Keeps, Plain, SameReads
  <2>5. Shows(s, c, r)
    BY <2>1, <2>3, <2>4 DEF Shows, Loses
  <2>. QED
    BY <2>1, <2>2, <2>3, <2>5, PlainIsTurn DEF c, r
<1>9. TcpClose(s) \/ BuildUdpPackets(s) \/ BuildConfirmations(s) \/ BuildByeBye(s)
      \/ UdpCloseWait(s)
        => \E e \in Local1 : Becomes(s, handle(c, e)) /\ (e = "TcpClose" => ~c.socketWrite)
  BY DEF TcpClose, canTcpClose, socketClosed, BuildUdpPackets, BuildConfirmations, BuildByeBye,
         UdpCloseWait, Handle, c
<1>. QED
  BY <1>1, <1>2, <1>3, <1>4, <1>5, <1>6, <1>7, <1>8, <1>9 DEF Local

\* udpRead, whatever the datagram.
LEMMA UdpReadIsGood ==
  ASSUME NEW c, Good(c), NEW m \in Datagram
  PROVE  Good(udpRead(c, m)) /\ Continues(c, udpRead(c, m))
<1>. DEFINE r == udpRead(c, m)
<1>1. LocalInv(r) /\ Continues(c, r) /\ FinalIsMasterIn(r)
  BY UdpReadKeeps, UdpReadContinues, UdpReadFinal DEF Good
<1>. HIDE DEF r
<1>2. Good(r)
  BY <1>1, GoodOn
<1>. QED
  BY <1>1, <1>2 DEF r

\* A datagram that has been sent to s is read.
LEMMA UdpReadIsReads ==
  ASSUME EndsInv, NEW s \in Side, NEW m \in net[s]
  PROVE  Reads(s, conn[s], udpRead(conn[s], m))
<1>. DEFINE c == conn[s]
            r == udpRead(c, m)
<1>1. LocalInv(c) /\ FinalIsMasterIn(c) /\ m \in Datagram
  BY DEF EndsInv, Good
<1>. HIDE DEF c
<1>2. \E d : /\ HasFields(d)
             /\ \/ Silent(c, d)
                \/ c.udpConnected /\ isConfirmation(m) /\ Hears(c, d, m)
                \/ c.udpConnected /\ Stores(c, d, m)
             /\ r = d \/ Finishes(d, r)
  BY <1>1, UdpReadReads
<1>. HIDE DEF r
<1>3. Reads(s, c, r)
  BY <1>2 DEF Reads, ReadsAs
<1>. QED
  BY <1>3 DEF c, r

\* A datagram arrives at an end that is open.
LEMMA UdpReadTurns ==
  ASSUME EndsInv, NEW s \in Side, NEW m \in net[s], UdpRead(s, m)
  PROVE  \E r, out : Turn(s, r, out)
<1>. DEFINE c == conn[s]
            r == udpRead(c, m)
<1>1. Good(c) /\ m \in Datagram
  BY DEF EndsInv
<1>2. Reads(s, c, r)
  BY UdpReadIsReads
<1>3. Becomes(s, r)
  BY DEF UdpRead
<1>. HIDE DEF c
<1>4. Good(r) /\ Continues(c, r)
  BY <1>1, UdpReadIsGood
<1>. HIDE DEF r
<1>5. conn' = [conn EXCEPT ![s] = r] /\ net' = net /\ hangup' = hangup /\ aborted' = aborted
  BY <1>3, BecomesKeeps
<1>. QED
  BY <1>2, <1>4, <1>5, BecomesIsTurn DEF Kind, Shows, c

\* The types of the history and control variables.
ControlType ==
  /\ phase \in [Side -> {"none", "open", "deleted"}]
  /\ hangup \in [Side -> BOOLEAN]
  /\ aborted \in [Side -> BOOLEAN]
  /\ opened \in Nat

\* Every action gives them values of their types.
LEMMA ControlTypeKept ==
  ASSUME EndsInv, [Next]_vars
  PROVE  ControlType'
<1>. USE DEF EndsInv, ControlType
<1>1. ASSUME NEW s \in Side, NEW r, NEW out, Send(s, r, out) PROVE ControlType'
  BY <1>1 DEF Send
<1>2. ASSUME NEW s \in Side, NEW r, Aborts(s, r) PROVE ControlType'
  <2>1. aborted' \in [Side -> BOOLEAN]
    <3>. DEFINE x == aborted[s] \/ (conn[s].udpConnected /\ ~r.udpConnected)
    <3>1. x \in BOOLEAN /\ aborted' = [aborted EXCEPT ![s] = x]
      BY <1>2 DEF Aborts
    <3>. HIDE DEF x
    <3>. QED
      BY <3>1
  <2>. QED
    BY <1>2, <2>1 DEF Aborts
<1>3. ASSUME NEW s \in Side, NEW r, HangsUp(s, r) PROVE ControlType'
  BY <1>3 DEF HangsUp
<1>4. ASSUME NEW s \in Side, Close(s) PROVE ControlType'
  BY <1>4 DEF Close
<1>5. ASSUME NEW m, Accept(m) PROVE ControlType'
  BY <1>5 DEF Accept, Side
<1>6. CASE UNCHANGED vars
  BY <1>6 DEF vars
<1>. QED
  BY <1>1, <1>2, <1>3, <1>4, <1>5, <1>6
  DEF Next, Deliver, Local, Host, Quiet, TcpRead, TcpReadEof, TcpWrite, TcpClose, UdpWrite,
      UdpClose, BuildUdpPackets, BuildConfirmations, BuildByeBye, UdpCloseWait, UdpResend,
      UdpRead, PollHangup, PollError, Handle, Becomes

\* Every step is the turn of one end, opens a connection at the server, or
\* leaves both connections and the network alone.
LEMMA NextTurns ==
  ASSUME EndsInv, [Next]_vars
  PROVE  \/ \E s \in Side : \E r, out : Turn(s, r, out)
         \/ \E m \in net["server"] : Accept(m)
         \/ UNCHANGED <<conn, net, hangup, aborted>>
<1>1. CASE \E s \in Side : \E m \in net[s] : UdpRead(s, m)
  BY <1>1, UdpReadTurns
<1>2. CASE \E s \in Side : (Local(s) \/ Host(s)) /\ ~Close(s)
  BY <1>2, LocalTurns
<1>3. CASE \E s \in Side : Close(s)
  BY <1>3 DEF Close
<1>4. CASE Quiet \/ UNCHANGED vars
  BY <1>4 DEF Quiet, vars
<1>. QED
  BY <1>1, <1>2, <1>3, <1>4 DEF Next, Deliver

\* Both ends start with a Hello.
LEMMA InitEnds == Init => EndsInv
<1>. SUFFICES ASSUME Init PROVE EndsInv
  OBVIOUS
<1>. DEFINE z == 0
            data == [from |-> z, to |-> z]
            n == newConnection
<1>1. z \in Nat
  OBVIOUS
<1>2. n = [n EXCEPT !.tcpReceivedData = data]
  <2>1. n.tcpReceivedData = data
    BY DEF newConnection, addPacket, onUdpSentBufferChanged, enable, disable
  <2>. HIDE DEF n, data
  <2>2. ConnectionType(n)
    BY NewConnectionIsGood DEF LocalInv, Base, n
  <2>. QED
    BY <2>1, <2>2 DEF ConnectionType
<1>. HIDE DEF z
<1>3. Good([n EXCEPT !.tcpReceivedData = data])
  BY <1>1, NewConnectionIsFine
<1>. HIDE DEF n, data
<1>4. Good(n)
  BY <1>2, <1>3
<1>5. conn = [s \in Side |-> n] /\ net = [s \in Side |-> {}]
  BY DEF Init, n
<1>. QED
  BY <1>4, <1>5 DEF Init, EndsInv

\* The turn of an end keeps both ends good.
LEMMA TurnKeepsEnds ==
  ASSUME EndsInv, NEW s \in Side, NEW r, NEW out, Turn(s, r, out)
  PROVE  /\ conn' = [t \in Side |-> conn'[t]]
         /\ net' \in [Side -> SUBSET Datagram]
         /\ \A t \in Side : Good(conn'[t])
<1>1. Peer(s) \in Side /\ Good(r) /\ out \subseteq Datagram
  BY DEF Peer, Side, Turn
<1>2. net' \in [Side -> SUBSET Datagram]
  BY <1>1 DEF Turn, EndsInv
<1>3. /\ conn' = [conn EXCEPT ![s] = r]
      /\ conn = [t \in Side |-> conn[t]]
  BY DEF Turn, EndsInv
<1>4. conn' = [t \in Side |-> conn'[t]] /\ \A t \in Side : conn'[t] = IF t = s THEN r ELSE conn[t]
  BY <1>3
<1>. QED
  BY <1>1, <1>2, <1>4 DEF EndsInv

\* The server opens a connection whose stream starts at its own first byte.
LEMMA AcceptKeepsEnds ==
  ASSUME EndsInv, NEW m \in net["server"], Accept(m)
  PROVE  /\ conn' = [t \in Side |-> conn'[t]]
         /\ net' \in [Side -> SUBSET Datagram]
         /\ \A t \in Side : Good(conn'[t])
<1>. DEFINE s == "server"
            first == opened * StreamLen[s]
            n == newConnection
            data == [from |-> first, to |-> first]
            c == [n EXCEPT !.tcpReceivedData = data]
            r == udpRead(c, m)
<1>1. first \in Nat /\ m \in Datagram
  BY StreamLenAssumption DEF EndsInv, Side
<1>2. conn' = [conn EXCEPT ![s] = r] /\ net' = net
  BY DEF Accept
<1>3. s \in Side
  BY DEF Side
<1>. HIDE DEF first, s
<1>4. Good(c)
  BY <1>1, NewConnectionIsFine
<1>. HIDE DEF c
<1>5. Good(r)
  BY <1>1, <1>4, UdpReadIsGood
<1>. HIDE DEF r
<1>6. conn = [t \in Side |-> conn[t]]
  BY DEF EndsInv
<1>7. conn' = [t \in Side |-> conn'[t]] /\ \A t \in Side : conn'[t] = IF t = s THEN r ELSE conn[t]
  BY <1>2, <1>6
<1>. QED
  BY <1>2, <1>5, <1>7 DEF EndsInv

\* Every step keeps both ends good.
LEMMA NextEnds == EndsInv /\ [Next]_vars => EndsInv'
<1>. SUFFICES ASSUME EndsInv, [Next]_vars PROVE EndsInv'
  OBVIOUS
<1>1. ControlType'
  BY ControlTypeKept
<1>2. /\ conn' = [t \in Side |-> conn'[t]]
      /\ net' \in [Side -> SUBSET Datagram]
      /\ \A t \in Side : Good(conn'[t])
  <2>1. CASE \E s \in Side : \E r, out : Turn(s, r, out)
    BY <2>1, TurnKeepsEnds
  <2>2. CASE \E m \in net["server"] : Accept(m)
    BY <2>2, AcceptKeepsEnds
  <2>3. CASE UNCHANGED <<conn, net, hangup, aborted>>
    BY <2>3 DEF EndsInv
  <2>. QED
    BY <2>1, <2>2, <2>3, NextTurns
<1>. QED
  BY <1>1, <1>2 DEF EndsInv, ControlType

\* Both ends are good in all states, for any number of connections at the
\* server.
THEOREM EndsHold == Spec => []EndsInv
BY InitEnds, NextEnds, PTL DEF Spec

\* Both ends and every datagram are well formed, whatever the network loses,
\* repeats or reorders, and however often the server opens a connection.
THEOREM TunnelTypeCorrect == Spec => []TypeOK
<1>1. EndsInv => TypeOK
  BY DEF EndsInv, TypeOK, Good, LocalInv, Base
<1>. QED
  BY <1>1, EndsHold, PTL

-----------------------------------------------------------------------------
(* A tunnel with one connection at the server: a packet is erased only when *)
(* the peer has it.                                                         *)

\* Until the first datagram arrives the server has no connection.
Fresh ==
  opened = 0 =>
    /\ phase["server"] = "none"
    /\ conn["server"] = newConnection
    /\ ~aborted["server"] /\ ~hangup["server"]

\* Only Accept starts it.
LEMMA FreshKept == EndsInv /\ Fresh /\ [Next]_vars => Fresh'
<1>. SUFFICES ASSUME EndsInv, Fresh, [Next]_vars, opened' = 0 PROVE Fresh'
  BY DEF Fresh
<1>. DEFINE server == "server"
<1>0. server \in Side
  BY DEF Side
<1>. HIDE DEF server
<1>1. ASSUME NEW s \in Side, NEW r, NEW out, Send(s, r, out) PROVE Fresh'
  <2>1. opened = 0 /\ s # server /\ server = "server"
    BY <1>1 DEF Send, Fresh, server
  <2>2. conn'[server] = conn[server]
    BY <1>0, <1>1, <2>1 DEF Send, EndsInv
  <2>. QED
    BY <1>1, <2>1, <2>2 DEF Send, Fresh
<1>2. ASSUME NEW s \in Side, NEW r, Aborts(s, r) PROVE Fresh'
  <2>1. opened = 0 /\ s # server /\ server = "server"
    BY <1>2 DEF Aborts, Fresh, server
  <2>2. conn'[server] = conn[server] /\ aborted'[server] = aborted[server]
    BY <1>0, <1>2, <2>1 DEF Aborts, EndsInv
  <2>. QED
    BY <1>2, <2>1, <2>2 DEF Aborts, Fresh
<1>3. ASSUME NEW s \in Side, NEW r, HangsUp(s, r) PROVE Fresh'
  <2>1. opened = 0 /\ s # server /\ server = "server"
    BY <1>3 DEF HangsUp, Fresh, server
  <2>2. conn'[server] = conn[server] /\ hangup'[server] = hangup[server]
    BY <1>0, <1>3, <2>1 DEF HangsUp, EndsInv
  <2>. QED
    BY <1>3, <2>1, <2>2 DEF HangsUp, Fresh
<1>4. ASSUME NEW s \in Side, Close(s) PROVE Fresh'
  <2>1. opened = 0 /\ s # server /\ server = "server"
    BY <1>4 DEF Close, Fresh, server
  <2>2. phase'[server] = phase[server]
    BY <1>0, <1>4, <2>1 DEF Close, EndsInv
  <2>. QED
    BY <1>4, <2>1, <2>2 DEF Close, Fresh
<1>5. ASSUME NEW m, Accept(m) PROVE Fresh'
  BY <1>5 DEF Accept, EndsInv
<1>6. CASE UNCHANGED vars
  BY <1>6 DEF vars, Fresh
<1>. QED
  BY <1>1, <1>2, <1>3, <1>4, <1>5, <1>6
  DEF Next, Deliver, Local, Host, Quiet, TcpRead, TcpReadEof, TcpWrite, TcpClose, UdpWrite,
      UdpClose, BuildUdpPackets, BuildConfirmations, BuildByeBye, UdpCloseWait, UdpResend,
      UdpRead, PollHangup, PollError, Handle, Becomes

\* The first connection that the server opens is like the one at the client.
LEMMA AcceptTurns ==
  ASSUME EndsInv, Fresh, MaxConnections <= 1, NEW m \in net["server"], Accept(m)
  PROVE  \E r, out : Turn("server", r, out)
<1>. DEFINE s == "server"
            first == opened * StreamLen[s]
            n == newConnection
            data == [from |-> first, to |-> first]
            c == [n EXCEPT !.tcpReceivedData = data]
<1>1. opened = 0
  BY MaxConnectionsAssumption DEF Accept, EndsInv
<1>2. s \in Side /\ StreamLen[s] \in Nat
  BY StreamLenAssumption DEF Side
<1>3. n = conn[s] /\ aborted[s] = FALSE /\ hangup[s] = FALSE
  BY <1>1 DEF Fresh, EndsInv, Side
<1>4. c = n
  <2>1. first = 0
    BY <1>1, <1>2
  <2>. HIDE DEF first
  <2>2. n.tcpReceivedData = data
    BY <2>1 DEF newConnection, addPacket, onUdpSentBufferChanged, enable, disable
  <2>. HIDE DEF n, data
  <2>3. ConnectionType(n)
    BY NewConnectionIsGood DEF LocalInv, Base, n
  <2>. QED
    BY <2>2, <2>3 DEF ConnectionType
<1>5. conn' = [conn EXCEPT ![s] = udpRead(c, m)] /\ net' = net
  BY DEF Accept
<1>6. aborted' = aborted /\ hangup' = hangup
  <2>1. aborted' = [aborted EXCEPT ![s] = FALSE] /\ hangup' = [hangup EXCEPT ![s] = FALSE]
    BY DEF Accept
  <2>. QED
    BY <1>2, <1>3, <2>1 DEF EndsInv
<1>. DEFINE x == conn[s]
            r == udpRead(x, m)
<1>7. Good(x) /\ m \in Datagram /\ m \in net[s]
  BY <1>2 DEF EndsInv
<1>. HIDE DEF s, n, c, data, first
<1>8. Reads(s, x, r)
  BY <1>2, <1>7, UdpReadIsReads
<1>9. conn' = [conn EXCEPT ![s] = r]
  BY <1>3, <1>4, <1>5
<1>. HIDE DEF x
<1>10. Good(r) /\ Continues(x, r)
  BY <1>7, UdpReadIsGood
<1>. HIDE DEF r
<1>11. Turn(s, r, {})
  BY <1>2, <1>5, <1>6, <1>8, <1>9, <1>10, BecomesIsTurn DEF Kind, Shows, x
<1>. QED
  BY <1>11 DEF s

\* The steps of a tunnel with one connection at the server.
LEMMA NextTurnsOnce ==
  ASSUME EndsInv, Fresh, MaxConnections <= 1, [Next]_vars
  PROVE  \/ \E s \in Side : \E r, out : Turn(s, r, out)
         \/ UNCHANGED <<conn, net, hangup, aborted>>
<1>. DEFINE s == "server"
<1>1. CASE \E m \in net["server"] : Accept(m)
  <2>1. s \in Side
    BY DEF Side
  <2>2. \E r, out : Turn(s, r, out)
    BY <1>1, AcceptTurns
  <2>. HIDE DEF s
  <2>. QED
    BY <2>1, <2>2
<1>. QED
  BY <1>1, NextTurns

\* The packets that are not kept any more: all of them once UDP is closed.
Gone(c) ==
  IF c.udpConnected THEN Missing(c) ELSE {i \in Nat : i < c.udpNextSendIndex}

\* What a turn does to the promises of an end.
Honest(c, r) ==
  /\ c.udpReceivedMasterIndex <= r.udpReceivedMasterIndex
  /\ \A i \in Nat : Has(c, i) => Has(r, i)
  /\ \A m \in Queued(r) : m \in Queued(c) \/ Told(r, m)

Heard(s, c) == {i \in Nat : \E m \in net[s] : isConfirmation(m) /\ i \in confirmedBy(c, m)}

\* What was true of the packets received stays true.
LEMMA HonestTells ==
  ASSUME NEW c, NEW r, ConnectionType(c), ConnectionType(r), Honest(c, r),
         NEW m \in Datagram, Told(c, m)
  PROVE  Told(r, m)
<1>1. /\ c.udpReceivedMasterIndex \in Nat /\ r.udpReceivedMasterIndex \in Nat
      /\ m.index \in Nat /\ m.acks \subseteq Nat
  BY DEF ConnectionType, Datagram
<1>. QED
  BY <1>1 DEF Honest, Told

\* Each kind of step keeps an end honest.
LEMMA KindIsHonest ==
  ASSUME NEW s, NEW c, NEW r, Kind(s, c, r), ConnectionType(c), ConnectionType(r)
  PROVE  Honest(c, r)
<1>0. c.udpReceivedMasterIndex \in Nat /\ r.udpReceivedMasterIndex \in Nat
  BY DEF ConnectionType
<1>1. ASSUME NEW d, NEW e, Idle(d, e), d.udpReceivedMasterIndex \in Nat,
             \A m \in Queued(e) : m \in Queued(d) \/ Tells(d, m)
      PROVE  Honest(d, e) /\ \A m : Told(d, m) => Told(e, m)
  <2>1. \A m : Told(d, m) => Told(e, m)
    BY <1>1 DEF Idle, Told
  <2>. QED
    BY <1>1, <2>1 DEF Idle, Honest, Tells
<1>2. CASE GivesUp(s, c, r) \/ Finishes(c, r)
  BY <1>0, <1>1, <1>2 DEF GivesUp, Finishes, Closes
<1>3. CASE Plain(c, r) \/ WritesTcp(c, r)
  BY <1>0, <1>1, <1>3 DEF Plain, Sends, WritesTcp, Skips, Writes, Advances
<1>4. CASE Reads(s, c, r)
  <2>0. PICK m \in net[s] : \E d : ReadsAs(c, r, m, d)
    BY <1>4 DEF Reads
  <2>1. PICK d : /\ \/ Silent(c, d)
                    \/ c.udpConnected /\ isConfirmation(m) /\ Hears(c, d, m)
                    \/ c.udpConnected /\ Stores(c, d, m)
                 /\ r = d \/ Finishes(d, r)
    BY <2>0 DEF ReadsAs
  <2>2. Honest(c, d) /\ d.udpReceivedMasterIndex \in Nat
    <3>1. CASE Silent(c, d) \/ Hears(c, d, m)
      BY <1>0, <1>1, <3>1 DEF Silent, Stays, Sends, Hears, Idle
    <3>2. CASE Stores(c, d, m)
      <4>1. Queued(d) = Queued(c)
        BY <3>2 DEF Stores, Queued
      <4>2. c.udpReceivedMasterIndex <= d.udpReceivedMasterIndex /\ d.udpReceivedMasterIndex \in Nat
        BY <3>2 DEF Stores
      <4>3. ASSUME NEW i \in Nat, Has(c, i) PROVE Has(d, i)
        <5>1. CASE i \in DOMAIN c.udpReceivedPackets
          BY <3>2, <5>1 DEF Stores, Has
        <5>2. CASE i < c.udpReceivedMasterIndex
          BY <1>0, <4>2, <5>2 DEF Has
        <5>. QED
          BY <4>3, <5>1, <5>2 DEF Has
      <4>. QED
        BY <4>1, <4>2, <4>3 DEF Honest
    <3>. QED
      BY <2>1, <3>1, <3>2
  <2>3. CASE r = d
    BY <2>2, <2>3
  <2>4. CASE Finishes(d, r)
    <3>1. Honest(d, r) /\ \A q \in Queued(r) : Told(r, q)
      BY <1>1, <2>2, <2>4 DEF Finishes, Closes, Tells
    <3>. QED
      BY <1>0, <2>2, <3>1 DEF Honest
  <2>. QED
    BY <2>1, <2>3, <2>4
<1>. QED
  BY <1>2, <1>3, <1>4 DEF Kind

\* Each kind of step, unless the peer is given up, erases only what the peer
\* has confirmed.
LEMMA KindErases ==
  ASSUME NEW s \in Side, NEW c, NEW r, Kind(s, c, r), Continues(c, r),
         ~(c.udpConnected /\ ~r.udpConnected /\ aborted'[s])
  PROVE  \/ Gone(r) \subseteq Gone(c) \cup Heard(s, c)
         \/ aborted' = [aborted EXCEPT ![s] = TRUE]
<1>1. ASSUME NEW d, NEW e, Finishes(d, e) PROVE Gone(e) \subseteq Gone(d)
  BY <1>1 DEF Finishes, Closes, SameLog, isNoMoreDataWillBeSent, Gone, Missing
<1>2. ASSUME NEW d, NEW e, Sends(d, e), e.udpNextSendIndex = d.udpNextSendIndex \/ d.udpConnected
      PROVE  Gone(e) \subseteq Gone(d)
  BY <1>2 DEF Sends, Gone
<1>3. CASE GivesUp(s, c, r)
  BY <1>3 DEF GivesUp
<1>4. CASE Plain(c, r)
  BY <1>2, <1>4 DEF Plain, Continues
<1>5. CASE Finishes(c, r)
  BY <1>1, <1>5
<1>6. CASE WritesTcp(c, r)
  BY <1>2, <1>6 DEF WritesTcp, Skips, Writes, Advances, SameLog
<1>7. CASE Reads(s, c, r)
  <2>0. PICK m \in net[s] : \E d : ReadsAs(c, r, m, d)
    BY <1>7 DEF Reads
  <2>1. PICK d : /\ \/ Silent(c, d)
                    \/ c.udpConnected /\ isConfirmation(m) /\ Hears(c, d, m)
                    \/ c.udpConnected /\ Stores(c, d, m)
                 /\ r = d \/ Finishes(d, r)
    BY <2>0 DEF ReadsAs
  <2>2. Gone(d) \subseteq Gone(c) \cup Heard(s, c)
    <3>1. CASE Silent(c, d)
      BY <1>2, <3>1 DEF Silent, Stays, SameLog
    <3>2. CASE c.udpConnected /\ isConfirmation(m) /\ Hears(c, d, m)
      <4>1. Gone(d) = Missing(d) /\ Gone(c) = Missing(c)
        BY <3>2 DEF Hears, Gone
      <4>2. Missing(d) \subseteq Nat
        BY DEF Missing
      <4>. QED
        BY <3>2, <4>1, <4>2 DEF Hears, Heard
    <3>3. CASE c.udpConnected /\ Stores(c, d, m)
      BY <3>3 DEF Stores, Gone, Missing
    <3>. QED
      BY <2>1, <3>1, <3>2, <3>3
  <2>. QED
    BY <1>1, <2>1, <2>2
<1>. QED
  BY <1>3, <1>4, <1>5, <1>6, <1>7 DEF Kind

\* UDP stays closed, and a peer is given up only by closing it.
LEMMA KindAborts ==
  ASSUME EndsInv, NEW s \in Side, NEW c, NEW r, Kind(s, c, r)
  PROVE  /\ \A t \in Side : t # s => aborted'[t] = aborted[t]
         /\ aborted[s] => aborted'[s]
         /\ aborted'[s] /\ ~aborted[s] => ~r.udpConnected
<1>1. CASE GivesUp(s, c, r)
  BY <1>1 DEF GivesUp, Closes, EndsInv
<1>2. CASE aborted' = aborted
  BY <1>2
<1>. QED
  BY <1>1, <1>2 DEF Kind

\* What each end has promised the other: what it tells is true, and it keeps
\* every packet that the other has not received, unless it gives the other up.
Promises(s) ==
  LET c == conn[s]
      q == conn[Peer(s)]
  IN  /\ \A m \in net[s] \cup Queued(q) : Told(q, m)
      /\ aborted[s] => ~c.udpConnected
      /\ ~aborted[s] => \A i \in Gone(c) : Has(q, i)

PromiseInv == \A s \in Side : Promises(s)

\* The queue of confirmations.
LEMMA QueuedAreDatagrams ==
  ASSUME NEW c, ConnectionType(c)
  PROVE  Queued(c) \subseteq Datagram
BY DEF ConnectionType, Queued

\* The turn of one end keeps the promises of both.
LEMMA TurnKeepsPromises ==
  ASSUME EndsInv, PromiseInv, NEW s \in Side, NEW r, NEW out, Turn(s, r, out), EndsInv'
  PROVE  PromiseInv'
<1>. DEFINE p == Peer(s)
            c == conn[s]
            q == conn[p]
<1>1. p \in Side /\ p # s /\ Peer(p) = s /\ \A t \in Side : t = s \/ t = p
  BY DEF Peer, Side
<1>2. /\ conn' = [conn EXCEPT ![s] = r]
      /\ net' = [net EXCEPT ![p] = net[p] \cup out]
      /\ \A m \in out : m \in Datagram /\ SentBy(c, m)
      /\ Good(r) /\ Continues(c, r) /\ Kind(s, c, r)
  BY DEF Turn
<1>3. /\ conn'[s] = r /\ conn'[p] = q
      /\ net'[s] = net[s] /\ net'[p] = net[p] \cup out
  BY <1>1, <1>2 DEF EndsInv
<1>4. /\ ConnectionType(c) /\ ConnectionType(q) /\ ConnectionType(r)
      /\ net[s] \subseteq Datagram /\ net[p] \subseteq Datagram
  BY <1>1, <1>2 DEF EndsInv, Good, LocalInv, Base
<1>. HIDE DEF p, c, q
<1>5. /\ \A m \in net[s] \cup Queued(q) : Told(q, m)
      /\ aborted[s] => ~c.udpConnected
      /\ ~aborted[s] => \A i \in Gone(c) : Has(q, i)
  BY DEF PromiseInv, Promises, p, c, q
<1>6. /\ \A m \in net[p] \cup Queued(c) : Told(c, m)
      /\ aborted[p] => ~q.udpConnected
      /\ ~aborted[p] => \A i \in Gone(q) : Has(c, i)
  BY <1>1 DEF PromiseInv, Promises, p, c, q
<1>7. Honest(c, r)
  BY <1>2, <1>4, KindIsHonest
<1>8. \A m \in net'[p] \cup Queued(r) : Told(r, m)
  <2>1. ASSUME NEW m \in net[p] \cup Queued(c) PROVE Told(r, m)
    <3>1. m \in Datagram /\ Told(c, m)
      BY <1>4, <1>6, <2>1, QueuedAreDatagrams
    <3>. QED
      BY <1>4, <1>7, <3>1, HonestTells
  <2>2. ASSUME NEW m \in out PROVE Told(r, m)
    <3>1. CASE m \in Queued(c)
      BY <2>1, <3>1
    <3>2. CASE ~isConfirmation(m)
      BY <3>2 DEF Told
    <3>. QED
      BY <1>2, <2>2, <3>1, <3>2 DEF SentBy
  <2>3. ASSUME NEW m \in Queued(r) PROVE Told(r, m)
    BY <1>7, <2>1, <2>3 DEF Honest
  <2>. QED
    BY <1>3, <2>1, <2>2, <2>3
<1>9. /\ aborted'[p] = aborted[p]
      /\ aborted[s] => aborted'[s]
      /\ aborted'[s] /\ ~aborted[s] => ~r.udpConnected
  BY <1>1, <1>2, KindAborts
<1>10. aborted'[s] => ~r.udpConnected
  BY <1>2, <1>5, <1>9 DEF Continues
<1>11. ASSUME ~aborted'[s], NEW i \in Gone(r) PROVE Has(q, i)
  <2>1. aborted' # [aborted EXCEPT ![s] = TRUE]
    BY <1>11 DEF EndsInv
  <2>2. i \in Gone(c) \cup Heard(s, c)
    BY <1>2, <1>11, <2>1, KindErases
  <2>3. CASE i \in Gone(c)
    BY <1>5, <1>9, <1>11, <2>3
  <2>4. CASE i \in Heard(s, c)
    <3>1. PICK m \in net[s] : isConfirmation(m) /\ i \in confirmedBy(c, m)
      BY <2>4 DEF Heard
    <3>2. /\ m \in Datagram /\ i \in Nat /\ Told(q, m)
          /\ m.index \in Nat /\ q.udpReceivedMasterIndex \in Nat
      BY <1>4, <1>5, <2>4, <3>1 DEF Heard, Datagram, ConnectionType
    <3>3. i < m.index \/ i \in m.acks
      BY <3>1 DEF confirmedBy
    <3>. QED
      BY <3>1, <3>2, <3>3 DEF Told, Has
  <2>. QED
    BY <2>2, <2>3, <2>4
<1>12. ASSUME ~aborted'[p], NEW i \in Gone(q) PROVE Has(r, i)
  <2>1. i \in Nat /\ Has(c, i)
    BY <1>6, <1>9, <1>12 DEF Gone, Missing
  <2>. QED
    BY <1>7, <2>1 DEF Honest
<1>13. Promises(s)'
  BY <1>3, <1>5, <1>10, <1>11 DEF Promises, p
<1>14. Promises(p)'
  BY <1>1, <1>3, <1>6, <1>8, <1>9, <1>12 DEF Promises
<1>. QED
  BY <1>1, <1>13, <1>14 DEF PromiseInv

\* The network is empty and the Hellos are still kept.
LEMMA InitPromises == Init => PromiseInv /\ Fresh
<1>. SUFFICES ASSUME Init PROVE PromiseInv /\ Fresh
  OBVIOUS
<1>. DEFINE n == newConnection
<1>1. /\ n.udpConnected /\ n.udpNextSendIndex = 1 /\ DOMAIN n.udpSentPackets = {0}
      /\ n.udpConfirmationPackets = <<>>
  BY DEF newConnection, addPacket, onUdpSentBufferChanged, enable, disable, emptyMap
<1>. HIDE DEF n
<1>2. Gone(n) = {} /\ Queued(n) = {}
  BY <1>1 DEF Gone, Missing, Queued
<1>3. ASSUME NEW s \in Side PROVE Promises(s)
  <2>1. Peer(s) \in Side
    BY DEF Peer, Side
  <2>2. conn[s] = n /\ conn[Peer(s)] = n /\ net[s] = {} /\ ~aborted[s]
    BY <2>1 DEF Init, n
  <2>. QED
    BY <1>2, <2>2 DEF Promises
<1>4. Fresh
  BY DEF Init, Fresh, Side
<1>. QED
  BY <1>3, <1>4 DEF PromiseInv

\* The inductive invariant of a tunnel with one connection at the server.
TunnelInv == EndsInv /\ Fresh /\ PromiseInv

\* Every step keeps it.
LEMMA NextPromises ==
  ASSUME MaxConnections <= 1
  PROVE  TunnelInv /\ [Next]_vars => TunnelInv'
<1>. SUFFICES ASSUME TunnelInv, [Next]_vars PROVE TunnelInv'
  OBVIOUS
<1>1. EndsInv' /\ Fresh'
  BY NextEnds, FreshKept DEF TunnelInv
<1>2. PromiseInv'
  <2>1. CASE \E s \in Side : \E r, out : Turn(s, r, out)
    BY <1>1, <2>1, TurnKeepsPromises DEF TunnelInv
  <2>2. CASE UNCHANGED <<conn, net, hangup, aborted>>
    BY <2>2 DEF TunnelInv, PromiseInv, Promises
  <2>. QED
    BY <2>1, <2>2, NextTurnsOnce DEF TunnelInv
<1>. QED
  BY <1>1, <1>2 DEF TunnelInv

\* Neither end ever breaks a promise to its peer.
THEOREM PromisesHold ==
  ASSUME MaxConnections <= 1
  PROVE  Spec => []TunnelInv
<1>1. Init => TunnelInv
  BY InitEnds, InitPromises DEF TunnelInv
<1>2. TunnelInv /\ [Next]_vars => TunnelInv'
  BY NextPromises
<1>. QED
  BY <1>1, <1>2, PTL DEF Spec

\* udpReadConfirmation erases a packet only when the peer has it, however late
\* the confirmation comes and whatever overtakes it.
THEOREM ConfirmedAreReceived ==
  ASSUME MaxConnections <= 1
  PROVE  Spec => []ConfirmedIsReceived
<1>1. TunnelInv => ConfirmedIsReceived
  <2>. SUFFICES ASSUME TunnelInv, NEW s \in Side, conn[s].udpConnected,
                       NEW i \in 0 .. (conn[s].udpNextSendIndex - 1),
                       i \notin DOMAIN conn[s].udpSentPackets
                PROVE  Received(s, i)
    BY DEF ConfirmedIsReceived
  <2>1. conn[s].udpNextSendIndex \in Nat
    BY DEF TunnelInv, EndsInv, Good, LocalInv, Base, ConnectionType
  <2>2. i \in Nat /\ i < conn[s].udpNextSendIndex
    BY <2>1
  <2>3. i \in Gone(conn[s]) /\ ~aborted[s]
    BY <2>2 DEF Gone, Missing, TunnelInv, PromiseInv, Promises
  <2>. QED
    BY <2>3 DEF TunnelInv, PromiseInv, Promises, Has, Received
<1>. QED
  BY <1>1, PromisesHold, PTL

\* An end that finishes instead of giving up, by isUdpFinished, leaves nothing
\* behind that its peer has not received.
THEOREM FinishedAreReceived ==
  ASSUME MaxConnections <= 1
  PROVE  Spec => []FinishedIsReceived
<1>1. TunnelInv => FinishedIsReceived
  <2>. SUFFICES ASSUME TunnelInv, NEW s \in Side, ~conn[s].udpConnected, ~aborted[s],
                       NEW i \in 0 .. (conn[s].udpNextSendIndex - 1)
                PROVE  Received(s, i)
    BY DEF FinishedIsReceived
  <2>1. conn[s].udpNextSendIndex \in Nat
    BY DEF TunnelInv, EndsInv, Good, LocalInv, Base, ConnectionType
  <2>2. i \in Nat /\ i < conn[s].udpNextSendIndex
    BY <2>1
  <2>3. i \in Gone(conn[s])
    BY <2>2 DEF Gone
  <2>. QED
    BY <2>3 DEF TunnelInv, PromiseInv, Promises, Has, Received
<1>. QED
  BY <1>1, PromisesHold, PTL

-----------------------------------------------------------------------------
(* What TCP gets: c is an end, q its peer, and P what q has queued.         *)

InOrder(w) == \A k \in 1 .. Len(w) : w[k] = k - 1

\* Where packet k starts if no byte is missing before it.
startOf(P, k) == IF k = 0 THEN 0 ELSE P[k - 1].to

\* TCP has got the L bytes of the packets below k and of the first part of
\* packet k.  What was received behind them is as the peer queued it.
ReadTo(R, P, k, L) ==
  /\ \A j \in DOMAIN R : j > k => R[j].from = P[j].from
  /\ k \in DOMAIN R => R[k].from = L /\ P[k].from <= L /\ L <= P[k].to
  /\ k \notin DOMAIN R => L = startOf(P, k)

Follows(c, P, q) ==
  LET R == c.udpReceivedPackets
      w == c.tcpWritten
  IN  /\ \A i \in DOMAIN R : i \in DOMAIN P /\ SameEnd(R[i], P[i])
      /\ c.udpReceivedMasterIndex <= q.udpNextSendIndex
      /\ c.udpReceivedFinalIndex # INT_MAX =>
           /\ c.udpReceivedMasterIndex >= 1
           /\ P[c.udpReceivedMasterIndex - 1].type \in FinalTypes
      /\ InOrder(w) /\ Len(w) <= q.tcpReceivedData.to
      /\ c.tcpConnected => ReadTo(R, P, c.tcpNextSendIndex, Len(w))

\* The packets of q join without a gap.
Whole(P) == \A i \in DOMAIN P : P[i].from = startOf(P, i)

\* Whatever receives nothing and writes nothing.
LEMMA QuietFollows ==
  ASSUME NEW c, NEW P, NEW q, Follows(c, P, q), NEW d, Idle(c, d), SameReads(c, d)
  PROVE  Follows(d, P, q)
<1>. DEFINE R == c.udpReceivedPackets
            S == d.udpReceivedPackets
            k == c.tcpNextSendIndex
            L == Len(c.tcpWritten)
<1>1. \A i \in DOMAIN S : i \in DOMAIN R /\ SameEnd(S[i], R[i])
  BY DEF Idle
<1>2. \A i \in DOMAIN S : i \in DOMAIN P /\ SameEnd(S[i], P[i])
  BY <1>1 DEF Follows, SameEnd
<1>3. ASSUME d.tcpConnected PROVE ReadTo(S, P, k, L)
  <2>1. /\ ReadTo(R, P, k, L)
        /\ \A i \in DOMAIN S : S[i] = R[i]
        /\ k \in DOMAIN R => k \in DOMAIN S
    BY <1>3 DEF Follows, SameReads
  <2>. HIDE DEF R, S, k, L
  <2>. QED
    BY <1>1, <2>1 DEF ReadTo
<1>4. /\ d.tcpConnected => d.tcpNextSendIndex = k
      /\ d.tcpWritten = c.tcpWritten
      /\ d.udpReceivedMasterIndex = c.udpReceivedMasterIndex
      /\ d.udpReceivedFinalIndex = c.udpReceivedFinalIndex
  BY DEF SameReads, Idle
<1>. QED
  BY <1>2, <1>3, <1>4 DEF Follows

\* The peer queues more.
LEMMA FollowsOn ==
  ASSUME NEW c, ConnectionType(c), ReceivedKeptIn(c),
         NEW P, NEW q, Follows(c, P, q), Logged(q, P, 0),
         NEW Q, NEW r, Logged(r, Q, 0), Extends(P, Q),
         q.tcpReceivedData.to <= r.tcpReceivedData.to
  PROVE  Follows(c, Q, r)
<1>. DEFINE R == c.udpReceivedPackets
            k == c.tcpNextSendIndex
            L == Len(c.tcpWritten)
            master == c.udpReceivedMasterIndex
            n == q.udpNextSendIndex
            m == r.udpNextSendIndex
<1>1. /\ n \in Nat /\ m \in Nat /\ DOMAIN P = 0 .. (n - 1) /\ DOMAIN Q = 0 .. (m - 1)
      /\ n > 0 /\ q.tcpReceivedData.to \in Nat /\ r.tcpReceivedData.to \in Nat
  BY DEF Logged, PacketLog, Chunk
<1>2. k \in Nat /\ master \in Nat /\ k <= master /\ L \in Nat
  BY DEF ReceivedKeptIn, ConnectionType
<1>3. n <= m /\ master <= n /\ L <= q.tcpReceivedData.to
  <2>1. n - 1 \in 0 .. (m - 1)
    BY <1>1 DEF Extends
  <2>. QED
    BY <1>1, <2>1 DEF Follows
<1>4. \A i \in DOMAIN P : i \in DOMAIN Q /\ Q[i] = P[i]
  BY DEF Extends
<1>5. /\ k # 0 => k - 1 \in DOMAIN P
      /\ master >= 1 => master - 1 \in DOMAIN P
  BY <1>1, <1>2, <1>3
<1>6. \A i \in DOMAIN R : i \in DOMAIN P /\ SameEnd(R[i], P[i])
  BY DEF Follows
<1>7. ASSUME c.tcpConnected PROVE ReadTo(R, Q, k, L)
  <2>1. ReadTo(R, P, k, L)
    BY <1>7 DEF Follows
  <2>2. startOf(Q, k) = startOf(P, k)
    BY <1>4, <1>5 DEF startOf
  <2>. HIDE DEF R, k, L
  <2>. QED
    BY <1>4, <1>6, <2>1, <2>2 DEF ReadTo
<1>. QED
  BY <1>1, <1>2, <1>3, <1>4, <1>5, <1>6, <1>7 DEF Follows

\* Packet k has been written to its end, or passed over.
LEMMA ReadToNext ==
  ASSUME NEW P, Whole(P), NEW n \in Nat, P \in [0 .. (n - 1) -> ReceivedPacket],
         \A i \in DOMAIN P : P[i].from <= P[i].to,
         NEW R, NEW S, DOMAIN S = DOMAIN R, DOMAIN R \subseteq DOMAIN P,
         NEW k \in Nat,
         \A j \in DOMAIN R : j > k => S[j] = R[j] /\ R[j].from = P[j].from
  PROVE  ReadTo(S, P, k + 1, P[k].to)
<1>1. \A j \in DOMAIN S : j \in 0 .. (n - 1)
  OBVIOUS
<1>2. startOf(P, k + 1) = P[k].to
  BY DEF startOf
<1>3. ASSUME k + 1 \in DOMAIN S
      PROVE  S[k + 1].from = P[k].to /\ P[k + 1].from <= P[k].to /\ P[k].to <= P[k + 1].to
  <2>1. k + 1 \in DOMAIN P /\ S[k + 1].from = P[k + 1].from /\ P[k + 1].from = P[k].to
    BY <1>2, <1>3 DEF Whole
  <2>2. P[k + 1].from \in Nat
    BY <2>1 DEF ReceivedPacket
  <2>. QED
    BY <2>1, <2>2
<1>4. ASSUME NEW j \in DOMAIN S, j > k + 1 PROVE S[j].from = P[j].from
  <2>1. j \in Nat
    BY <1>1
  <2>. QED
    BY <1>4, <2>1
<1>. QED
  BY <1>2, <1>3, <1>4 DEF ReadTo

\* A packet of the peer arrives, and everything between it and the master index
\* is there already or not.
LEMMA StoresFollows ==
  ASSUME NEW c, ConnectionType(c), ReceivedKeptIn(c), FinalIsMasterIn(c),
         NEW P, NEW q, Follows(c, P, q), Logged(q, P, 0), c.tcpConnected => Whole(P),
         NEW m \in Datagram, m.index \in DOMAIN P, SamePacket(m, P[m.index]),
         NEW d, Stores(c, d, m)
  PROVE  Follows(d, P, q)
<1>. DEFINE R == c.udpReceivedPackets
            S == d.udpReceivedPackets
            k == c.tcpNextSendIndex
            L == Len(c.tcpWritten)
            i == m.index
            n == q.udpNextSendIndex
            old == c.udpReceivedMasterIndex
            new == d.udpReceivedMasterIndex
<1>1. /\ n \in Nat /\ n > 0 /\ P \in [0 .. (n - 1) -> ReceivedPacket]
      /\ \A j \in DOMAIN P : P[j].from <= P[j].to
  <2>1. PacketLog(q, P, 0)
    BY DEF Logged
  <2>2. P[0].from <= P[0].to
    BY <2>1 DEF PacketLog, Hello
  <2>. QED
    BY <2>1, <2>2 DEF PacketLog
<1>2. k \in Nat /\ old \in Nat /\ k <= old /\ L \in Nat /\ i \in Nat /\ i >= old
  BY DEF ReceivedKeptIn, ConnectionType, Stores, acceptable, Datagram
<1>3. /\ DOMAIN S = DOMAIN R \cup {i} /\ i \notin DOMAIN R
      /\ \A j \in DOMAIN R : S[j] = R[j]
      /\ S[i].type = m.type /\ S[i].from = m.from /\ S[i].to = m.to
      /\ new \in Nat /\ old <= new /\ old .. (new - 1) \subseteq DOMAIN S
      /\ d.tcpConnected = c.tcpConnected /\ d.tcpWritten = c.tcpWritten
      /\ d.tcpConnected => d.tcpNextSendIndex = k
  BY DEF Stores
<1>4. /\ \A j \in DOMAIN R : j \in DOMAIN P /\ SameEnd(R[j], P[j])
      /\ old <= n /\ InOrder(c.tcpWritten) /\ L <= q.tcpReceivedData.to
      /\ c.tcpConnected => ReadTo(R, P, k, L)
  BY DEF Follows
<1>5. P[i].type = m.type /\ P[i].from = m.from /\ P[i].to = m.to
  BY DEF SamePacket
<1>6. \A j \in DOMAIN S : j \in DOMAIN P /\ SameEnd(S[j], P[j])
  BY <1>3, <1>4, <1>5 DEF SameEnd
<1>7. new <= n
  <2>1. CASE new = old
    BY <1>4, <2>1
  <2>2. CASE new # old
    <3>1. new - 1 \in old .. (new - 1)
      BY <1>2, <1>3, <2>2
    <3>2. new - 1 \in DOMAIN P
      BY <1>3, <1>6, <3>1
    <3>. QED
      BY <1>1, <1>3, <3>2
  <2>. QED
    BY <2>1, <2>2
<1>8. ASSUME d.udpReceivedFinalIndex # INT_MAX
      PROVE  new >= 1 /\ P[new - 1].type \in FinalTypes
  <2>1. d.udpReceivedFinalIndex # c.udpReceivedFinalIndex
    BY <1>8 DEF Stores, FinalIsMasterIn, finalReceived
  <2>2. new > old /\ S[new - 1].type \in FinalTypes
    BY <2>1 DEF Stores
  <2>3. new - 1 \in DOMAIN S
    BY <1>2, <1>3, <2>2
  <2>. QED
    BY <1>2, <1>3, <1>6, <2>2, <2>3 DEF SameEnd
<1>9. ASSUME d.tcpConnected PROVE ReadTo(S, P, k, L)
  <2>1. ReadTo(R, P, k, L) /\ Whole(P)
    BY <1>3, <1>4, <1>9
  <2>2. CASE i = k
    <3>1. L = P[i].from
      BY <1>3, <2>1, <2>2 DEF ReadTo, Whole
    <3>2. P[i].from <= L /\ L <= P[i].to
      BY <1>1, <1>2, <3>1
    <3>. HIDE DEF R, S, k, L, i
    <3>3. \A j \in DOMAIN S : j > k => S[j].from = P[j].from
      BY <1>2, <1>3, <2>1, <2>2 DEF ReadTo
    <3>. QED
      BY <1>2, <1>3, <1>5, <2>2, <3>1, <3>2, <3>3 DEF ReadTo
  <2>3. CASE i # k
    <3>. HIDE DEF R, S, k, L, i
    <3>. QED
      BY <1>3, <1>5, <2>1, <2>3 DEF ReadTo
  <2>. QED
    BY <2>2, <2>3
<1>. QED
  BY <1>3, <1>4, <1>6, <1>7, <1>8, <1>9 DEF Follows

\* tcpWrite finds the next packet: a Hello carries nothing and is passed over.
LEMMA PassesHello ==
  ASSUME NEW c, ConnectionType(c), ReceivedKeptIn(c),
         NEW P, NEW q, Follows(c, P, q), Logged(q, P, 0), Whole(P), c.tcpConnected
  PROVE  LET k == toWrite(c)
         IN  /\ k \in Nat
             /\ ReadTo(c.udpReceivedPackets, P, k, Len(c.tcpWritten))
             /\ k < c.udpReceivedMasterIndex => k \in DOMAIN c.udpReceivedPackets
<1>. DEFINE R == c.udpReceivedPackets
            k == c.tcpNextSendIndex
            L == Len(c.tcpWritten)
            n == q.udpNextSendIndex
            master == c.udpReceivedMasterIndex
            t == toWrite(c)
<1>1. PacketLog(q, P, 0)
  BY DEF Logged
<1>2. /\ n \in Nat /\ n > 0 /\ P \in [0 .. (n - 1) -> ReceivedPacket]
      /\ \A j \in DOMAIN P : P[j].from <= P[j].to
      /\ P[0] = Hello /\ \A j \in DOMAIN P : j # 0 => P[j].type # "Hello"
  BY <1>1 DEF PacketLog, Hello
<1>3. /\ k \in Nat /\ master \in Nat /\ L \in Nat
      /\ \A j \in Nat : k <= j /\ j < master => j \in DOMAIN R
  BY DEF ReceivedKeptIn, ConnectionType
<1>4. /\ \A j \in DOMAIN R : j \in DOMAIN P /\ SameEnd(R[j], P[j])
      /\ ReadTo(R, P, k, L)
  BY DEF Follows
<1>5. /\ t = k \/ (t = k + 1 /\ k < master /\ R[k].type = "Hello")
  BY DEF toWrite
<1>. HIDE DEF R, L, n, master, t, k
<1>6. CASE t = k
  BY <1>3, <1>4, <1>6 DEF R, L, master, t
<1>7. CASE t = k + 1 /\ k < master /\ R[k].type = "Hello"
  <2>1. k \in DOMAIN R
    BY <1>3, <1>7
  <2>2. k \in DOMAIN P /\ P[k].type = "Hello"
    BY <1>4, <1>7, <2>1 DEF SameEnd
  <2>3. k = 0 /\ P[0].to = 0 /\ P[0].from = 0
    BY <1>2, <2>2 DEF Hello
  <2>4. L = P[k].to
    BY <1>3, <1>4, <2>1, <2>3 DEF ReadTo
  <2>5. \A j \in DOMAIN R : j > k => R[j] = R[j] /\ R[j].from = P[j].from
    BY <1>4 DEF ReadTo
  <2>6. ReadTo(R, P, k + 1, P[k].to)
    BY <1>2, <1>3, <1>4, <2>5, ReadToNext
  <2>7. k + 1 \in Nat /\ (k + 1 < master => k + 1 \in DOMAIN R)
    BY <1>3
  <2>. QED
    BY <1>7, <2>4, <2>6, <2>7 DEF R, L, master, t
<1>. QED
  BY <1>5, <1>6, <1>7

\* tcpWrite writes nothing.
LEMMA SkipsFollows ==
  ASSUME NEW c, ConnectionType(c), ReceivedKeptIn(c),
         NEW P, NEW q, Follows(c, P, q), Logged(q, P, 0), c.tcpConnected => Whole(P),
         NEW d, Skips(c, d)
  PROVE  Follows(d, P, q)
<1>1. c.tcpConnected /\ Idle(c, d)
  BY DEF Skips, Advances
<1>2. ReadTo(d.udpReceivedPackets, P, d.tcpNextSendIndex, Len(d.tcpWritten))
  BY <1>1, PassesHello DEF Skips
<1>. QED
  BY <1>1, <1>2 DEF Follows, Skips, Idle

\* Bytes behind those that TCP has got.
LEMMA InOrderAppend ==
  ASSUME NEW w \in Seq(Nat), InOrder(w), NEW size \in Nat
  PROVE  LET v == w \o [j \in 1 .. size |-> Len(w) + j - 1]
         IN  v \in Seq(Nat) /\ Len(v) = Len(w) + size /\ InOrder(v)
<1>. DEFINE x == [j \in 1 .. size |-> Len(w) + j - 1]
            v == w \o x
            n == Len(w)
<1>1. n \in Nat
  OBVIOUS
<1>2. x \in Seq(Nat) /\ Len(x) = size /\ \A j \in 1 .. size : x[j] = n + j - 1
  <2>1. \A j \in 1 .. size : n + j - 1 \in Nat
    BY <1>1
  <2>2. x \in [1 .. size -> Nat]
    BY <2>1
  <2>. QED
    BY <2>2
<1>. HIDE DEF x
<1>3. /\ v \in Seq(Nat) /\ Len(v) = n + size
      /\ \A k \in 1 .. (n + size) : v[k] = IF k <= n THEN w[k] ELSE x[k - n]
  <2>1. /\ v \in Seq(Nat) /\ Len(v) = Len(w) + Len(x)
        /\ \A k \in 1 .. (Len(w) + Len(x)) : v[k] = IF k <= Len(w) THEN w[k] ELSE x[k - Len(w)]
    BY <1>2, ConcatProperties, Zenon
  <2>. QED
    BY <1>2, <2>1
<1>. HIDE DEF v
<1>4. ASSUME NEW k \in 1 .. (n + size) PROVE v[k] = k - 1
  <2>1. CASE k <= n
    <3>1. v[k] = w[k] /\ k \in 1 .. Len(w)
      BY <1>1, <1>3, <2>1
    <3>. QED
      BY <3>1 DEF InOrder
  <2>2. CASE k > n
    <3>. HIDE DEF n
    <3>1. v[k] = x[k - n] /\ k - n \in 1 .. size /\ k \in Int
      BY <1>1, <1>3, <2>2
    <3>2. x[k - n] = n + (k - n) - 1
      BY <1>2, <3>1
    <3>. QED
      BY <1>1, <3>1, <3>2
  <2>. QED
    BY <1>1, <2>1, <2>2
<1>5. InOrder(v)
  BY <1>3, <1>4 DEF InOrder
<1>6. Len(v) = Len(w) + size
  BY <1>3 DEF n
<1>. QED
  BY <1>3, <1>5, <1>6 DEF x, v, n

\* tcpWrite writes size bytes of the next packet: they are the next of the
\* stream.
LEMMA WritesFollows ==
  ASSUME NEW c, ConnectionType(c), ReceivedKeptIn(c),
         NEW P, NEW q, Follows(c, P, q), Logged(q, P, 0), c.tcpConnected => Whole(P),
         NEW d, NEW size \in Int, Writes(c, d, size)
  PROVE  /\ Follows(d, P, q)
         /\ size \in Nat
         /\ d.tcpWritten = c.tcpWritten \o [j \in 1 .. size |-> Len(c.tcpWritten) + j - 1]
<1>. DEFINE R == c.udpReceivedPackets
            S == d.udpReceivedPackets
            k == toWrite(c)
            w == c.tcpWritten
            L == Len(w)
            p == R[k]
            n == q.udpNextSendIndex
            next == [type |-> p.type, from |-> p.from + size, to |-> p.to]
<1>0. c.tcpConnected /\ Idle(c, d) /\ d.tcpConnected /\ Whole(P)
  BY DEF Writes, Advances
<1>1. PacketLog(q, P, 0)
  BY DEF Logged
<1>2. /\ n \in Nat /\ n > 0 /\ P \in [0 .. (n - 1) -> ReceivedPacket]
      /\ \A j \in DOMAIN P : P[j].from <= P[j].to /\ P[j].to <= q.tcpReceivedData.to
      /\ q.tcpReceivedData.to \in Nat
  <2>1. /\ n \in Nat /\ n > 0 /\ P \in [0 .. (n - 1) -> ReceivedPacket]
        /\ \A j \in 1 .. (n - 1) : P[j].from <= P[j].to /\ P[j].to <= q.tcpReceivedData.to
        /\ q.tcpReceivedData.to \in Nat /\ P[0].from = 0 /\ P[0].to = 0
    BY <1>1 DEF PacketLog, Hello, Chunk
  <2>2. \A j \in DOMAIN P : j = 0 \/ j \in 1 .. (n - 1)
    BY <2>1
  <2>. QED
    BY <2>1, <2>2
<1>3. /\ k \in Nat /\ k \in DOMAIN R /\ w \in Seq(Nat)
      /\ ReadTo(R, P, k, L)
  BY <1>0, PassesHello DEF Writes, ConnectionType
<1>4. /\ \A j \in DOMAIN R : j \in DOMAIN P /\ SameEnd(R[j], P[j])
      /\ InOrder(w)
  BY DEF Follows
<1>5. /\ size <= p.to - p.from
      /\ size # p.to - p.from => size \in Nat
      /\ d.tcpNextSendIndex = IF p.from + size = p.to THEN k + 1 ELSE k
      /\ S = [R EXCEPT ![k] = next]
      /\ d.tcpWritten = w \o [j \in 1 .. size |-> p.from + j - 1]
  BY DEF Writes
<1>6. /\ p.from = L /\ P[k].from <= L /\ L <= P[k].to /\ P[k].to = p.to
      /\ L \in Nat /\ P[k].to \in Nat /\ P[k].from \in Nat
      /\ P[k].to <= q.tcpReceivedData.to
  BY <1>2, <1>3, <1>4 DEF ReadTo, SameEnd, ReceivedPacket
<1>7. \A j \in DOMAIN S : j \in DOMAIN P /\ SameEnd(S[j], P[j])
  BY <1>0, <1>4 DEF Idle, SameEnd
<1>. DEFINE v == d.tcpWritten
            to == P[k].to
            x == L + size
<1>8. /\ size \in Nat /\ x \in Nat /\ x <= to
      /\ p.from + size = p.to <=> x = to
  <2>. DEFINE pf == p.from
              pt == p.to
              l == L
              t == to
  <2>1. /\ l \in Nat /\ t \in Nat /\ l <= t /\ pf = l /\ pt = t
        /\ size <= pt - pf /\ (size # pt - pf => size \in Nat)
    BY <1>5, <1>6
  <2>. HIDE DEF l, t, pf, pt
  <2>2. size \in Nat /\ l + size \in Nat /\ l + size <= t /\ (pf + size = pt <=> l + size = t)
    BY <2>1
  <2>. QED
    BY <2>2 DEF l, t, pf, pt
<1>9. /\ v = w \o [j \in 1 .. size |-> Len(w) + j - 1]
      /\ InOrder(v) /\ Len(v) = x
  <2>1. v = w \o [j \in 1 .. size |-> Len(w) + j - 1]
    BY <1>5, <1>6
  <2>. HIDE DEF v, w
  <2>. QED
    BY <1>3, <1>4, <1>8, <2>1, InOrderAppend
<1>10. x <= q.tcpReceivedData.to
  <2>1. to \in Nat /\ to <= q.tcpReceivedData.to
    BY <1>6
  <2>. HIDE DEF to, x
  <2>. QED
    BY <1>2, <1>8, <2>1
<1>11. DOMAIN S = DOMAIN R /\ S[k] = next /\ \A j \in DOMAIN R : j # k => S[j] = R[j]
  BY <1>3, <1>5
<1>12. next.from = x
  BY <1>6
<1>13. ReadTo(S, P, d.tcpNextSendIndex, x)
  <2>. HIDE DEF S, R, k, x, next
  <2>1. \A j \in DOMAIN R : j > k => S[j] = R[j] /\ R[j].from = P[j].from
    BY <1>3, <1>11 DEF ReadTo
  <2>2. CASE x = to
    <3>1. d.tcpNextSendIndex = k + 1
      BY <1>5, <1>8, <2>2
    <3>2. DOMAIN R \subseteq DOMAIN P
      BY <1>4
    <3>3. ReadTo(S, P, k + 1, P[k].to)
      BY <1>0, <1>2, <1>3, <1>11, <2>1, <3>2, ReadToNext
    <3>. QED
      BY <2>2, <3>1, <3>3
  <2>3. CASE x # to
    <3>1. d.tcpNextSendIndex = k
      BY <1>5, <1>8, <2>3
    <3>2. P[k].from <= x
      <4>1. L \in Nat /\ P[k].from \in Nat /\ P[k].from <= L /\ x = L + size
        BY <1>6 DEF x
      <4>. HIDE DEF L
      <4>. QED
        BY <1>8, <4>1
    <3>3. \A j \in DOMAIN S : j > k => S[j].from = P[j].from
      BY <1>11, <2>1
    <3>. QED
      BY <1>3, <1>8, <1>11, <1>12, <3>1, <3>2, <3>3 DEF ReadTo
  <2>. QED
    BY <2>2, <2>3
<1>14. /\ d.udpReceivedMasterIndex = c.udpReceivedMasterIndex
       /\ d.udpReceivedFinalIndex = c.udpReceivedFinalIndex
  BY <1>0 DEF Idle
<1>15. Follows(d, P, q)
  <2>. HIDE DEF x
  <2>. QED
    BY <1>7, <1>9, <1>10, <1>13, <1>14 DEF Follows
<1>. QED
  BY <1>8, <1>9, <1>15

\* Nothing is left of the stream of q, and no more will come.
AtEnd(c, q) == Len(c.tcpWritten) = q.tcpReceivedData.to /\ ~q.tcpConnected

\* tcpWrite closes TCP for a Bye or a Disconnect behind the last byte.
LEMMA EndsAtEnd ==
  ASSUME NEW c, ConnectionType(c), ReceivedKeptIn(c),
         NEW P, NEW q, Follows(c, P, q), Logged(q, P, 0), c.tcpConnected => Whole(P),
         NEW d, Ends(c, d)
  PROVE  AtEnd(c, q)
<1>. DEFINE R == c.udpReceivedPackets
            k == toWrite(c)
            L == Len(c.tcpWritten)
            n == q.udpNextSendIndex
            to == q.tcpReceivedData.to
<1>1. /\ c.tcpConnected /\ Whole(P)
      /\ k < c.udpReceivedMasterIndex
      /\ R[k].type \in FinalTypes
  BY DEF Ends
<1>2. k \in Nat /\ ReadTo(R, P, k, L) /\ k \in DOMAIN R
  BY <1>1, PassesHello
<1>3. k \in DOMAIN P /\ P[k].type \in FinalTypes
  BY <1>1, <1>2 DEF Follows, SameEnd
<1>4. PacketLog(q, P, 0)
  BY DEF Logged
<1>5. n \in Nat /\ DOMAIN P = 0 .. (n - 1) /\ P[0].type = "Hello"
  BY <1>4 DEF PacketLog, Hello
<1>6. k \in 1 .. (n - 1)
  <2>1. k # 0
    BY <1>3, <1>5 DEF FinalTypes
  <2>. HIDE DEF k
  <2>. QED
    BY <1>2, <1>3, <1>5, <2>1
<1>. HIDE DEF k
<1>7. ~q.tcpConnected /\ P[k].from = to /\ P[k].to <= to /\ P[k].to \in Nat /\ to \in Nat
  <2>1. P \in [0 .. (n - 1) -> ReceivedPacket] /\ q.tcpReceivedData \in Chunk
    BY <1>4 DEF PacketLog
  <2>2. P[k].to \in Nat /\ to \in Nat
    BY <1>3, <1>5, <2>1 DEF ReceivedPacket, Chunk
  <2>. QED
    BY <1>3, <1>4, <1>6, <2>2 DEF PacketLog
<1>8. P[k].from <= L /\ L <= P[k].to /\ L \in Nat
  BY <1>2 DEF ReadTo, ConnectionType
<1>9. L = to
  <2>. DEFINE pt == P[k].to
  <2>1. to <= L /\ L <= pt /\ pt <= to /\ pt \in Nat
    BY <1>7, <1>8
  <2>. HIDE DEF L, pt, to
  <2>. QED
    BY <1>7, <1>8, <2>1
<1>. QED
  BY <1>7, <1>9 DEF AtEnd

\* udpClose by isUdpFinished closes TCP only behind the last byte.
LEMMA FinishesAtEnd ==
  ASSUME NEW c, c.tcpNextSendIndex \in Nat, c.udpReceivedMasterIndex \in Nat,
         c.tcpConnected => c.tcpNextSendIndex <= c.udpReceivedMasterIndex,
         NEW P, NEW q, Follows(c, P, q), Logged(q, P, 0),
         q.udpNextSendIndex < INT_MAX,
         NEW d, Finishes(c, d), c.tcpConnected
  PROVE  AtEnd(c, q)
<1>. DEFINE R == c.udpReceivedPackets
            k == c.tcpNextSendIndex
            master == c.udpReceivedMasterIndex
            L == Len(c.tcpWritten)
            n == q.udpNextSendIndex
            to == q.tcpReceivedData.to
            i == master - 1
<1>1. k >= master /\ c.udpReceivedFinalIndex = master
  BY DEF Finishes, isNoMoreDataWillBeSent, finalReceived
<1>2. /\ \A j \in DOMAIN R : j \in DOMAIN P
      /\ master <= n
      /\ c.udpReceivedFinalIndex # INT_MAX => master >= 1 /\ P[i].type \in FinalTypes
      /\ ReadTo(R, P, k, L)
  BY DEF Follows
<1>3. PacketLog(q, P, 0)
  BY DEF Logged
<1>4. /\ n \in Nat /\ P \in [0 .. (n - 1) -> ReceivedPacket] /\ P[0].type = "Hello"
      /\ q.tcpReceivedData \in Chunk /\ to \in Nat
  BY <1>3 DEF PacketLog, Hello, Chunk
<1>5. k = master
  <2>. HIDE DEF k, master
  <2>1. k \in Nat /\ master \in Nat /\ k <= master
    BY DEF k, master
  <2>. QED
    BY <1>1, <2>1
<1>6. /\ master >= 1 /\ P[i].type \in FinalTypes
      /\ i \in 0 .. (n - 1)
  <2>. HIDE DEF master, n
  <2>1. master \in Nat
    BY DEF master
  <2>2. master # INT_MAX
    BY <1>2, <1>4, <2>1, IntMaxAssumption DEF n
  <2>. QED
    BY <1>1, <1>2, <1>4, <2>1, <2>2
<1>7. i \in 1 .. (n - 1)
  <2>1. i # 0
    BY <1>4, <1>6 DEF FinalTypes
  <2>. HIDE DEF i
  <2>. QED
    BY <1>6, <2>1
<1>8. /\ i = n - 1 /\ ~q.tcpConnected /\ P[i].from = to
      /\ P[i].from <= P[i].to /\ P[i].to <= to
  <2>. HIDE DEF i
  <2>. QED
    BY <1>3, <1>6, <1>7 DEF PacketLog
<1>9. P[i].to = to
  <2>. DEFINE pt == P[i].to
  <2>1. pt \in Nat /\ to <= pt /\ pt <= to
    BY <1>4, <1>6, <1>8 DEF ReceivedPacket
  <2>. HIDE DEF pt, to
  <2>2. pt = to
    BY <1>4, <2>1
  <2>. QED
    BY <2>2 DEF pt
<1>10. k \notin DOMAIN R /\ k # 0
  <2>1. master = n
    <3>. HIDE DEF master, n
    <3>. QED
      BY <1>4, <1>6, <1>8 DEF master, n
  <2>2. n \notin DOMAIN P
    BY <1>4
  <2>. QED
    BY <1>2, <1>5, <1>6, <2>1, <2>2
<1>11. L = P[i].to
  BY <1>2, <1>5, <1>10 DEF ReadTo, startOf
<1>. QED
  BY <1>8, <1>9, <1>11 DEF AtEnd
\* Each kind of step of c passes on the stream of its peer.
LEMMA KindFollows ==
  ASSUME NEW s, NEW c, Good(c), NEW r, Kind(s, c, r),
         NEW P, NEW q, Follows(c, P, q), Logged(q, P, 0), c.tcpConnected => Whole(P),
         q.udpNextSendIndex < INT_MAX,
         \A m \in net[s] : m \in Datagram /\ (m.type \in DataTypes =>
                             m.index \in DOMAIN P /\ SamePacket(m, P[m.index]))
  PROVE  /\ Follows(r, P, q)
         /\ Finishes(c, r) \/ Reads(s, c, r)
              => r.tcpConnected = c.tcpConnected \/ ~c.tcpConnected \/ AtEnd(c, q)
<1>0. /\ ConnectionType(c) /\ ReceivedKeptIn(c) /\ FinalIsMasterIn(c)
      /\ c.tcpNextSendIndex \in Nat /\ c.udpReceivedMasterIndex \in Nat
      /\ c.tcpNextSendIndex <= c.udpReceivedMasterIndex
  BY DEF Good, LocalInv, Base, ReceivedKeptIn, ConnectionType
<1>1. ASSUME GivesUp(s, c, r) \/ Plain(c, r) \/ Finishes(c, r) PROVE Follows(r, P, q)
  BY <1>1, QuietFollows DEF GivesUp, Plain, Finishes, Closes
<1>2. ASSUME WritesTcp(c, r) PROVE Follows(r, P, q)
  BY <1>0, <1>2, SkipsFollows, WritesFollows DEF WritesTcp
<1>3. ASSUME Finishes(c, r), c.tcpConnected PROVE AtEnd(c, q)
  BY <1>0, <1>3, FinishesAtEnd
<1>4. ASSUME Reads(s, c, r)
      PROVE  /\ Follows(r, P, q)
             /\ r.tcpConnected = c.tcpConnected \/ ~c.tcpConnected \/ AtEnd(c, q)
  <2>0. PICK m \in net[s] : \E d : ReadsAs(c, r, m, d)
    BY <1>4 DEF Reads
  <2>1. PICK d : /\ \/ Silent(c, d) \/ Hears(c, d, m) \/ Stores(c, d, m)
                 /\ r = d \/ Finishes(d, r)
    BY <2>0 DEF ReadsAs
  <2>2. Follows(d, P, q)
    <3>1. CASE Silent(c, d) \/ Hears(c, d, m)
      BY <3>1, QuietFollows DEF Silent, Stays, Hears
    <3>2. CASE Stores(c, d, m)
      <4>1. m \in Datagram /\ m.index \in DOMAIN P /\ SamePacket(m, P[m.index])
        BY <3>2 DEF Stores, acceptable
      <4>. QED
        BY <1>0, <3>2, <4>1, StoresFollows
    <3>. QED
      BY <2>1, <3>1, <3>2
  <2>3. /\ d.tcpConnected = c.tcpConnected /\ d.tcpWritten = c.tcpWritten
        /\ d.udpReceivedMasterIndex \in Nat
        /\ d.tcpConnected => /\ d.tcpNextSendIndex = c.tcpNextSendIndex
                             /\ d.tcpNextSendIndex <= d.udpReceivedMasterIndex
    <3>1. CASE Silent(c, d) \/ Hears(c, d, m)
      BY <1>0, <3>1 DEF Silent, Stays, Hears, Idle, SameReads
    <3>2. CASE Stores(c, d, m)
      BY <1>0, <3>2 DEF Stores
    <3>. QED
      BY <2>1, <3>1, <3>2
  <2>4. CASE r = d
    BY <2>2, <2>3, <2>4
  <2>5. CASE Finishes(d, r)
    <3>1. Follows(r, P, q)
      BY <2>2, <2>5, QuietFollows DEF Finishes, Closes
    <3>2. ASSUME c.tcpConnected PROVE AtEnd(c, q)
      <4>1. AtEnd(d, q)
        BY <1>0, <2>2, <2>3, <2>5, <3>2, FinishesAtEnd
      <4>. QED
        BY <2>3, <4>1 DEF AtEnd
    <3>. QED
      BY <3>1, <3>2
  <2>. QED
    BY <2>1, <2>4, <2>5
<1>. QED
  BY <1>1, <1>2, <1>3, <1>4 DEF Kind

\* No data packet ever waits among the confirmations.
LEMMA KindQueues ==
  ASSUME NEW s, NEW c, NEW r, Kind(s, c, r),
         \A m \in Queued(c) : m.type \notin DataTypes
  PROVE  \A m \in Queued(r) : m.type \notin DataTypes
<1>1. ASSUME NEW d, \A m \in Queued(d) : m.type \notin DataTypes,
             NEW e, Finishes(d, e) \/ GivesUp(s, d, e)
      PROVE  \A m \in Queued(e) : m.type \notin DataTypes
  BY <1>1 DEF Finishes, GivesUp, Closes, Tells
<1>2. ASSUME NEW d, Sends(c, d) PROVE \A m \in Queued(d) : m.type \notin DataTypes
  BY <1>2 DEF Sends, Tells
<1>3. CASE Reads(s, c, r)
  <2>0. PICK m \in net[s] : \E d : ReadsAs(c, r, m, d)
    BY <1>3 DEF Reads
  <2>1. PICK d : /\ \/ Silent(c, d) \/ Hears(c, d, m) \/ Stores(c, d, m)
                 /\ r = d \/ Finishes(d, r)
    BY <2>0 DEF ReadsAs
  <2>2. \A p \in Queued(d) : p.type \notin DataTypes
    <3>1. CASE Silent(c, d)
      BY <1>2, <3>1 DEF Silent, Stays
    <3>2. CASE Hears(c, d, m)
      BY <3>2 DEF Hears, Tells
    <3>3. CASE Stores(c, d, m)
      BY <3>3 DEF Stores, Queued
    <3>. QED
      BY <2>1, <3>1, <3>2, <3>3
  <2>. QED
    BY <1>1, <2>1, <2>2
<1>4. CASE Plain(c, r) \/ WritesTcp(c, r)
  BY <1>2, <1>4 DEF Plain, WritesTcp, Skips, Writes, Advances
<1>. QED
  BY <1>1, <1>3, <1>4 DEF Kind

-----------------------------------------------------------------------------
(* The stream of each end in the packets that its peer has not read yet.    *)

\* What its peer q has queued, the datagrams on their way to s, and what s has
\* received and written to TCP agree.
Agrees(s) ==
  \E P : /\ Logged(conn[Peer(s)], P, 0)
         /\ \A m \in net[s] : m.type \in DataTypes =>
              m.index \in DOMAIN P /\ SamePacket(m, P[m.index])
         /\ Follows(conn[s], P, conn[Peer(s)])

\* No end has read more than its TCP host sends.
ShortStreams == \A s \in Side : conn[s].tcpReceivedData.to <= StreamLen[s]

\* TCP is closed for writing only after a hangup or an error.
SocketInv ==
  \A s \in Side :
    conn[s].tcpConnected /\ ~conn[s].socketWrite => hangup[s] \/ conn[s].socketError

\* No data packet ever waits among the confirmations.
QueueInv == \A s \in Side : \A m \in Queued(conn[s]) : m.type \notin DataTypes

StreamInv ==
  opened <= 1 /\ ShortStreams /\ SocketInv /\ QueueInv /\ \A s \in Side : Agrees(s)

\* As many packets as a stream has bytes, and a Hello and a Bye, can be counted.
ShortEnough == \A s \in Side : StreamLen[s] + 2 < INT_MAX

\* So the indices of packets stay below the final index of an open stream.
LEMMA IndexIsBounded ==
  ASSUME NEW c, NEW P, Logged(c, P, 0), NEW n \in Nat, c.tcpReceivedData.to <= n,
         n + 2 < INT_MAX
  PROVE  c.udpNextSendIndex < INT_MAX /\ c.udpNextSendIndex \in Nat
<1>. DEFINE i == c.udpNextSendIndex
            from == c.tcpReceivedData.from
            to == c.tcpReceivedData.to
            extra == IF P[i - 1].type \in FinalTypes THEN 2 ELSE 1
<1>1. /\ i \in Nat /\ from \in Nat /\ to \in Nat /\ from <= to
      /\ i + 0 <= from + extra /\ extra \in {1, 2}
  BY DEF Logged, PacketLog, Chunk
<1>. HIDE DEF i, from, extra
<1>2. i < INT_MAX
  <2>1. to <= n
    OBVIOUS
  <2>. HIDE DEF to
  <2>. QED
    BY <1>1, <2>1, IntMaxAssumption
<1>. QED
  BY <1>1, <1>2 DEF i

\* While TCP is open at one end, the other goes on queuing what it reads.
LEMMA WholeWhileOpen ==
  ASSUME NEW c, NEW Q, Logged(c, Q, 0), c.tcpConnected, c.udpNextSendIndex < INT_MAX,
         NEW q, NEW P, Logged(q, P, 0), Follows(q, Q, c), q.udpReceivedMasterIndex \in Nat
  PROVE  Whole(P)
<1>. DEFINE master == q.udpReceivedMasterIndex
            n == c.udpNextSendIndex
            i == master - 1
<1>1. ~finalReceived(q)
  <2>. SUFFICES ASSUME finalReceived(q) PROVE FALSE
    OBVIOUS
  <2>1. PacketLog(c, Q, 0)
    BY DEF Logged
  <2>2. n \in Nat /\ Q[0].type = "Hello"
    BY <2>1 DEF PacketLog, Hello
  <2>3. /\ q.udpReceivedFinalIndex = master /\ master <= n /\ master \in Nat
        /\ q.udpReceivedFinalIndex # INT_MAX => master >= 1 /\ Q[i].type \in FinalTypes
    BY DEF finalReceived, Follows
  <2>4. master # INT_MAX
    <3>1. n < INT_MAX
      OBVIOUS
    <3>. HIDE DEF master, n
    <3>. QED
      BY <2>2, <2>3, <3>1, IntMaxAssumption
  <2>5. master >= 1 /\ Q[i].type \in FinalTypes
    BY <2>3, <2>4
  <2>6. i # 0
    BY <2>2, <2>5 DEF FinalTypes
  <2>7. i \in 1 .. (n - 1)
    <3>. HIDE DEF master, n
    <3>. QED
      BY <2>2, <2>3, <2>5, <2>6
  <2>. HIDE DEF i
  <2>. QED
    BY <2>1, <2>5, <2>7 DEF PacketLog
<1>2. PacketLog(q, P, 0)
  BY DEF Logged
<1>. DEFINE k == q.udpNextSendIndex
<1>3. k \in Nat /\ DOMAIN P = 0 .. (k - 1) /\ P[0].to = 0 /\ P[0].from = 0
  BY <1>2 DEF PacketLog, Hello
<1>4. \A j \in 1 .. (k - 1) : P[j].from = endOf(P, 0, j - 1)
  BY <1>1, <1>2 DEF PacketLog
<1>. HIDE DEF k
<1>5. ASSUME NEW j \in DOMAIN P PROVE P[j].from = startOf(P, j)
  <2>1. CASE j = 0
    BY <1>3, <2>1 DEF startOf
  <2>2. CASE j # 0
    <3>1. j \in 1 .. (k - 1)
      BY <1>3, <1>5, <2>2
    <3>2. P[j].from = endOf(P, 0, j - 1)
      BY <1>4, <3>1
    <3>3. j - 1 = 0 => P[j - 1].to = 0
      BY <1>3
    <3>. QED
      BY <2>2, <3>2, <3>3 DEF endOf, startOf
  <2>. QED
    BY <2>1, <2>2
<1>. QED
  BY <1>5 DEF Whole

\* The steps that the TCP hosts see, one by one.
LEMMA ShowsOne ==
  ASSUME NEW s, NEW c, NEW r, Shows(s, c, r)
  PROVE  \/ Loses(s, c, r)
         \/ /\ hangup' = hangup /\ aborted' = aborted
            /\ SameSocket(c, r) /\ (r.tcpConnected => c.tcpConnected)
            /\ \/ Takes(s, c, r)
               \/ /\ r.tcpReceivedData.to = c.tcpReceivedData.to
                  /\ \/ \E size \in Int : size <= udpSendPacketSize /\ Writes(c, r, size)
                     \/ /\ r.tcpWritten = c.tcpWritten
                        /\ \/ (r.tcpConnected <=> c.tcpConnected) \/ ~c.socketWrite
                           \/ Ends(c, r) \/ Finishes(c, r) \/ Reads(s, c, r)
<1>1. ASSUME Keeps(c, r) PROVE /\ r.tcpReceivedData.to = c.tcpReceivedData.to
                               /\ r.tcpWritten = c.tcpWritten
                               /\ r.tcpConnected => c.tcpConnected
  BY <1>1 DEF Keeps
<1>2. CASE Takes(s, c, r)
  BY <1>2 DEF Takes, Shows
<1>3. ASSUME WritesTcp(c, r)
      PROVE  /\ r.tcpReceivedData.to = c.tcpReceivedData.to /\ SameSocket(c, r)
             /\ r.tcpConnected /\ c.tcpConnected
             /\ \/ \E size \in Int : size <= udpSendPacketSize /\ Writes(c, r, size)
                \/ r.tcpWritten = c.tcpWritten
  <2>1. CASE Skips(c, r)
    BY <2>1 DEF Skips, Advances, SameLog
  <2>2. CASE \E size \in Int : size <= udpSendPacketSize /\ Writes(c, r, size)
    BY <2>2 DEF Writes, Advances, SameLog
  <2>. QED
    BY <1>3, <2>1, <2>2 DEF WritesTcp
<1>4. ASSUME NEW d, NEW e, Finishes(d, e)
      PROVE  /\ e.tcpReceivedData.to = d.tcpReceivedData.to /\ SameSocket(d, e)
             /\ e.tcpConnected => d.tcpConnected
             /\ e.tcpWritten = d.tcpWritten /\ SameReads(d, e)
  BY <1>4 DEF Finishes, Closes, SameLog, SameReads
<1>5. ASSUME Ends(c, r)
      PROVE  r.tcpWritten = c.tcpWritten /\ SameSocket(c, r) /\ ~r.tcpConnected
  BY <1>5 DEF Ends, Stays, SameReads
<1>6. ASSUME Reads(s, c, r)
      PROVE  /\ r.tcpReceivedData.to = c.tcpReceivedData.to /\ SameSocket(c, r)
             /\ r.tcpConnected => c.tcpConnected
             /\ r.tcpWritten = c.tcpWritten
  <2>0. PICK m \in net[s] : \E d : ReadsAs(c, r, m, d)
    BY <1>6 DEF Reads
  <2>1. PICK d : /\ \/ Silent(c, d) \/ Hears(c, d, m) \/ Stores(c, d, m)
                 /\ r = d \/ Finishes(d, r)
    BY <2>0 DEF ReadsAs
  <2>2. /\ d.tcpReceivedData.to = c.tcpReceivedData.to /\ SameSocket(c, d)
        /\ d.tcpConnected = c.tcpConnected
        /\ d.tcpWritten = c.tcpWritten
    <3>1. CASE Silent(c, d)
      BY <3>1 DEF Silent, Stays, SameReads, SameLog
    <3>2. CASE Hears(c, d, m)
      BY <3>2 DEF Hears, SameReads, SameLog
    <3>3. CASE Stores(c, d, m)
      BY <3>3 DEF Stores, SameSocket
    <3>. QED
      BY <2>1, <3>1, <3>2, <3>3
  <2>3. CASE r = d
    BY <2>2, <2>3
  <2>4. CASE Finishes(d, r)
    BY <1>4, <2>2, <2>4, SocketChains
  <2>. QED
    BY <2>1, <2>3, <2>4
<1>. QED
  BY <1>1, <1>2, <1>3, <1>4, <1>5, <1>6 DEF Shows

\* What an end knows of its peer's stream while both are good.
LEMMA AgreesKnows ==
  ASSUME EndsInv, StreamInv, ShortEnough, NEW s \in Side,
         NEW P, Logged(conn[Peer(s)], P, 0), Follows(conn[s], P, conn[Peer(s)])
  PROVE  /\ conn[s].tcpConnected => Whole(P)
         /\ conn[Peer(s)].udpNextSendIndex < INT_MAX
<1>. DEFINE p == Peer(s)
            c == conn[s]
            q == conn[p]
            n == StreamLen[s]
            m == StreamLen[p]
<1>1. p \in Side /\ Peer(p) = s
  BY DEF Peer, Side
<1>2. PICK Q : Logged(c, Q, 0) /\ Follows(q, Q, c)
  BY <1>1 DEF StreamInv, Agrees
<1>3. /\ c.tcpReceivedData.to <= n /\ n \in Nat /\ n + 2 < INT_MAX
      /\ q.tcpReceivedData.to <= m /\ m \in Nat /\ m + 2 < INT_MAX
  BY <1>1, StreamLenAssumption DEF StreamInv, ShortStreams, ShortEnough
<1>4. q.udpReceivedMasterIndex \in Nat
  BY <1>1 DEF EndsInv, Good, LocalInv, Base, ConnectionType
<1>5. Logged(q, P, 0)
  OBVIOUS
<1>. HIDE DEF p, c, q, n, m
<1>6. c.udpNextSendIndex < INT_MAX /\ q.udpNextSendIndex < INT_MAX
  BY <1>2, <1>3, <1>5, IndexIsBounded
<1>7. c.tcpConnected => Whole(P)
  BY <1>2, <1>4, <1>5, <1>6, WholeWhileOpen
<1>. QED
  BY <1>6, <1>7 DEF p, c, q

\* The turn of one end keeps its part of the agreement.
LEMMA TurnFollows ==
  ASSUME EndsInv, StreamInv, ShortEnough, NEW s \in Side, NEW r, NEW out, Turn(s, r, out),
         NEW P, Logged(conn[Peer(s)], P, 0), Follows(conn[s], P, conn[Peer(s)]),
         \A m \in net[s] : m.type \in DataTypes =>
           m.index \in DOMAIN P /\ SamePacket(m, P[m.index])
  PROVE  /\ Follows(r, P, conn[Peer(s)])
         /\ Finishes(conn[s], r) \/ Reads(s, conn[s], r)
              => \/ r.tcpConnected = conn[s].tcpConnected \/ ~conn[s].tcpConnected
                 \/ AtEnd(conn[s], conn[Peer(s)])
<1>. DEFINE c == conn[s]
            q == conn[Peer(s)]
<1>1. Good(c) /\ Kind(s, c, r) /\ Follows(c, P, q) /\ Logged(q, P, 0)
  BY DEF EndsInv, Turn
<1>2. (c.tcpConnected => Whole(P)) /\ q.udpNextSendIndex < INT_MAX
  BY AgreesKnows
<1>3. \A m \in net[s] : m \in Datagram /\ (m.type \in DataTypes =>
        m.index \in DOMAIN P /\ SamePacket(m, P[m.index]))
  BY DEF EndsInv
<1>. HIDE DEF c, q
<1>4. /\ Follows(r, P, q)
      /\ Finishes(c, r) \/ Reads(s, c, r)
           => r.tcpConnected = c.tcpConnected \/ ~c.tcpConnected \/ AtEnd(c, q)
  BY <1>1, <1>2, <1>3, KindFollows
<1>. QED
  BY <1>4 DEF c, q

\* Byte 0 is the first of the only connection.
LEMMA FirstByteIsZero ==
  ASSUME opened \in Nat, opened <= 1, NEW s \in Side
  PROVE  firstByte(s) = 0
<1>1. StreamLen[s] \in Nat
  BY StreamLenAssumption
<1>2. CASE s = "server" /\ opened > 0
  <2>1. opened - 1 = 0
    BY <1>2
  <2>2. 0 * StreamLen[s] = 0
    BY <1>1
  <2>. QED
    BY <1>2, <2>1, <2>2 DEF firstByte
<1>3. CASE ~(s = "server" /\ opened > 0)
  BY <1>3 DEF firstByte
<1>. QED
  BY <1>2, <1>3

\* No byte that was read is taken back.
LEMMA TurnReadsOn ==
  ASSUME EndsInv, StreamInv, NEW s \in Side, NEW r, NEW out, Turn(s, r, out)
  PROVE  conn[s].tcpReceivedData.to <= r.tcpReceivedData.to /\ r.tcpReceivedData.to <= StreamLen[s]
<1>. DEFINE x == conn[s].tcpReceivedData.to
            y == r.tcpReceivedData.to
            z == StreamLen[s]
<1>1. x \in Nat /\ z \in Nat /\ x <= z /\ firstByte(s) = 0
  BY FirstByteIsZero, StreamLenAssumption
  DEF EndsInv, Good, LocalInv, Base, ConnectionType, Chunk, StreamInv, ShortStreams
<1>2. \/ y = x
      \/ y <= firstByte(s) + z /\ \E n \in 1 .. udpSendPacketSize : y = x + n
  BY ShowsOne DEF Turn, Loses, Keeps, Takes
<1>. HIDE DEF x, y, z
<1>3. x <= y /\ y <= z
  BY <1>1, <1>2, PacketSizeAssumption
<1>. QED
  BY <1>3 DEF x, y, z

\* The turn of one end keeps the agreement with its peer.
LEMMA TurnKeepsAgreement ==
  ASSUME EndsInv, StreamInv, ShortEnough, NEW s \in Side, NEW r, NEW out, Turn(s, r, out)
  PROVE  \A t \in Side : Agrees(t)'
<1>. DEFINE p == Peer(s)
            c == conn[s]
            q == conn[p]
<1>1. p \in Side /\ p # s /\ Peer(p) = s /\ \A t \in Side : t = s \/ t = p
  BY DEF Peer, Side
<1>2. /\ conn' = [conn EXCEPT ![s] = r]
      /\ net' = [net EXCEPT ![p] = net[p] \cup out]
      /\ \A m \in out : SentBy(c, m)
      /\ Continues(c, r)
  BY DEF Turn
<1>3. /\ conn'[s] = r /\ conn'[p] = q
      /\ net'[s] = net[s] /\ net'[p] = net[p] \cup out
  BY <1>1, <1>2 DEF EndsInv
<1>4. PICK P : /\ Logged(q, P, 0) /\ Follows(c, P, q)
               /\ \A m \in net[s] : m.type \in DataTypes =>
                    m.index \in DOMAIN P /\ SamePacket(m, P[m.index])
  BY DEF StreamInv, Agrees
<1>5. PICK Q : /\ Logged(c, Q, 0) /\ Follows(q, Q, c)
               /\ \A m \in net[p] : m.type \in DataTypes =>
                    m.index \in DOMAIN Q /\ SamePacket(m, Q[m.index])
  BY <1>1 DEF StreamInv, Agrees
<1>6. Follows(r, P, q)
  BY <1>4, TurnFollows
<1>7. ConnectionType(q) /\ ReceivedKeptIn(q)
  BY <1>1 DEF EndsInv, Good, LocalInv, Base
<1>8. c.tcpReceivedData.to <= r.tcpReceivedData.to
  BY TurnReadsOn
<1>9. \A m \in Queued(c) : m.type \notin DataTypes
  BY DEF StreamInv, QueueInv
<1>. HIDE DEF p, c, q
<1>10. Agrees(s)'
  BY <1>3, <1>4, <1>6 DEF Agrees, p
<1>11. PICK U : Logged(r, U, 0) /\ Extends(Q, U)
  BY <1>2, <1>5 DEF Continues
<1>12. Follows(q, U, r)
  BY <1>5, <1>7, <1>8, <1>11, FollowsOn
<1>13. ASSUME NEW m \in net[p] \cup out, m.type \in DataTypes
       PROVE  m.index \in DOMAIN U /\ SamePacket(m, U[m.index])
  <2>1. m.index \in DOMAIN Q /\ SamePacket(m, Q[m.index])
    <3>1. CASE m \in net[p]
      BY <1>5, <1>13, <3>1
    <3>2. CASE m \in out
      <4>1. m.index \in DOMAIN c.udpSentPackets /\ SamePacket(m, c.udpSentPackets[m.index])
        BY <1>2, <1>9, <1>13, <3>2 DEF SentBy
      <4>2. PacketLog(c, Q, 0)
        BY <1>5 DEF Logged
      <4>3. m.index \in DOMAIN Q /\ SamePacket(c.udpSentPackets[m.index], Q[m.index])
        BY <4>1, <4>2 DEF PacketLog
      <4>. QED
        BY <4>1, <4>3 DEF SamePacket
    <3>. QED
      BY <1>13, <3>1, <3>2
  <2>. QED
    BY <1>11, <2>1 DEF Extends
<1>14. Agrees(p)'
  BY <1>1, <1>3, <1>11, <1>12, <1>13 DEF Agrees
<1>. QED
  BY <1>1, <1>10, <1>14

\* The turn of one end keeps what else is needed.
LEMMA TurnKeepsSides ==
  ASSUME EndsInv, StreamInv, NEW s \in Side, NEW r, NEW out, Turn(s, r, out)
  PROVE  ShortStreams' /\ SocketInv' /\ QueueInv'
<1>. DEFINE c == conn[s]
<1>1. \A t \in Side : conn'[t] = IF t = s THEN r ELSE conn[t]
  BY DEF Turn, EndsInv
<1>2. \A m \in Queued(r) : m.type \notin DataTypes
  <2>1. Kind(s, c, r) /\ \A m \in Queued(c) : m.type \notin DataTypes
    BY DEF Turn, StreamInv, QueueInv
  <2>. HIDE DEF c
  <2>. QED
    BY <2>1, KindQueues
<1>3. r.tcpReceivedData.to <= StreamLen[s]
  BY TurnReadsOn
<1>4. /\ r.tcpConnected /\ ~r.socketWrite => hangup'[s] \/ r.socketError
      /\ \A t \in Side : t # s => hangup'[t] = hangup[t]
  <2>1. Shows(s, c, r)
    BY DEF Turn
  <2>2. \/ Loses(s, c, r)
        \/ /\ hangup' = hangup /\ SameSocket(c, r) /\ (r.tcpConnected => c.tcpConnected)
    BY <2>1, ShowsOne
  <2>3. Loses(s, c, r) => (r.tcpConnected => c.tcpConnected)
    BY DEF Loses, Keeps
  <2>4. c.tcpConnected /\ ~c.socketWrite => hangup[s] \/ c.socketError
    BY DEF StreamInv, SocketInv
  <2>. HIDE DEF c
  <2>. QED
    BY <2>2, <2>3, <2>4 DEF Loses, SameSocket
<1>5. ShortStreams'
  BY <1>1, <1>3 DEF StreamInv, ShortStreams
<1>6. SocketInv'
  BY <1>1, <1>4 DEF StreamInv, SocketInv
<1>7. QueueInv'
  BY <1>1, <1>2 DEF StreamInv, QueueInv
<1>. QED
  BY <1>5, <1>6, <1>7

\* The bound on the connections.
LEMMA OpenedOnce ==
  ASSUME EndsInv, opened <= 1, MaxConnections <= 1, [Next]_vars
  PROVE  opened' <= 1
<1>1. CASE \E m \in net["server"] : Accept(m)
  <2>1. opened < MaxConnections /\ opened' = opened + 1
    BY <1>1 DEF Accept
  <2>. QED
    BY <2>1, MaxConnectionsAssumption DEF EndsInv
<1>2. CASE UNCHANGED opened
  BY <1>2
<1>3. CASE \E s \in Side : (\E m \in net[s] : UdpRead(s, m)) \/ Local(s) \/ Host(s)
  BY <1>2, <1>3
  DEF UdpRead, Local, Host, TcpRead, TcpReadEof, TcpWrite, TcpClose, UdpWrite, UdpClose,
      BuildUdpPackets, BuildConfirmations, BuildByeBye, UdpCloseWait, UdpResend, Close,
      PollHangup, PollError, Handle, Becomes, Send, Aborts, HangsUp
<1>4. CASE Quiet \/ UNCHANGED vars
  BY <1>2, <1>4 DEF Quiet, vars
<1>. QED
  BY <1>1, <1>3, <1>4 DEF Next, Deliver

\* Nothing has been sent or received yet.
LEMMA InitStream == Init => StreamInv
<1>. SUFFICES ASSUME Init PROVE StreamInv
  OBVIOUS
<1>. DEFINE n == newConnection
            b == 0
            data == [from |-> b, to |-> b]
            none == <<>>
            noPackets == emptyMap
<1>1. /\ n.tcpReceivedData = data /\ n.tcpConnected /\ n.socketWrite
      /\ n.udpReceivedMasterIndex = 0 /\ n.tcpNextSendIndex = 0
      /\ n.udpReceivedFinalIndex = INT_MAX /\ n.udpNextSendIndex = 1
      /\ n.tcpWritten = none /\ n.udpConfirmationPackets = none
      /\ n.udpReceivedPackets = noPackets
  BY DEF newConnection, addPacket, onUdpSentBufferChanged, enable, disable
<1>2. n = [n EXCEPT !.tcpReceivedData = data]
  <2>. HIDE DEF n, data
  <2>1. ConnectionType(n)
    BY NewConnectionIsGood DEF LocalInv, Base, n
  <2>. QED
    BY <1>1, <2>1 DEF ConnectionType
<1>3. PICK P : Logged(n, P, b)
  <2>1. b \in Nat
    OBVIOUS
  <2>. HIDE DEF b, n
  <2>2. \E P : Logged([n EXCEPT !.tcpReceivedData = data], P, b)
    BY <2>1, NewConnectionIsLogged DEF n
  <2>. HIDE DEF data
  <2>. QED
    BY <1>2, <2>2
<1>4. /\ DOMAIN n.udpReceivedPackets = {} /\ Len(n.tcpWritten) = 0
      /\ n.tcpReceivedData.to = 0 /\ Queued(n) = {}
  BY <1>1 DEF emptyMap, Queued
<1>. HIDE DEF n, data
<1>5. Follows(n, P, n)
  <2>1. InOrder(n.tcpWritten)
    BY <1>4 DEF InOrder
  <2>. DEFINE R == n.udpReceivedPackets
              k == n.tcpNextSendIndex
              L == Len(n.tcpWritten)
  <2>2. ReadTo(R, P, k, L)
    <3>1. DOMAIN R = {} /\ k = 0 /\ L = 0
      BY <1>1, <1>4
    <3>. HIDE DEF R, k, L
    <3>. QED
      BY <3>1 DEF ReadTo, startOf
  <2>. QED
    BY <1>1, <1>4, <2>1, <2>2 DEF Follows
<1>6. \A s \in Side : conn[s] = n /\ conn[Peer(s)] = n /\ net[s] = {} /\ StreamLen[s] \in Nat
  BY StreamLenAssumption DEF Init, Side, Peer, n
<1>7. ASSUME NEW s \in Side PROVE Agrees(s)
  BY <1>3, <1>5, <1>6 DEF Agrees
<1>8. ShortStreams /\ SocketInv /\ QueueInv
  BY <1>1, <1>4, <1>6 DEF ShortStreams, SocketInv, QueueInv
<1>9. opened <= 1
  BY DEF Init
<1>. QED
  BY <1>7, <1>8, <1>9 DEF StreamInv

\* Every step of a tunnel with one connection at the server keeps it.
LEMMA NextStream ==
  ASSUME MaxConnections <= 1, ShortEnough
  PROVE  TunnelInv /\ StreamInv /\ [Next]_vars => StreamInv'
<1>. SUFFICES ASSUME TunnelInv, StreamInv, [Next]_vars PROVE StreamInv'
  OBVIOUS
<1>1. opened' <= 1
  BY OpenedOnce DEF TunnelInv, StreamInv
<1>2. CASE \E s \in Side : \E r, out : Turn(s, r, out)
  <2>1. PICK s \in Side : \E r, out : Turn(s, r, out)
    BY <1>2
  <2>2. PICK r, out : Turn(s, r, out)
    BY <2>1
  <2>3. EndsInv
    BY DEF TunnelInv
  <2>4. ShortStreams' /\ SocketInv' /\ QueueInv'
    BY <2>2, <2>3, TurnKeepsSides
  <2>5. \A t \in Side : Agrees(t)'
    BY <2>2, <2>3, TurnKeepsAgreement
  <2>. QED
    BY <1>1, <2>4, <2>5 DEF StreamInv
<1>3. CASE UNCHANGED <<conn, net, hangup, aborted>>
  <2>1. ShortStreams' /\ SocketInv' /\ QueueInv'
    BY <1>3 DEF StreamInv, ShortStreams, SocketInv, QueueInv
  <2>2. ASSUME NEW t \in Side PROVE Agrees(t)'
    BY <1>3 DEF StreamInv, Agrees
  <2>. QED
    BY <1>1, <2>1, <2>2 DEF StreamInv
<1>. QED
  BY <1>2, <1>3, NextTurnsOnce DEF TunnelInv

\* What is written to TCP and what is still under way is the stream of the
\* other TCP host.
THEOREM StreamsHold ==
  ASSUME MaxConnections <= 1, ShortEnough
  PROVE  Spec => [](TunnelInv /\ StreamInv)
<1>1. Init => TunnelInv /\ StreamInv
  BY InitEnds, InitPromises, InitStream DEF TunnelInv
<1>2. TunnelInv /\ StreamInv /\ [Next]_vars => TunnelInv' /\ StreamInv'
  BY NextPromises, NextStream
<1>. QED
  BY <1>1, <1>2, PTL DEF Spec

\* tcpWrite hands on every byte once and in order, whatever the network loses,
\* repeats, delays or reorders.
THEOREM DeliveredInOrder ==
  ASSUME MaxConnections <= 1, ShortEnough
  PROVE  Spec => []InOrderDelivery
<1>1. StreamInv => InOrderDelivery
  BY DEF StreamInv, Agrees, Follows, InOrder, InOrderDelivery
<1>. QED
  BY <1>1, StreamsHold, PTL

-----------------------------------------------------------------------------
(* The tunnel implements ByteStream: what the TCP hosts see of it.          *)

Sent == [s \in Side |-> conn[s].tcpReceivedData.to]
Got  == [s \in Side |-> conn[s].tcpWritten]
Open == [s \in Side |-> conn[s].tcpConnected]
Lost == [s \in Side |-> aborted[s] \/ hangup[s] \/ conn[s].socketError]

\* The turn of one end changes what its own host sees only.
LEMMA TurnSeen ==
  ASSUME EndsInv, NEW s \in Side, NEW r, NEW out, Turn(s, r, out)
  PROVE  /\ Sent' = [Sent EXCEPT ![s] = r.tcpReceivedData.to]
         /\ Got' = [Got EXCEPT ![s] = r.tcpWritten]
         /\ Open' = [Open EXCEPT ![s] = r.tcpConnected]
         /\ Open \in [Side -> BOOLEAN] /\ Lost \in [Side -> BOOLEAN]
         /\ r.tcpConnected \in BOOLEAN /\ r.socketError \in BOOLEAN
<1>1. \A t \in Side : conn'[t] = IF t = s THEN r ELSE conn[t]
  BY DEF Turn, EndsInv
<1>2. \A t \in Side : conn[t].tcpConnected \in BOOLEAN /\ conn[t].socketError \in BOOLEAN
  BY DEF EndsInv, Good, LocalInv, Base, ConnectionType
<1>3. r.tcpConnected \in BOOLEAN /\ r.socketError \in BOOLEAN
  BY DEF Turn, Good, LocalInv, Base, ConnectionType
<1>4. Sent' = [Sent EXCEPT ![s] = r.tcpReceivedData.to]
  BY <1>1 DEF Sent
<1>5. Got' = [Got EXCEPT ![s] = r.tcpWritten]
  BY <1>1 DEF Got
<1>6. Open' = [Open EXCEPT ![s] = r.tcpConnected]
  BY <1>1 DEF Open
<1>7. Open \in [Side -> BOOLEAN]
  BY <1>2 DEF Open
<1>8. Lost \in [Side -> BOOLEAN]
  BY <1>2 DEF Lost, EndsInv
<1>. QED
  BY <1>3, <1>4, <1>5, <1>6, <1>7, <1>8

\* An end is lost.
LEMMA LosesIsLose ==
  ASSUME EndsInv, NEW s \in Side, NEW r, NEW out, Turn(s, r, out), Loses(s, conn[s], r)
  PROVE  Stream!Lose(s)
<1>. DEFINE c == conn[s]
<1>1. /\ Sent' = [Sent EXCEPT ![s] = r.tcpReceivedData.to]
      /\ Got' = [Got EXCEPT ![s] = r.tcpWritten]
      /\ Open' = [Open EXCEPT ![s] = r.tcpConnected]
      /\ Open \in [Side -> BOOLEAN] /\ Lost \in [Side -> BOOLEAN]
      /\ r.tcpConnected \in BOOLEAN
  BY TurnSeen
<1>2. /\ r.tcpReceivedData.to = Sent[s] /\ r.tcpWritten = Got[s]
      /\ r.tcpConnected => Open[s]
  BY DEF Loses, Keeps, Sent, Got, Open
<1>3. Sent' = Sent /\ Got' = Got
  BY <1>1, <1>2 DEF Sent, Got
<1>4. Open' \in {Open, [Open EXCEPT ![s] = FALSE]}
  BY <1>1, <1>2
<1>5. Lost' = [Lost EXCEPT ![s] = TRUE]
  <2>1. conn'[s] = r /\ \A t \in Side : t # s => conn'[t] = conn[t]
    BY DEF Turn, EndsInv
  <2>2. (aborted'[s] \/ hangup'[s] \/ conn'[s].socketError) = TRUE
    BY <2>1 DEF Loses
  <2>3. \A t \in Side : t # s =>
          (aborted'[t] \/ hangup'[t] \/ conn'[t].socketError)
            = (aborted[t] \/ hangup[t] \/ conn[t].socketError)
    BY <2>1 DEF Loses
  <2>. QED
    BY <2>2, <2>3 DEF Lost
<1>. QED
  BY <1>3, <1>4, <1>5 DEF Stream!Lose, Sent, Got, Open, Lost

\* No end is lost.
LEMMA LostStays ==
  ASSUME EndsInv, NEW s \in Side, NEW r, NEW out, Turn(s, r, out),
         hangup' = hangup, aborted' = aborted, SameSocket(conn[s], r)
  PROVE  Lost' = Lost
<1>1. conn'[s] = r /\ \A t \in Side : t # s => conn'[t] = conn[t]
  BY DEF Turn, EndsInv
<1>2. \A t \in Side : conn'[t].socketError = conn[t].socketError
  BY <1>1 DEF SameSocket
<1>. QED
  BY <1>2 DEF Lost

\* Bytes are taken from the host of s.
LEMMA TakesIsTake ==
  ASSUME EndsInv, NEW s \in Side, NEW r, NEW out, Turn(s, r, out),
         hangup' = hangup, aborted' = aborted, Takes(s, conn[s], r)
  PROVE  Stream!Take(s)
<1>1. /\ Sent' = [Sent EXCEPT ![s] = r.tcpReceivedData.to]
      /\ Got' = [Got EXCEPT ![s] = r.tcpWritten]
      /\ Open' = [Open EXCEPT ![s] = r.tcpConnected]
      /\ Open \in [Side -> BOOLEAN] /\ r.tcpConnected \in BOOLEAN
  BY TurnSeen
<1>2. Open[s] /\ r.tcpConnected = Open[s] /\ r.tcpWritten = Got[s]
  BY <1>1 DEF Takes, Open, Got
<1>3. Open' = Open /\ Got' = Got
  BY <1>1, <1>2 DEF Got
<1>4. PICK n \in 1 .. udpSendPacketSize : r.tcpReceivedData.to = Sent[s] + n
  BY DEF Takes, Sent
<1>5. Sent' = [Sent EXCEPT ![s] = Sent[s] + n]
  BY <1>1, <1>4
<1>6. Lost' = Lost
  BY LostStays DEF Takes
<1>. QED
  BY <1>2, <1>3, <1>5, <1>6 DEF Stream!Take, Sent, Got, Open, Lost

\* The host of s is disconnected behind the last byte.
LEMMA EndIsFinish ==
  ASSUME EndsInv, NEW s \in Side, NEW r, NEW out, Turn(s, r, out),
         hangup' = hangup, aborted' = aborted, SameSocket(conn[s], r),
         r.tcpReceivedData.to = conn[s].tcpReceivedData.to,
         r.tcpWritten = conn[s].tcpWritten,
         conn[s].tcpConnected, ~r.tcpConnected, AtEnd(conn[s], conn[Peer(s)])
  PROVE  Stream!Finish(s)
<1>0. Peer(s) \in Side
  BY DEF Peer, Side
<1>1. /\ Sent' = [Sent EXCEPT ![s] = r.tcpReceivedData.to]
      /\ Got' = [Got EXCEPT ![s] = r.tcpWritten]
      /\ Open' = [Open EXCEPT ![s] = r.tcpConnected]
      /\ r.tcpConnected \in BOOLEAN
  BY TurnSeen
<1>2. Sent' = Sent /\ Got' = Got
  BY <1>1 DEF Sent, Got
<1>3. Open' = [Open EXCEPT ![s] = FALSE]
  BY <1>1
<1>4. Open[s] /\ ~Open[Peer(s)] /\ Len(Got[s]) = Sent[Peer(s)]
  BY <1>0 DEF AtEnd, Open, Got, Sent
<1>5. Lost' = Lost
  BY LostStays
<1>. QED
  BY <1>2, <1>3, <1>4, <1>5 DEF Stream!Finish, Sent, Got, Open, Lost

\* Nothing to see.
LEMMA HiddenIsStutter ==
  ASSUME EndsInv, NEW s \in Side, NEW r, NEW out, Turn(s, r, out),
         hangup' = hangup, aborted' = aborted, SameSocket(conn[s], r),
         r.tcpReceivedData.to = conn[s].tcpReceivedData.to,
         r.tcpWritten = conn[s].tcpWritten,
         r.tcpConnected <=> conn[s].tcpConnected
  PROVE  UNCHANGED Stream!vars
<1>1. /\ Sent' = [Sent EXCEPT ![s] = r.tcpReceivedData.to]
      /\ Got' = [Got EXCEPT ![s] = r.tcpWritten]
      /\ Open' = [Open EXCEPT ![s] = r.tcpConnected]
      /\ Open \in [Side -> BOOLEAN] /\ r.tcpConnected \in BOOLEAN
  BY TurnSeen
<1>2. Sent' = Sent /\ Got' = Got
  BY <1>1 DEF Sent, Got
<1>3. Open' = Open
  <2>1. r.tcpConnected = Open[s]
    BY <1>1 DEF Open
  <2>. QED
    BY <1>1, <2>1
<1>4. Lost' = Lost
  BY LostStays
<1>. QED
  BY <1>2, <1>3, <1>4 DEF Stream!vars, Sent, Got, Open, Lost

\* tcpWrite gives the next bytes of the peer's host, or none.
LEMMA WritesIsGive ==
  ASSUME EndsInv, StreamInv, ShortEnough, NEW s \in Side, NEW r, NEW out, Turn(s, r, out),
         hangup' = hangup, aborted' = aborted, SameSocket(conn[s], r),
         NEW size \in Int, size <= udpSendPacketSize, Writes(conn[s], r, size)
  PROVE  Stream!Give(s) \/ UNCHANGED Stream!vars
<1>. DEFINE c == conn[s]
            q == conn[Peer(s)]
            w == c.tcpWritten
            x == [j \in 1 .. size |-> Len(w) + j - 1]
<1>0. Peer(s) \in Side
  BY DEF Peer, Side
<1>1. PICK P : /\ Logged(q, P, 0) /\ Follows(c, P, q)
               /\ \A m \in net[s] : m.type \in DataTypes =>
                    m.index \in DOMAIN P /\ SamePacket(m, P[m.index])
  BY DEF StreamInv, Agrees
<1>2. c.tcpConnected => Whole(P)
  BY <1>1, AgreesKnows
<1>3. /\ ConnectionType(c) /\ ReceivedKeptIn(c) /\ w \in Seq(Nat) /\ InOrder(w)
      /\ Writes(c, r, size)
  BY <1>1 DEF EndsInv, Good, LocalInv, Base, ConnectionType, Follows
<1>4. /\ Follows(r, P, q) /\ size \in Nat /\ r.tcpWritten = w \o x
      /\ c.tcpConnected /\ r.tcpConnected
      /\ r.tcpReceivedData.to = c.tcpReceivedData.to
  <2>. HIDE DEF c, q
  <2>1. /\ Follows(r, P, q) /\ size \in Nat /\ r.tcpWritten = w \o x
    BY <1>1, <1>2, <1>3, WritesFollows
  <2>. HIDE DEF w, x
  <2>. QED
    BY <1>3, <2>1 DEF Writes, Advances, SameLog
<1>5. Len(r.tcpWritten) = Len(w) + size /\ Len(r.tcpWritten) <= q.tcpReceivedData.to
  <2>1. Len(w \o x) = Len(w) + size
    <3>. HIDE DEF w
    <3>. QED
      BY <1>3, <1>4, InOrderAppend
  <2>. QED
    BY <1>4, <2>1 DEF Follows
<1>6. CASE size = 0
  <2>1. x = <<>>
    BY <1>6
  <2>2. w \o x = w
    <3>. HIDE DEF w, x
    <3>. QED
      BY <1>3, <2>1, ConcatEmptySeq
  <2>3. r.tcpWritten = c.tcpWritten
    BY <1>4, <2>2
  <2>. QED
    BY <1>4, <2>3, HiddenIsStutter
<1>7. CASE size # 0
  <2>1. size \in 1 .. udpSendPacketSize
    BY <1>4, <1>7, PacketSizeAssumption
  <2>2. /\ Sent' = [Sent EXCEPT ![s] = r.tcpReceivedData.to]
        /\ Got' = [Got EXCEPT ![s] = r.tcpWritten]
        /\ Open' = [Open EXCEPT ![s] = r.tcpConnected]
        /\ Open \in [Side -> BOOLEAN] /\ r.tcpConnected \in BOOLEAN
    BY TurnSeen
  <2>3. Sent' = Sent
    BY <1>4, <2>2 DEF Sent
  <2>4. r.tcpConnected = Open[s] /\ Open[s]
    BY <1>4, <2>2 DEF Open
  <2>5. Open' = Open
    BY <2>2, <2>4
  <2>6. Lost' = Lost
    BY LostStays
  <2>7. w = Got[s] /\ q.tcpReceivedData.to = Sent[Peer(s)]
    BY <1>0 DEF Got, Sent
  <2>8. Len(Got[s]) + size <= Sent[Peer(s)]
    BY <1>5, <2>7
  <2>9. Got' = [Got EXCEPT ![s] = Got[s] \o [j \in 1 .. size |-> Len(Got[s]) + j - 1]]
    BY <1>4, <2>2, <2>7
  <2>. QED
    BY <2>1, <2>3, <2>4, <2>5, <2>6, <2>8, <2>9 DEF Stream!Give, Sent, Got, Open, Lost
<1>. QED
  BY <1>6, <1>7

\* The turn of one end is a step of ByteStream or invisible.
LEMMA TurnImplements ==
  ASSUME EndsInv, StreamInv, ShortEnough, NEW s \in Side, NEW r, NEW out, Turn(s, r, out)
  PROVE  Stream!Next \/ UNCHANGED Stream!vars
<1>. DEFINE c == conn[s]
            q == conn[Peer(s)]
<1>1. PICK P : /\ Logged(q, P, 0) /\ Follows(c, P, q)
               /\ \A m \in net[s] : m.type \in DataTypes =>
                    m.index \in DOMAIN P /\ SamePacket(m, P[m.index])
  BY DEF StreamInv, Agrees
<1>2. c.tcpConnected => Whole(P)
  BY <1>1, AgreesKnows
<1>3. ConnectionType(c) /\ ReceivedKeptIn(c)
  BY DEF EndsInv, Good, LocalInv, Base
<1>4. Finishes(c, r) \/ Reads(s, c, r)
        => r.tcpConnected = c.tcpConnected \/ ~c.tcpConnected \/ AtEnd(c, q)
  BY <1>1, TurnFollows
<1>5. Ends(c, r) => AtEnd(c, q)
  <2>. HIDE DEF c, q
  <2>. QED
    BY <1>1, <1>2, <1>3, EndsAtEnd
<1>6. Shows(s, c, r)
  BY DEF Turn
<1>7. \/ Loses(s, c, r)
      \/ /\ hangup' = hangup /\ aborted' = aborted
         /\ SameSocket(c, r) /\ (r.tcpConnected => c.tcpConnected)
         /\ \/ Takes(s, c, r)
            \/ /\ r.tcpReceivedData.to = c.tcpReceivedData.to
               /\ \/ \E size \in Int : size <= udpSendPacketSize /\ Writes(c, r, size)
                  \/ /\ r.tcpWritten = c.tcpWritten
                     /\ \/ (r.tcpConnected <=> c.tcpConnected) \/ ~c.socketWrite
                        \/ Ends(c, r) \/ Finishes(c, r) \/ Reads(s, c, r)
  <2>. HIDE DEF c
  <2>. QED
    BY <1>6, ShowsOne
<1>8. CASE Loses(s, c, r)
  BY <1>8, LosesIsLose DEF Stream!Next
<1>. DEFINE Unlost == hangup' = hangup /\ aborted' = aborted /\ SameSocket(c, r)
            Same == /\ r.tcpReceivedData.to = c.tcpReceivedData.to
                    /\ r.tcpWritten = c.tcpWritten
<1>9. CASE Unlost /\ Takes(s, c, r)
  BY <1>9, TakesIsTake DEF Stream!Next
<1>10. CASE Unlost /\ \E size \in Int : size <= udpSendPacketSize /\ Writes(c, r, size)
  BY <1>10, WritesIsGive DEF Stream!Next
<1>11. CASE Unlost /\ Same /\ (r.tcpConnected <=> c.tcpConnected)
  BY <1>11, HiddenIsStutter
<1>12. CASE Unlost /\ Same /\ c.tcpConnected /\ ~r.tcpConnected /\ AtEnd(c, q)
  BY <1>12, EndIsFinish DEF Stream!Next
<1>13. CASE Unlost /\ Same /\ c.tcpConnected /\ ~r.tcpConnected /\ ~c.socketWrite
  <2>1. hangup[s] \/ c.socketError
    BY <1>13 DEF StreamInv, SocketInv
  <2>2. Loses(s, c, r)
    BY <1>13, <2>1 DEF Loses, Keeps, SameSocket
  <2>. QED
    BY <1>8, <2>2
<1>. HIDE DEF c, q
<1>. QED
  BY <1>4, <1>5, <1>7, <1>8, <1>9, <1>10, <1>11, <1>12, <1>13

\* The first state of a tunnel is that of two connected hosts.
LEMMA InitImplements == Init => Stream!Init
<1>. SUFFICES ASSUME Init PROVE Stream!Init
  OBVIOUS
<1>. DEFINE n == newConnection
<1>1. /\ n.tcpReceivedData.to = 0 /\ n.tcpConnected = TRUE /\ n.socketError = FALSE
      /\ n.tcpWritten = <<>>
  BY DEF newConnection, addPacket, onUdpSentBufferChanged, enable, disable
<1>. HIDE DEF n
<1>2. \A s \in Side : conn[s] = n /\ ~aborted[s] /\ ~hangup[s]
  BY DEF Init, n
<1>3. Sent = [s \in Side |-> 0]
  BY <1>1, <1>2 DEF Sent
<1>4. Got = [s \in Side |-> <<>>]
  BY <1>1, <1>2 DEF Got
<1>5. Open = [s \in Side |-> TRUE]
  BY <1>1, <1>2 DEF Open
<1>6. Lost = [s \in Side |-> FALSE]
  BY <1>1, <1>2 DEF Lost
<1>. QED
  BY <1>3, <1>4, <1>5, <1>6 DEF Stream!Init, Sent, Got, Open, Lost

\* Whatever the network does, a tunnel is a pair of byte streams: every step
\* takes bytes from a host, gives the next bytes to one, disconnects one behind
\* the last byte, loses an end, or is invisible to the hosts.
THEOREM TunnelIsByteStream ==
  ASSUME MaxConnections <= 1, ShortEnough
  PROVE  Spec => ImplementsByteStream
<1>1. Init => Stream!Init
  BY InitImplements
<1>2. ASSUME TunnelInv, StreamInv, [Next]_vars
      PROVE  Stream!Next \/ UNCHANGED Stream!vars
  <2>1. CASE \E s \in Side : \E r, out : Turn(s, r, out)
    <3>1. PICK s \in Side : \E r, out : Turn(s, r, out)
      BY <2>1
    <3>2. PICK r, out : Turn(s, r, out)
      BY <3>1
    <3>. QED
      BY <1>2, <3>2, TurnImplements DEF TunnelInv
  <2>2. CASE UNCHANGED <<conn, net, hangup, aborted>>
    BY <2>2 DEF Stream!vars
  <2>. QED
    BY <1>2, <2>1, <2>2, NextTurnsOnce DEF TunnelInv
<1>3. TunnelInv /\ StreamInv /\ [Next]_vars => [Stream!Next]_(Stream!vars)
  BY <1>2
<1>. QED
  BY <1>1, <1>3, StreamsHold, PTL DEF Spec, ImplementsByteStream, Stream!Spec

-----------------------------------------------------------------------------
(* What the two TCP hosts can rely on: theorems about ByteStream, with the *)
(* names of this module for its variables.                                 *)

Hosts == INSTANCE ByteStream WITH
  MaxChunk <- udpSendPacketSize, sent <- Sent, got <- Got, open <- Open, lost <- Lost

\* The other end is an end.
LEMMA PeerIsSide == \A s \in Side : Peer(s) \in Side
BY DEF Side, Peer

HostsType ==
  /\ Sent \in [Side -> Nat]
  /\ Got \in [Side -> Seq(Nat)]
  /\ Open \in [Side -> BOOLEAN]
  /\ Lost \in [Side -> BOOLEAN]

HostsInv == HostsType /\ Hosts!Prefix /\ Hosts!Complete

\* n more bytes, by their positions, continue a stream that is known up to w.
LEMMA StreamContinues ==
  ASSUME NEW w \in Seq(Nat), NEW n \in Nat \ {0},
         \A k \in 1 .. Len(w) : w[k] = k - 1
  PROVE  LET v == w \o [j \in 1 .. n |-> Len(w) + j - 1]
         IN  /\ v \in Seq(Nat)
             /\ Len(v) = Len(w) + n
             /\ \A k \in 1 .. Len(v) : v[k] = k - 1
<1> DEFINE new == [j \in 1 .. n |-> Len(w) + j - 1]
           v == w \o new
<1>1. new \in Seq(Nat) /\ Len(new) = n /\ \A j \in 1 .. n : new[j] = Len(w) + j - 1
  OBVIOUS
<1> HIDE DEF new
<1>2. v \in Seq(Nat) /\ Len(v) = Len(w) + n
  BY <1>1
<1>3. ASSUME NEW k \in 1 .. Len(w) + n PROVE v[k] = k - 1
  <2>1. CASE k \in 1 .. Len(w)
    BY <1>1, <2>1
  <2>2. CASE k - Len(w) \in 1 .. n
    <3> DEFINE j == k - Len(w)
    <3>1. v[k] = new[j]
      BY <1>1, <2>2
    <3>2. new[j] = Len(w) + j - 1
      BY <1>1, <2>2
    <3>3. Len(w) + j - 1 = k - 1
      OBVIOUS
    <3> HIDE DEF v, j
    <3> QED  BY <3>1, <3>2, <3>3
  <2>3. k \in 1 .. Len(w) \/ k - Len(w) \in 1 .. n
    <3>1. Len(w) \in Nat
      OBVIOUS
    <3> HIDE DEF v
    <3> QED  BY <3>1
  <2> QED  BY <2>1, <2>2, <2>3
<1> QED  BY <1>2, <1>3 DEF new

\* Nothing has been taken, given or closed at first.
LEMMA InitHosts == Hosts!Init => HostsInv
BY PeerIsSide DEF Hosts!Init, HostsInv, HostsType, Hosts!Prefix, Hosts!Complete

\* The host of s is open, so that no end can have finished its stream.
LEMMA TakeKeepsHosts ==
  ASSUME HostsInv, NEW s \in Side, Hosts!Take(s)
  PROVE  HostsInv'
<1>1. PICK n \in 1 .. udpSendPacketSize : Sent' = [Sent EXCEPT ![s] = @ + n]
  BY DEF Hosts!Take
<1>2. Got' = Got /\ Open' = Open /\ Lost' = Lost /\ Open[s]
  BY DEF Hosts!Take
<1>3. HostsType' /\ \A t \in Side : Sent'[t] >= Sent[t]
  BY <1>1, <1>2 DEF HostsInv, HostsType
<1>4. Hosts!Prefix'
  <2>1. ASSUME NEW t \in Side PROVE Len(Got[t]) <= Sent'[Peer(t)]
    <3>1. /\ Len(Got[t]) \in Nat /\ Sent[Peer(t)] \in Nat /\ Sent'[Peer(t)] \in Nat
          /\ Len(Got[t]) <= Sent[Peer(t)] /\ Sent[Peer(t)] <= Sent'[Peer(t)]
      BY <1>3, PeerIsSide DEF HostsInv, HostsType, Hosts!Prefix
    <3> QED  BY <3>1
  <2> QED  BY <1>2, <2>1 DEF HostsInv, Hosts!Prefix
<1>5. Hosts!Complete'
  <2>1. \A t \in Side : ~Open[t] => Sent'[t] = Sent[t]
    BY <1>1, <1>2 DEF HostsInv, HostsType
  <2> QED  BY <1>2, <2>1, PeerIsSide DEF HostsInv, Hosts!Complete
<1> QED  BY <1>3, <1>4, <1>5 DEF HostsInv

\* A host gets the next bytes only.
LEMMA GiveKeepsHosts ==
  ASSUME HostsInv, NEW s \in Side, Hosts!Give(s)
  PROVE  HostsInv'
<1>1. PICK n \in 1 .. udpSendPacketSize :
        /\ Len(Got[s]) + n <= Sent[Peer(s)]
        /\ Got' = [Got EXCEPT ![s] = @ \o [j \in 1 .. n |-> Len(Got[s]) + j - 1]]
  BY DEF Hosts!Give
<1>2. Sent' = Sent /\ Open' = Open /\ Lost' = Lost /\ Open[s]
  BY DEF Hosts!Give
<1> DEFINE v == Got[s] \o [j \in 1 .. n |-> Len(Got[s]) + j - 1]
<1>3. Got[s] \in Seq(Nat) /\ \A k \in 1 .. Len(Got[s]) : Got[s][k] = k - 1
  BY DEF HostsInv, HostsType, Hosts!Prefix
<1>4. /\ v \in Seq(Nat)
      /\ Len(v) = Len(Got[s]) + n
      /\ \A k \in 1 .. Len(v) : v[k] = k - 1
  BY <1>3, StreamContinues
<1>5. Got' = [Got EXCEPT ![s] = v]
  BY <1>1
<1> HIDE DEF v
<1>6. Got'[s] = v /\ (\A t \in Side \ {s} : Got'[t] = Got[t]) /\ HostsType'
  BY <1>2, <1>4, <1>5 DEF HostsInv, HostsType
<1>7. Hosts!Prefix'
  BY <1>1, <1>2, <1>4, <1>6 DEF HostsInv, Hosts!Prefix
<1>8. Hosts!Complete'
  BY <1>2, <1>6 DEF HostsInv, Hosts!Complete
<1> QED  BY <1>6, <1>7, <1>8 DEF HostsInv

\* An end closes behind the last byte, or is lost.
LEMMA CloseKeepsHosts ==
  ASSUME HostsInv, NEW s \in Side, Hosts!Finish(s) \/ Hosts!Lose(s)
  PROVE  HostsInv'
<1>1. Sent' = Sent /\ Got' = Got
  BY DEF Hosts!Finish, Hosts!Lose
<1>2. HostsType'
  BY <1>1 DEF Hosts!Finish, Hosts!Lose, HostsInv, HostsType
<1>3. Hosts!Prefix'
  BY <1>1 DEF HostsInv, Hosts!Prefix
<1>4. ASSUME NEW t \in Side, ~Open'[t], ~Lost'[t]
      PROVE  ~Open'[Peer(t)] /\ Len(Got'[t]) = Sent'[Peer(t)]
  BY <1>1, <1>4, PeerIsSide DEF Hosts!Finish, Hosts!Lose, HostsInv, HostsType, Hosts!Complete
<1> QED  BY <1>2, <1>3, <1>4 DEF HostsInv, Hosts!Complete

\* Every host has got a prefix of what the other sent: nothing is missing,
\* repeated or out of order.
THEOREM StreamIsPrefix == Hosts!Spec => []Hosts!Prefix
<1>1. Hosts!Init => HostsInv
  BY InitHosts
<1>2. HostsInv /\ [Hosts!Next]_(Hosts!vars) => HostsInv'
  <2>1. ASSUME HostsInv, Hosts!Next PROVE HostsInv'
    BY <2>1, TakeKeepsHosts, GiveKeepsHosts, CloseKeepsHosts DEF Hosts!Next
  <2>2. ASSUME HostsInv, UNCHANGED Hosts!vars PROVE HostsInv'
    BY <2>2 DEF Hosts!vars, HostsInv, HostsType, Hosts!Prefix, Hosts!Complete
  <2> QED  BY <2>1, <2>2
<1>3. HostsInv => Hosts!Prefix
  BY DEF HostsInv
<1> QED  BY <1>1, <1>2, <1>3, PTL DEF Hosts!Spec

\* A host that sees the end of its stream, its end of the tunnel not being lost,
\* has got every byte that the other host sent or will ever send.
THEOREM EndIsComplete == Hosts!Spec => []Hosts!Complete
<1>1. Hosts!Init => HostsInv
  BY InitHosts
<1>2. HostsInv /\ [Hosts!Next]_(Hosts!vars) => HostsInv'
  <2>1. ASSUME HostsInv, Hosts!Next PROVE HostsInv'
    BY <2>1, TakeKeepsHosts, GiveKeepsHosts, CloseKeepsHosts DEF Hosts!Next
  <2>2. ASSUME HostsInv, UNCHANGED Hosts!vars PROVE HostsInv'
    BY <2>2 DEF Hosts!vars, HostsInv, HostsType, Hosts!Prefix, Hosts!Complete
  <2> QED  BY <2>1, <2>2
<1>3. HostsInv => Hosts!Complete
  BY DEF HostsInv
<1> QED  BY <1>1, <1>2, <1>3, PTL DEF Hosts!Spec

-----------------------------------------------------------------------------
(* What that means for the tunnel.                                         *)

\* It is the same specification, with the same mapping.
LEMMA StreamIsHosts == Stream!Spec => Hosts!Spec
<1>1. Stream!Init <=> Hosts!Init
  BY DEF Stream!Init, Hosts!Init, Sent, Got, Open, Lost
<1>2. Stream!Next <=> Hosts!Next
  BY DEF Stream!Next, Stream!Take, Stream!Give, Stream!Finish, Stream!Lose,
         Hosts!Next, Hosts!Take, Hosts!Give, Hosts!Finish, Hosts!Lose,
         Sent, Got, Open, Lost
<1>3. UNCHANGED Stream!vars <=> UNCHANGED Hosts!vars
  BY DEF Stream!vars, Hosts!vars, Sent, Got, Open, Lost
<1>4. [Stream!Next]_(Stream!vars) => [Hosts!Next]_(Hosts!vars)
  BY <1>2, <1>3
<1>. QED
  BY <1>1, <1>4, PTL DEF Stream!Spec, Hosts!Spec

\* A TCP socket that an end closes although its host has not hung up, its sockets
\* have not failed and it has not given its peer up, was given every byte that
\* the other end has read and will ever read.
EndIsTrue ==
  \A s \in Side :
    ~conn[s].tcpConnected /\ ~aborted[s] /\ ~hangup[s] /\ ~conn[s].socketError =>
      /\ ~conn[Peer(s)].tcpConnected
      /\ Len(conn[s].tcpWritten) = conn[Peer(s)].tcpReceivedData.to

\* tcpWrite closes the socket on a Bye or a Disconnect behind the last byte only:
\* what EndIsComplete says of byte streams, of the tunnel.
THEOREM EndOfStreamIsTrue ==
  ASSUME MaxConnections <= 1, ShortEnough
  PROVE  Spec => []EndIsTrue
<1>2. Hosts!Spec => []Hosts!Complete
  BY EndIsComplete
<1>3. Hosts!Complete => EndIsTrue
  BY DEF EndIsTrue, Hosts!Complete, Sent, Got, Open, Lost, Side, Peer
<1>. QED
  BY <1>2, <1>3, TunnelIsByteStream, StreamIsHosts, PTL DEF ImplementsByteStream
=============================================================================
