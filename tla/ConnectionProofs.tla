-------------------------- MODULE ConnectionProofs --------------------------
(***************************************************************************)
(* Every operation of a connection keeps its local invariant, and what     *)
(* each does to the promises that the two ends of a tunnel have given each *)
(* other: which packets it has received, which ones it still keeps for its *)
(* peer, what it tells the peer, and which bytes its packets carry.  The   *)
(* facts proved here hold for every value of the constants and for every   *)
(* argument of the operations; EndpointProofs and TunnelProofs combine     *)
(* them into theorems about the specifications.                            *)
(***************************************************************************)
EXTENDS Connection, FiniteSetTheorems, WellFoundedInduction, TLAPS

-----------------------------------------------------------------------------
(* Least and greatest elements.                                            *)

\* Min, which udpWrite and the master index rest on, is what its name says.
LEMMA MinIsLeast ==
  ASSUME NEW S \in SUBSET Nat, S # {}
  PROVE  Min(S) \in S /\ \A y \in S : Min(S) <= y
<1>1. PICK x \in S : \A y \in S : ~(<<y, x>> \in OpToRel(<, Nat))
  <2>1. IsWellFoundedOn(OpToRel(<, Nat), Nat)
    BY NatLessThanWellFounded
  <2>. QED
    BY <2>1, WFMin
<1>2. \A y \in S : x <= y
  <2>. SUFFICES ASSUME NEW y \in S, y < x PROVE FALSE
    OBVIOUS
  <2>1. <<y, x>> \in Nat \X Nat /\ <<y, x>>[1] < <<y, x>>[2]
    OBVIOUS
  <2>2. <<y, x>> \in OpToRel(<, Nat)
    BY <2>1, Zenon DEF OpToRel
  <2>. QED
    BY <1>1, <2>2
<1>. QED
  BY <1>2 DEF Min

\* The greatest element of a bounded set of numbers.
LEMMA MaxIsMember ==
  ASSUME NEW N \in Nat, NEW S \in SUBSET (0 .. N), S # {}
  PROVE  Max(S) \in S
<1>. DEFINE U == {m \in 0 .. N : \A y \in S : y <= m}
<1>1. U \in SUBSET Nat /\ N \in U
  OBVIOUS
<1>2. PICK u \in U : \A m \in U : u <= m
  BY <1>1, MinIsLeast
<1>3. u \in 0 .. N /\ \A y \in S : y <= u
  OBVIOUS
<1>4. u \in S
  <2>. SUFFICES ASSUME u \notin S PROVE FALSE
    OBVIOUS
  <2>1. \A y \in S : y \in 0 .. N /\ y <= u - 1
    BY <1>3
  <2>2. u - 1 \in 0 .. N
    <3>1. PICK y : y \in S
      OBVIOUS
    <3>2. y \in 0 .. N /\ y <= u - 1
      BY <2>1, <3>1
    <3>. QED
      BY <1>3, <3>2
  <2>3. u - 1 \in U
    BY <2>1, <2>2
  <2>. QED
    BY <1>2, <1>3, <2>3
<1>5. \E x \in S : \A y \in S : x >= y
  BY <1>3, <1>4
<1>. QED
  BY <1>5 DEF Max

\* The unsent packets are finitely many.
LEMMA UnsentFinite ==
  ASSUME NEW c, ConnectionType(c)
  PROVE  /\ IsFiniteSet(DOMAIN c.udpSentPackets)
         /\ IsFiniteSet(unsent(c))
         /\ Cardinality(unsent(c)) \in Nat
<1>1. c.udpNextSendIndex - 1 \in Int
  BY DEF ConnectionType
<1>2. IsFiniteSet(0 .. (c.udpNextSendIndex - 1))
  BY <1>1, FS_Interval
<1>3. DOMAIN c.udpSentPackets \subseteq 0 .. (c.udpNextSendIndex - 1)
  BY DEF ConnectionType
<1>4. IsFiniteSet(DOMAIN c.udpSentPackets)
  BY <1>2, <1>3, FS_Subset
<1>5. IsFiniteSet(unsent(c))
  BY <1>4, FS_Subset DEF unsent
<1>. QED
  BY <1>4, <1>5, FS_CardinalityType

-----------------------------------------------------------------------------
(* The local invariant, and the form it has inside a handler: raise has     *)
(* disabled an event and the operations that follow enable it again when it *)
(* is still needed.  WakeUpTo(c, X) is NoLostWakeup but for the events X.   *)

Base(c) == ConnectionType(c) /\ UnsentCountedIn(c) /\ ReceivedKeptIn(c)

WakeUpTo(c, X) == NoLostWakeupIn([c EXCEPT !.ev = c.ev \cup X])

LocalInv(c) == Base(c) /\ LeftoverIsPartialIn(c) /\ NoLostWakeupIn(c)

\* With no event left out, WakeUpTo is the invariant itself.
LEMMA InvFromWakeUp ==
  ASSUME NEW c, Base(c), LeftoverIsPartialIn(c), WakeUpTo(c, {})
  PROVE  LocalInv(c)
<1>1. NoLostWakeupIn(c)
  BY DEF Base, ConnectionType, WakeUpTo, NoLostWakeupIn, unsent
<1>. QED
  BY <1>1 DEF LocalInv

\* raise only disables its event.
LEMMA RaiseKeeps ==
  ASSUME NEW c, NEW e, LocalInv(c)
  PROVE  /\ Base(raise(c, e))
         /\ LeftoverIsPartialIn(raise(c, e))
         /\ WakeUpTo(raise(c, e), {e})
         /\ raise(c, e) = [c EXCEPT !.ev = c.ev \ {e}]
<1>1. raise(c, e) = [c EXCEPT !.ev = c.ev \ {e}]
  BY DEF raise, disable
<1>2. Base(raise(c, e)) /\ LeftoverIsPartialIn(raise(c, e))
  BY <1>1 DEF LocalInv, Base, ConnectionType, UnsentCountedIn, ReceivedKeptIn,
              LeftoverIsPartialIn, unsent
<1>3. WakeUpTo(raise(c, e), {e})
  BY <1>1 DEF LocalInv, Base, ConnectionType, WakeUpTo, NoLostWakeupIn, unsent
<1>. QED
  BY <1>1, <1>2, <1>3

(* What an operation leaves alone.                                         *)

SameConnected(c, d) == d.tcpConnected = c.tcpConnected /\ d.udpConnected = c.udpConnected

SameSent(c, d) ==
  /\ d.udpSentPackets = c.udpSentPackets
  /\ d.udpNextSendIndex = c.udpNextSendIndex
  /\ d.udpPacketsToSendCount = c.udpPacketsToSendCount

SameReceived(c, d) ==
  /\ d.tcpNextSendIndex = c.tcpNextSendIndex
  /\ d.udpReceivedMasterIndex = c.udpReceivedMasterIndex
  /\ d.udpConfirmedMasterIndex = c.udpConfirmedMasterIndex
  /\ d.udpReceivedFinalIndex = c.udpReceivedFinalIndex
  /\ d.udpReceivedPackets = c.udpReceivedPackets

SameConfirmations(c, d) ==
  /\ d.udpConfirmationPackets = c.udpConfirmationPackets
  /\ d.remainConfirmationResendCount = c.remainConfirmationResendCount
  /\ d.remainByeByeResendCount = c.remainByeByeResendCount

SameData(c, d) == d.tcpReceivedData = c.tcpReceivedData

AllSame(c, d) ==
  /\ SameConnected(c, d) /\ SameSent(c, d) /\ SameReceived(c, d)
  /\ SameConfirmations(c, d) /\ SameData(c, d)

\* Enabling and disabling events changes nothing else.
LEMMA EventsKeep ==
  ASSUME NEW c, ConnectionType(c), NEW E \in SUBSET Events
  PROVE  LET d == [c EXCEPT !.ev = E]
         IN  ConnectionType(d) /\ AllSame(c, d) /\ d.ev = E
BY DEF ConnectionType, AllSame, SameConnected, SameSent, SameReceived,
       SameConfirmations, SameData

\* onUdpSentBufferChanged decides about eventTcpRead and nothing else; with at
\* most one packet left it enables it.
LEMMA BufferChangedKeeps ==
  ASSUME NEW c, ConnectionType(c), NEW I
  PROVE  LET d == onUdpSentBufferChanged(c, I)
         IN  /\ ConnectionType(d) /\ AllSame(c, d)
             /\ c.ev \ {"TcpRead"} \subseteq d.ev
             /\ d.ev \subseteq c.ev \cup {"TcpRead"}
             /\ I = {} => "TcpRead" \in d.ev
             /\ \A k \in Nat : I = {k} => "TcpRead" \in d.ev
<1>1. c.ev \cup {"TcpRead"} \in SUBSET Events /\ c.ev \ {"TcpRead"} \in SUBSET Events
  BY DEF ConnectionType, Events
<1>2. I = {} => sentCount(I) <= MaxSentCount
  BY MaxSentCountAssumption DEF sentCount
<1>3. ASSUME NEW k \in Nat, I = {k} PROVE sentCount(I) <= MaxSentCount
  <2>1. Min(I) = k
    BY <1>3, MinIsLeast
  <2>2. Cardinality(I) = 1
    BY <1>3, FS_Singleton
  <2>. QED
    BY <1>3, <2>1, <2>2, MaxSentCountAssumption DEF sentCount
<1>4. CASE sentCount(I) <= MaxSentCount
  BY <1>1, <1>4, EventsKeep DEF onUdpSentBufferChanged, enable
<1>5. CASE ~(sentCount(I) <= MaxSentCount)
  BY <1>1, <1>2, <1>3, <1>5, EventsKeep DEF onUdpSentBufferChanged, disable
<1>. QED
  BY <1>4, <1>5

\* The type of a connection whose send buffer has changed.
LEMMA SendBufferType ==
  ASSUME NEW c, ConnectionType(c),
         NEW P, P \in [DOMAIN P -> SentPacket],
         NEW n \in Nat, DOMAIN P \subseteq 0 .. (n - 1),
         NEW k \in Int, NEW e \in SUBSET Events
  PROVE  ConnectionType([c EXCEPT !.udpSentPackets = P,
                                  !.udpNextSendIndex = n,
                                  !.udpPacketsToSendCount = k,
                                  !.ev = e])
BY DEF ConnectionType

\* addPacket queues one unsent packet under the next index.
LEMMA AddPacketForm ==
  ASSUME NEW c, ConnectionType(c),
         NEW t \in DataTypes, NEW from \in Nat, NEW to \in Nat
  PROVE  LET d == addPacket(c, t, from, to)
             n == c.udpNextSendIndex
         IN  /\ ConnectionType(d) /\ SameConnected(c, d) /\ SameReceived(c, d)
             /\ SameConfirmations(c, d) /\ SameData(c, d)
             /\ DOMAIN d.udpSentPackets = DOMAIN c.udpSentPackets \cup {n}
             /\ n \in Nat /\ n \notin DOMAIN c.udpSentPackets
             /\ \A i \in DOMAIN c.udpSentPackets : d.udpSentPackets[i] = c.udpSentPackets[i]
             /\ ~d.udpSentPackets[n].sent
             /\ d.udpPacketsToSendCount = c.udpPacketsToSendCount + 1
             /\ (c.ev \ {"TcpRead"}) \cup {"UdpWrite"} \subseteq d.ev
<1>. DEFINE n == c.udpNextSendIndex
            m == n + 1
            k == c.udpPacketsToSendCount + 1
            e == c.ev \cup {"UdpWrite"}
            p == [type |-> t, from |-> from, to |-> to,
                  sent |-> FALSE, remainResendCount |-> udpResendCount]
            P == [i \in DOMAIN c.udpSentPackets \cup {n} |->
                    IF i = n THEN p ELSE c.udpSentPackets[i]]
            d == [c EXCEPT !.udpSentPackets = P,
                           !.udpNextSendIndex = m,
                           !.udpPacketsToSendCount = k,
                           !.ev = e]
            r == onUdpSentBufferChanged(d, DOMAIN P)
<1>1. p \in SentPacket
  BY ResendCountAssumption DEF SentPacket
<1>2. P \in [DOMAIN c.udpSentPackets \cup {n} -> SentPacket]
  BY <1>1 DEF ConnectionType
<1>3. n \in Nat /\ n \notin DOMAIN c.udpSentPackets
  BY DEF ConnectionType
<1>4. /\ \A i \in DOMAIN c.udpSentPackets : P[i] = c.udpSentPackets[i]
      /\ ~P[n].sent
  BY <1>3
<1>5. addPacket(c, t, from, to) = r
  BY DEF addPacket
<1>6. DOMAIN P = DOMAIN c.udpSentPackets \cup {n} /\ e = c.ev \cup {"UdpWrite"}
  OBVIOUS
<1>7. k = c.udpPacketsToSendCount + 1
  OBVIOUS
<1>. HIDE DEF P
<1>8. /\ m \in Nat /\ DOMAIN P \subseteq 0 .. (m - 1) /\ P \in [DOMAIN P -> SentPacket]
      /\ k \in Int /\ e \in SUBSET Events
  BY <1>2, <1>3, <1>6 DEF ConnectionType, Events
<1>. HIDE DEF m, k, e, n
<1>13. ConnectionType(d)
  BY <1>8, SendBufferType
<1>9. /\ SameConnected(c, d) /\ SameReceived(c, d)
      /\ SameConfirmations(c, d) /\ SameData(c, d)
      /\ d.udpSentPackets = P
      /\ d.udpPacketsToSendCount = k
      /\ d.ev = e
  BY DEF ConnectionType, SameConnected, SameReceived, SameConfirmations, SameData
<1>. HIDE DEF d
<1>10. ConnectionType(r) /\ AllSame(d, r) /\ d.ev \ {"TcpRead"} \subseteq r.ev
  BY <1>13, BufferChangedKeeps
<1>. HIDE DEF r
<1>11. /\ SameConnected(c, r) /\ SameReceived(c, r)
       /\ SameConfirmations(c, r) /\ SameData(c, r)
       /\ r.udpSentPackets = P /\ r.udpPacketsToSendCount = k
  BY <1>9, <1>10 DEF AllSame, SameConnected, SameSent, SameReceived,
                     SameConfirmations, SameData
<1>12. (c.ev \ {"TcpRead"}) \cup {"UdpWrite"} \subseteq r.ev
  BY <1>6, <1>9, <1>10
<1>. QED
  BY <1>3, <1>4, <1>5, <1>6, <1>7, <1>10, <1>11, <1>12 DEF n

\* addPacket keeps the invariant and leaves the rest of the connection alone.
LEMMA AddPacketKeeps ==
  ASSUME NEW c, Base(c), c.udpConnected, NEW X, WakeUpTo(c, X),
         NEW t \in DataTypes, NEW from \in Nat, NEW to \in Nat
  PROVE  LET d == addPacket(c, t, from, to)
         IN  /\ Base(d) /\ WakeUpTo(d, X)
             /\ SameConnected(c, d) /\ SameReceived(c, d)
             /\ SameConfirmations(c, d) /\ SameData(c, d)
             /\ c.ev \ {"TcpRead"} \subseteq d.ev
<1>. DEFINE d == addPacket(c, t, from, to)
            n == c.udpNextSendIndex
<1>0. ConnectionType(c) /\ UnsentCountedIn(c) /\ ReceivedKeptIn(c)
  BY DEF Base
<1>1. /\ ConnectionType(d) /\ SameConnected(c, d) /\ SameReceived(c, d)
      /\ SameConfirmations(c, d) /\ SameData(c, d)
      /\ DOMAIN d.udpSentPackets = DOMAIN c.udpSentPackets \cup {n}
      /\ n \in Nat /\ n \notin DOMAIN c.udpSentPackets
      /\ \A i \in DOMAIN c.udpSentPackets : d.udpSentPackets[i] = c.udpSentPackets[i]
      /\ ~d.udpSentPackets[n].sent
      /\ d.udpPacketsToSendCount = c.udpPacketsToSendCount + 1
      /\ (c.ev \ {"TcpRead"}) \cup {"UdpWrite"} \subseteq d.ev
  BY <1>0, AddPacketForm
<1>. HIDE DEF d, n
<1>2. unsent(d) = unsent(c) \cup {n} /\ n \notin unsent(c)
  BY <1>1 DEF unsent
<1>3. Cardinality(unsent(d)) = Cardinality(unsent(c)) + 1
  BY <1>0, <1>2, UnsentFinite, FS_AddElement
<1>4. UnsentCountedIn(d) /\ ReceivedKeptIn(d)
  BY <1>0, <1>1, <1>3 DEF UnsentCountedIn, ReceivedKeptIn, SameConnected, SameReceived
<1>5. WakeUpTo(d, X)
  BY <1>0, <1>1, <1>2 DEF WakeUpTo, NoLostWakeupIn, ConnectionType, unsent,
       SameConnected, SameReceived, SameConfirmations, SameData
<1>. QED
  BY <1>1, <1>4, <1>5 DEF Base, d

-----------------------------------------------------------------------------
(* Steps that only change events.                                          *)

\* The invariant depends on the events only through the ones that must be
\* enabled.
LEMMA Transfer ==
  ASSUME NEW c, Base(c), NEW d, ConnectionType(d), AllSame(c, d),
         NEW X, NEW Y, WakeUpTo(c, X), c.ev \cup X \subseteq d.ev \cup Y
  PROVE  /\ Base(d) /\ WakeUpTo(d, Y)
         /\ LeftoverIsPartialIn(c) => LeftoverIsPartialIn(d)
<1>0. ConnectionType(c) /\ UnsentCountedIn(c) /\ ReceivedKeptIn(c)
  BY DEF Base
<1>1. unsent(d) = unsent(c)
  BY DEF unsent, AllSame, SameSent
<1>2. Base(d) /\ (LeftoverIsPartialIn(c) => LeftoverIsPartialIn(d))
  BY <1>0, <1>1 DEF Base, AllSame, SameConnected, SameSent, SameReceived, SameData,
       UnsentCountedIn, ReceivedKeptIn, LeftoverIsPartialIn
<1>3. WakeUpTo(d, Y)
  BY <1>0, <1>1 DEF WakeUpTo, NoLostWakeupIn, ConnectionType, unsent, AllSame,
       SameConnected, SameSent, SameReceived, SameConfirmations, SameData
<1>. QED
  BY <1>2, <1>3

\* Enabling events does what was missing.
LEMMA EnableKeeps ==
  ASSUME NEW c, Base(c), NEW E \in SUBSET Events, NEW X, WakeUpTo(c, X)
  PROVE  LET d == enable(c, E)
         IN  /\ Base(d) /\ AllSame(c, d) /\ d.ev = c.ev \cup E
             /\ WakeUpTo(d, X \ E)
             /\ LeftoverIsPartialIn(c) => LeftoverIsPartialIn(d)
<1>. DEFINE d == enable(c, E)
<1>1. ConnectionType(c) /\ c.ev \cup E \in SUBSET Events
  BY DEF Base, ConnectionType
<1>2. ConnectionType(d) /\ AllSame(c, d) /\ d.ev = c.ev \cup E
  BY <1>1, EventsKeep DEF enable
<1>. HIDE DEF d
<1>3. c.ev \cup X \subseteq d.ev \cup (X \ E)
  BY <1>2
<1>. QED
  BY <1>2, <1>3, Transfer DEF d

\* Disabling events may leave something undone.
LEMMA DisableKeeps ==
  ASSUME NEW c, Base(c), NEW E, NEW X, WakeUpTo(c, X)
  PROVE  LET d == disable(c, E)
         IN  /\ Base(d) /\ AllSame(c, d) /\ d.ev = c.ev \ E
             /\ WakeUpTo(d, X \cup E)
             /\ LeftoverIsPartialIn(c) => LeftoverIsPartialIn(d)
<1>. DEFINE d == disable(c, E)
<1>1. ConnectionType(c) /\ c.ev \ E \in SUBSET Events
  BY DEF Base, ConnectionType
<1>2. ConnectionType(d) /\ AllSame(c, d) /\ d.ev = c.ev \ E
  BY <1>1, EventsKeep DEF disable
<1>. HIDE DEF d
<1>3. c.ev \cup X \subseteq d.ev \cup (X \cup E)
  BY <1>2
<1>. QED
  BY <1>2, <1>3, Transfer DEF d

\* onUdpSentBufferChanged never forgets to read TCP when nothing is buffered,
\* even when it is called before the last packet is erased.
LEMMA BufferChangedInv ==
  ASSUME NEW c, Base(c), NEW X, WakeUpTo(c, X), NEW I,
         DOMAIN c.udpSentPackets = {} => I = {} \/ \E k \in Nat : I = {k}
  PROVE  LET d == onUdpSentBufferChanged(c, I)
         IN  /\ Base(d) /\ AllSame(c, d) /\ WakeUpTo(d, X \ {"TcpRead"})
             /\ c.ev \ {"TcpRead"} \subseteq d.ev
             /\ LeftoverIsPartialIn(c) => LeftoverIsPartialIn(d)
<1>. DEFINE d == onUdpSentBufferChanged(c, I)
<1>0. ConnectionType(c)
  BY DEF Base
<1>1. /\ ConnectionType(d) /\ AllSame(c, d)
      /\ c.ev \ {"TcpRead"} \subseteq d.ev
      /\ I = {} => "TcpRead" \in d.ev
      /\ \A k \in Nat : I = {k} => "TcpRead" \in d.ev
  BY <1>0, BufferChangedKeeps
<1>. HIDE DEF d
<1>2. DOMAIN d.udpSentPackets = {} => "TcpRead" \in d.ev
  BY <1>1 DEF AllSame, SameSent
<1>3. c.ev \cup X \subseteq d.ev \cup (X \cup {"TcpRead"})
  BY <1>1
<1>4. Base(d) /\ WakeUpTo(d, X \cup {"TcpRead"})
      /\ (LeftoverIsPartialIn(c) => LeftoverIsPartialIn(d))
  BY <1>1, <1>3, Transfer
<1>5. WakeUpTo(d, X \ {"TcpRead"})
  BY <1>1, <1>2, <1>4 DEF WakeUpTo, NoLostWakeupIn, ConnectionType, unsent
<1>. QED
  BY <1>1, <1>4, <1>5 DEF d

-----------------------------------------------------------------------------
(* From TCP to UDP.                                                        *)

\* Replacing the waiting bytes.
LEMMA DataKeeps ==
  ASSUME NEW c, Base(c), NEW f \in Nat, NEW g \in Nat, NEW X, WakeUpTo(c, X)
  PROVE  LET d == [c EXCEPT !.tcpReceivedData = [from |-> f, to |-> g]]
         IN  /\ Base(d) /\ WakeUpTo(d, X \cup {"BuildUdpPackets"})
             /\ SameConnected(c, d) /\ SameSent(c, d) /\ SameReceived(c, d)
             /\ SameConfirmations(c, d)
             /\ d.tcpReceivedData = [from |-> f, to |-> g]
             /\ d.ev = c.ev
<1>. DEFINE w == [from |-> f, to |-> g]
            d == [c EXCEPT !.tcpReceivedData = w]
<1>0. ConnectionType(c) /\ UnsentCountedIn(c) /\ ReceivedKeptIn(c) /\ w \in Chunk
  BY DEF Base, Chunk
<1>. HIDE DEF w
<1>1. ConnectionType(d)
  BY <1>0 DEF ConnectionType
<1>2. /\ SameConnected(c, d) /\ SameSent(c, d) /\ SameReceived(c, d)
      /\ SameConfirmations(c, d) /\ d.tcpReceivedData = w /\ d.ev = c.ev
  BY <1>0 DEF ConnectionType, SameConnected, SameSent, SameReceived, SameConfirmations
<1>. HIDE DEF d
<1>3. Base(d)
  BY <1>0, <1>1, <1>2 DEF Base, UnsentCountedIn, ReceivedKeptIn, unsent,
       SameConnected, SameSent, SameReceived
<1>4. WakeUpTo(d, X \cup {"BuildUdpPackets"})
  BY <1>0, <1>1, <1>2 DEF WakeUpTo, NoLostWakeupIn, ConnectionType, unsent,
       SameConnected, SameSent, SameReceived, SameConfirmations
<1>. QED
  BY <1>2, <1>3, <1>4 DEF d, w

\* How many of the waiting bytes go into the next packet.
LEMMA PacketBytesFacts ==
  ASSUME NEW size \in Nat, NEW flush,
         size < udpSendPacketSize + udpSendPacketSize
  PROVE  /\ packetBytes(size, flush) \in 0 .. size
         /\ size - packetBytes(size, flush) < udpSendPacketSize
BY PacketSizeAssumption DEF packetBytes

\* Less than a packet is less than two.
LEMMA PartialIsSmall ==
  ASSUME NEW c, ConnectionType(c), LeftoverIsPartialIn(c)
  PROVE  /\ c.tcpReceivedData.from <= c.tcpReceivedData.to
         /\ c.tcpReceivedData.to - c.tcpReceivedData.from
              < udpSendPacketSize + udpSendPacketSize
<1>1. c.tcpReceivedData.from \in Nat /\ c.tcpReceivedData.to \in Nat
  BY DEF ConnectionType, Chunk
<1>. QED
  BY <1>1, PacketSizeAssumption DEF LeftoverIsPartialIn

\* buildUdpPackets leaves less than a packet behind, with eventBuildUdpPackets
\* enabled for it.
LEMMA BuildUdpPacketsKeeps ==
  ASSUME NEW c, Base(c), NEW X, WakeUpTo(c, X), NEW flush,
         c.tcpReceivedData.from <= c.tcpReceivedData.to,
         c.tcpReceivedData.to - c.tcpReceivedData.from
           < udpSendPacketSize + udpSendPacketSize
  PROVE  LET r == buildUdpPackets(c, flush)
         IN  /\ Base(r) /\ WakeUpTo(r, X \ {"BuildUdpPackets"})
             /\ c.udpConnected \/ LeftoverIsPartialIn(c) => LeftoverIsPartialIn(r)
             /\ SameConnected(c, r) /\ SameReceived(c, r) /\ SameConfirmations(c, r)
             /\ r.tcpReceivedData.to = c.tcpReceivedData.to
<1>. DEFINE r == buildUdpPackets(c, flush)
            d == c.tcpReceivedData
            from == IF finalReceived(c) THEN d.to ELSE d.from
            n == packetBytes(d.to - from, flush)
            rest == [from |-> from + n, to |-> d.to]
            cut == [c EXCEPT !.tcpReceivedData = rest]
            built == IF n > 0 THEN addPacket(cut, "Data", from, from + n) ELSE cut
<1>0. ConnectionType(c)
  BY DEF Base
<1>1. CASE ~c.udpConnected
  <2>1. r = c
    BY <1>1 DEF buildUdpPackets
  <2>2. WakeUpTo(c, X \ {"BuildUdpPackets"})
    BY <1>0, <1>1 DEF WakeUpTo, NoLostWakeupIn, ConnectionType, unsent
  <2>. QED
    BY <1>1, <2>1, <2>2 DEF SameConnected, SameReceived, SameConfirmations
<1>2. CASE c.udpConnected
  <2>1. d.from \in Nat /\ d.to \in Nat /\ from \in Nat /\ from <= d.to
        /\ d.to - from \in Nat /\ d.to - from < udpSendPacketSize + udpSendPacketSize
    BY <1>0, PacketSizeAssumption DEF ConnectionType, Chunk
  <2>2. r = IF rest.from = rest.to THEN disable(built, {"BuildUdpPackets"})
                                   ELSE enable(built, {"BuildUdpPackets"})
    BY <1>2 DEF buildUdpPackets
  <2>. HIDE DEF r, from
  <2>3. n \in 0 .. (d.to - from) /\ (d.to - from) - n < udpSendPacketSize
    BY <2>1, PacketBytesFacts
  <2>. HIDE DEF n, d
  <2>4. /\ from + n \in Nat /\ d.to \in Nat
        /\ from + n <= d.to /\ d.to - (from + n) < udpSendPacketSize
    BY <2>1, <2>3, PacketSizeAssumption
  <2>5. /\ Base(cut) /\ WakeUpTo(cut, X \cup {"BuildUdpPackets"})
        /\ SameConnected(c, cut) /\ SameReceived(c, cut) /\ SameConfirmations(c, cut)
        /\ cut.tcpReceivedData = rest
    BY <2>4, DataKeeps
  <2>. HIDE DEF cut
  <2>6. /\ Base(built) /\ WakeUpTo(built, X \cup {"BuildUdpPackets"})
        /\ SameConnected(c, built) /\ SameReceived(c, built)
        /\ SameConfirmations(c, built)
        /\ built.tcpReceivedData = rest
    <3>1. CASE n > 0
      <4>1. cut.udpConnected /\ "Data" \in DataTypes
        BY <1>2, <2>5 DEF SameConnected, DataTypes
      <4>. DEFINE q == addPacket(cut, "Data", from, from + n)
      <4>2. /\ Base(q) /\ WakeUpTo(q, X \cup {"BuildUdpPackets"})
            /\ SameConnected(cut, q) /\ SameReceived(cut, q)
            /\ SameConfirmations(cut, q) /\ SameData(cut, q)
        BY <2>1, <2>4, <2>5, <4>1, AddPacketKeeps
      <4>3. built = q
        BY <3>1
      <4>. HIDE DEF q, built
      <4>. QED
        BY <2>5, <4>2, <4>3 DEF SameConnected, SameReceived, SameConfirmations, SameData
    <3>2. CASE ~(n > 0)
      BY <2>5, <3>2
    <3>. QED
      BY <3>1, <3>2
  <2>. HIDE DEF built
  <2>7. CASE rest.from = rest.to
    <3>1. r = disable(built, {"BuildUdpPackets"})
      BY <2>2, <2>7
    <3>2. /\ Base(r) /\ AllSame(built, r)
          /\ WakeUpTo(r, (X \cup {"BuildUdpPackets"}) \cup {"BuildUdpPackets"})
      BY <2>6, <3>1, DisableKeeps
    <3>3. r.tcpReceivedData = rest
      BY <2>6, <3>2 DEF AllSame, SameData
    <3>4. WakeUpTo(r, X \ {"BuildUdpPackets"})
      BY <2>7, <3>2, <3>3 DEF WakeUpTo, NoLostWakeupIn, Base, ConnectionType, unsent
    <3>5. LeftoverIsPartialIn(r)
      BY <2>4, <3>3 DEF LeftoverIsPartialIn
    <3>. QED
      BY <2>6, <3>2, <3>3, <3>4, <3>5
         DEF AllSame, SameConnected, SameReceived, SameConfirmations, r, d
  <2>8. CASE rest.from # rest.to
    <3>1. r = enable(built, {"BuildUdpPackets"}) /\ {"BuildUdpPackets"} \in SUBSET Events
      BY <2>2, <2>8 DEF Events
    <3>2. /\ Base(r) /\ AllSame(built, r)
          /\ WakeUpTo(r, (X \cup {"BuildUdpPackets"}) \ {"BuildUdpPackets"})
      BY <2>6, <3>1, EnableKeeps
    <3>3. r.tcpReceivedData = rest
      BY <2>6, <3>2 DEF AllSame, SameData
    <3>4. (X \cup {"BuildUdpPackets"}) \ {"BuildUdpPackets"} = X \ {"BuildUdpPackets"}
      OBVIOUS
    <3>5. LeftoverIsPartialIn(r)
      BY <2>4, <3>3 DEF LeftoverIsPartialIn
    <3>. QED
      BY <2>6, <3>2, <3>3, <3>4, <3>5
         DEF AllSame, SameConnected, SameReceived, SameConfirmations, r, d
  <2>. QED
    BY <2>7, <2>8
<1>. QED
  BY <1>1, <1>2

\* tcpRead, as it runs once its event is raised.
LEMMA TcpReadKeeps ==
  ASSUME NEW c, Base(c), LeftoverIsPartialIn(c), WakeUpTo(c, {"TcpRead"}),
         NEW size \in 0 .. udpSendPacketSize
  PROVE  LET r == tcpRead(c, size)
         IN  Base(r) /\ LeftoverIsPartialIn(r) /\ WakeUpTo(r, {})
<1>. DEFINE r == tcpRead(c, size)
            d == c.tcpReceivedData
            more == [c EXCEPT !.tcpReceivedData = [from |-> d.from, to |-> d.to + size]]
            read == IF size > 0 /\ c.udpConnected THEN buildUdpPackets(more, FALSE) ELSE c
<1>0. ConnectionType(c)
  BY DEF Base
<1>1. CASE ~c.tcpConnected
  BY <1>0, <1>1 DEF tcpRead, WakeUpTo, NoLostWakeupIn, ConnectionType, unsent
<1>2. CASE c.tcpConnected
  <2>1. r = onUdpSentBufferChanged(read, DOMAIN read.udpSentPackets)
    BY <1>2 DEF tcpRead
  <2>2. Base(read) /\ LeftoverIsPartialIn(read) /\ WakeUpTo(read, {"TcpRead"})
    <3>1. CASE size > 0 /\ c.udpConnected
      <4>a. d \in Chunk
        BY <1>0 DEF ConnectionType
      <4>b. d.from <= d.to /\ d.to - d.from < udpSendPacketSize
        BY DEF LeftoverIsPartialIn
      <4>. HIDE DEF d
      <4>1. /\ d.from \in Nat /\ d.to + size \in Nat /\ d.from <= d.to + size
            /\ (d.to + size) - d.from < udpSendPacketSize + udpSendPacketSize
        BY <4>a, <4>b, PacketSizeAssumption DEF Chunk
      <4>2. /\ Base(more) /\ WakeUpTo(more, {"TcpRead"} \cup {"BuildUdpPackets"})
            /\ SameConnected(c, more)
            /\ more.tcpReceivedData = [from |-> d.from, to |-> d.to + size]
        BY <4>1, DataKeeps
      <4>. HIDE DEF more
      <4>3. /\ more.tcpReceivedData.from <= more.tcpReceivedData.to
            /\ more.tcpReceivedData.to - more.tcpReceivedData.from
                 < udpSendPacketSize + udpSendPacketSize
            /\ more.udpConnected
        BY <3>1, <4>1, <4>2 DEF SameConnected
      <4>. DEFINE q == buildUdpPackets(more, FALSE)
      <4>4. /\ Base(q) /\ LeftoverIsPartialIn(q)
            /\ WakeUpTo(q, ({"TcpRead"} \cup {"BuildUdpPackets"}) \ {"BuildUdpPackets"})
        BY <4>2, <4>3, BuildUdpPacketsKeeps
      <4>5. ({"TcpRead"} \cup {"BuildUdpPackets"}) \ {"BuildUdpPackets"} = {"TcpRead"}
        OBVIOUS
      <4>6. read = q
        BY <3>1
      <4>. HIDE DEF q, read
      <4>. QED
        BY <4>4, <4>5, <4>6
    <3>2. CASE ~(size > 0 /\ c.udpConnected)
      BY <3>2
    <3>. QED
      BY <3>1, <3>2
  <2>. HIDE DEF read, r
  <2>3. Base(r) /\ LeftoverIsPartialIn(r) /\ WakeUpTo(r, {"TcpRead"} \ {"TcpRead"})
    BY <2>1, <2>2, BufferChangedInv
  <2>4. {"TcpRead"} \ {"TcpRead"} = {}
    OBVIOUS
  <2>. QED
    BY <2>3, <2>4 DEF r
<1>. QED
  BY <1>1, <1>2

-----------------------------------------------------------------------------
(* Closing.                                                                *)

\* With TCP closed, passing over what was received needs no event.
LEMMA TcpWriteFakeKeeps ==
  ASSUME NEW c, Base(c), NEW X, WakeUpTo(c, X)
  PROVE  LET r == tcpWriteFake(c)
         IN  /\ Base(r) /\ WakeUpTo(r, X)
             /\ SameConnected(c, r) /\ SameSent(c, r) /\ SameData(c, r)
             /\ SameConfirmations(c, r) /\ r.ev = c.ev
             /\ r.udpReceivedMasterIndex = c.udpReceivedMasterIndex
<1>. DEFINE r == tcpWriteFake(c)
            m == c.udpReceivedMasterIndex
<1>0. ConnectionType(c) /\ UnsentCountedIn(c) /\ ReceivedKeptIn(c)
  BY DEF Base
<1>1. CASE c.tcpConnected
  BY <1>1 DEF tcpWriteFake, SameConnected, SameSent, SameData, SameConfirmations
<1>2. CASE ~c.tcpConnected
  <2>1. r = [c EXCEPT !.tcpNextSendIndex = m]
    BY <1>2 DEF tcpWriteFake
  <2>2. m \in Nat /\ c.tcpNextSendIndex \in Nat /\ c.tcpNextSendIndex <= m
    BY <1>0 DEF ConnectionType, ReceivedKeptIn
  <2>3. DOMAIN c.udpReceivedPackets \subseteq 0 .. (m + ReceiveWindow)
    BY <1>0, <2>2, ReceiveWindowAssumption DEF ConnectionType
  <2>. HIDE DEF r
  <2>4. /\ r.tcpNextSendIndex = m
        /\ SameConnected(c, r) /\ SameSent(c, r) /\ SameData(c, r)
        /\ SameConfirmations(c, r) /\ r.ev = c.ev
        /\ r.udpReceivedMasterIndex = c.udpReceivedMasterIndex
        /\ r.udpReceivedPackets = c.udpReceivedPackets
    BY <1>0, <2>1 DEF ConnectionType, SameConnected, SameSent, SameData, SameConfirmations
  <2>5. ConnectionType(r)
    BY <1>0, <2>1, <2>2, <2>3 DEF ConnectionType
  <2>6. Base(r)
    BY <1>0, <2>2, <2>4, <2>5 DEF Base, UnsentCountedIn, ReceivedKeptIn, unsent,
         SameConnected, SameSent
  <2>7. WakeUpTo(r, X)
    BY <1>0, <1>2, <2>2, <2>4, <2>5 DEF WakeUpTo, NoLostWakeupIn, ConnectionType, unsent,
         SameConnected, SameSent, SameData, SameConfirmations
  <2>. QED
    BY <2>4, <2>6, <2>7 DEF r
<1>. QED
  BY <1>1, <1>2

\* tcpClose needs neither TCP event afterwards; the last packet of the stream is
\* queued, or eventClose enabled when UDP is closed already.
LEMMA TcpCloseKeeps ==
  ASSUME NEW c, Base(c), LeftoverIsPartialIn(c), NEW X, WakeUpTo(c, X), NEW error
  PROVE  LET r == tcpClose(c, error)
         IN  /\ Base(r) /\ LeftoverIsPartialIn(r)
             /\ WakeUpTo(r, X \ {"TcpRead", "TcpWrite"})
<1>. DEFINE r == tcpClose(c, error)
            E == c.ev \ {"TcpRead", "TcpWrite"}
            Y == X \ {"TcpRead", "TcpWrite"}
            closed == [c EXCEPT !.tcpConnected = FALSE, !.socketRead = FALSE,
                                !.socketWrite = FALSE, !.ev = E]
            fake == tcpWriteFake(closed)
            flushed == buildUdpPackets(fake, TRUE)
            t == IF error THEN "Disconnect" ELSE "Bye"
            end == c.tcpReceivedData.to
<1>0. ConnectionType(c) /\ UnsentCountedIn(c) /\ ReceivedKeptIn(c)
  BY DEF Base
<1>1. CASE ~c.tcpConnected
  BY <1>0, <1>1 DEF tcpClose, WakeUpTo, NoLostWakeupIn, ConnectionType, unsent
<1>2. CASE c.tcpConnected
  <2>1. E \in SUBSET Events /\ E = c.ev \ {"TcpRead", "TcpWrite"}
    BY <1>0 DEF ConnectionType
  <2>2. r = IF ~c.udpConnected THEN enable(closed, {"Close"})
            ELSE addPacket(flushed, t, end, end)
    BY <1>2 DEF tcpClose
  <2>. HIDE DEF E, r
  <2>3. /\ ConnectionType(closed) /\ ~closed.tcpConnected
        /\ closed.udpConnected = c.udpConnected
        /\ SameSent(c, closed) /\ SameReceived(c, closed) /\ SameConfirmations(c, closed)
        /\ SameData(c, closed) /\ closed.ev = E
    BY <1>0, <2>1 DEF ConnectionType, SameSent, SameReceived, SameConfirmations, SameData
  <2>. HIDE DEF closed
  <2>4. Base(closed) /\ LeftoverIsPartialIn(closed)
    BY <1>0, <2>3 DEF Base, UnsentCountedIn, ReceivedKeptIn, LeftoverIsPartialIn, unsent,
         SameSent, SameReceived, SameData
  <2>5. WakeUpTo(closed, Y \cup {"Close"})
    BY <1>0, <2>1, <2>3 DEF WakeUpTo, NoLostWakeupIn, ConnectionType, unsent,
         SameSent, SameReceived, SameConfirmations, SameData
  <2>6. CASE ~c.udpConnected
    <3>1. {"Close"} \in SUBSET Events /\ r = enable(closed, {"Close"})
      BY <2>2, <2>6 DEF Events
    <3>2. Base(r) /\ LeftoverIsPartialIn(r) /\ WakeUpTo(r, (Y \cup {"Close"}) \ {"Close"})
      BY <2>4, <2>5, <3>1, EnableKeeps
    <3>3. WakeUpTo(r, Y)
      BY <3>2 DEF WakeUpTo, NoLostWakeupIn, Base, ConnectionType, unsent
    <3>. QED
      BY <3>2, <3>3 DEF r
  <2>7. CASE c.udpConnected
    <3>1. WakeUpTo(closed, Y)
      BY <2>3, <2>5, <2>7 DEF WakeUpTo, NoLostWakeupIn, ConnectionType, unsent
    <3>2. Base(fake) /\ WakeUpTo(fake, Y) /\ SameConnected(closed, fake)
          /\ SameData(closed, fake)
      BY <2>4, <3>1, TcpWriteFakeKeeps
    <3>. HIDE DEF fake
    <3>3. LeftoverIsPartialIn(fake) /\ fake.udpConnected /\ ConnectionType(fake)
      BY <2>3, <2>4, <2>7, <3>2 DEF LeftoverIsPartialIn, SameData, SameConnected, Base
    <3>4. /\ Base(flushed) /\ WakeUpTo(flushed, Y \ {"BuildUdpPackets"})
          /\ LeftoverIsPartialIn(flushed) /\ SameConnected(fake, flushed)
      BY <3>2, <3>3, PartialIsSmall, BuildUdpPacketsKeeps
    <3>. HIDE DEF flushed
    <3>5. flushed.udpConnected /\ t \in DataTypes /\ end \in Nat
      BY <1>0, <3>3, <3>4 DEF SameConnected, DataTypes, ConnectionType, Chunk
    <3>. HIDE DEF t, end
    <3>6. r = addPacket(flushed, t, end, end)
      BY <2>2, <2>7
    <3>7. /\ Base(r) /\ WakeUpTo(r, Y \ {"BuildUdpPackets"}) /\ SameData(flushed, r)
      BY <3>4, <3>5, <3>6, AddPacketKeeps
    <3>8. WakeUpTo(r, Y)
      BY <3>7 DEF WakeUpTo, NoLostWakeupIn, Base, ConnectionType, unsent
    <3>9. LeftoverIsPartialIn(r)
      BY <3>4, <3>7 DEF LeftoverIsPartialIn, SameData
    <3>. QED
      BY <3>7, <3>8, <3>9 DEF r
  <2>. QED
    BY <2>6, <2>7
<1>. QED
  BY <1>1, <1>2

\* The type of a connection whose UDP side is cleared.
LEMMA ClearedType ==
  ASSUME NEW c, ConnectionType(c), NEW w \in Chunk,
         NEW Q \in Seq(Datagram), NEW P \in [{} -> SentPacket], NEW e \in SUBSET Events
  PROVE  ConnectionType([c EXCEPT !.udpConnected = FALSE,
                                  !.socketRead = FALSE,
                                  !.tcpReceivedData = w,
                                  !.udpConfirmationPackets = Q,
                                  !.udpSentPackets = P,
                                  !.ev = e])
BY DEF ConnectionType

\* After udpClose only a write to TCP or the deletion can be pending.
LEMMA UdpCloseKeeps ==
  ASSUME NEW c, Base(c), LeftoverIsPartialIn(c), NEW X, WakeUpTo(c, X)
  PROVE  LET r == udpClose(c)
         IN  /\ Base(r) /\ LeftoverIsPartialIn(r)
             /\ WakeUpTo(r, X \cap {"TcpWrite", "Close"})
<1>. DEFINE r == udpClose(c)
            end == c.tcpReceivedData.to
            Y == X \cap {"TcpWrite", "Close"}
            w == [from |-> end, to |-> end]
            E == c.ev \ {"BuildUdpPackets", "BuildConfirmations", "UdpResend", "UdpWrite"}
            cleared == [c EXCEPT !.udpConnected = FALSE,
                                 !.socketRead = FALSE,
                                 !.tcpReceivedData = w,
                                 !.udpConfirmationPackets = <<>>,
                                 !.udpSentPackets = emptyMap,
                                 !.ev = E]
            closed == onUdpSentBufferChanged(cleared, {})
<1>0. ConnectionType(c) /\ UnsentCountedIn(c) /\ ReceivedKeptIn(c)
  BY DEF Base
<1>1. CASE ~c.udpConnected
  BY <1>0, <1>1 DEF udpClose, WakeUpTo, NoLostWakeupIn, ConnectionType, unsent
<1>2. CASE c.udpConnected
  <2>1. /\ E \in SUBSET Events /\ w \in Chunk /\ w.from = w.to /\ w.to \in Nat
        /\ E = c.ev \ {"BuildUdpPackets", "BuildConfirmations", "UdpResend", "UdpWrite"}
    BY <1>0 DEF ConnectionType, Chunk
  <2>2. DOMAIN emptyMap = {} /\ emptyMap \in [{} -> SentPacket] /\ <<>> \in Seq(Datagram)
    BY DEF emptyMap
  <2>3. r = IF ~c.tcpConnected THEN enable(closed, {"Close"})
            ELSE IF c.tcpNextSendIndex >= c.udpReceivedMasterIndex
              THEN tcpClose(closed, FALSE)
              ELSE closed
    BY <1>2 DEF udpClose
  <2>. HIDE DEF E, w, r
  <2>4. /\ ~cleared.udpConnected /\ cleared.tcpConnected = c.tcpConnected
        /\ cleared.tcpReceivedData = w /\ cleared.ev = E
        /\ cleared.udpSentPackets = emptyMap
        /\ SameReceived(c, cleared)
    BY <1>0 DEF ConnectionType, SameReceived
  <2>5. ConnectionType(cleared)
    BY <1>0, <2>1, <2>2, ClearedType
  <2>. HIDE DEF cleared
  <2>6. Base(cleared) /\ LeftoverIsPartialIn(cleared)
    BY <1>0, <2>1, <2>4, <2>5, PacketSizeAssumption
       DEF Base, UnsentCountedIn, ReceivedKeptIn, LeftoverIsPartialIn, SameReceived
  <2>7. WakeUpTo(cleared, Y \cup {"Close"})
    BY <1>0, <2>1, <2>4, <2>5 DEF WakeUpTo, NoLostWakeupIn, ConnectionType, unsent, SameReceived
  <2>8. /\ Base(closed) /\ LeftoverIsPartialIn(closed) /\ AllSame(cleared, closed)
        /\ WakeUpTo(closed, (Y \cup {"Close"}) \ {"TcpRead"})
    BY <2>2, <2>4, <2>6, <2>7, BufferChangedInv
  <2>. HIDE DEF closed
  <2>9. closed.tcpConnected = c.tcpConnected /\ ~closed.udpConnected
    BY <2>4, <2>8 DEF AllSame, SameConnected
  <2>10. CASE ~c.tcpConnected
    <3>1. {"Close"} \in SUBSET Events /\ r = enable(closed, {"Close"})
      BY <2>3, <2>10 DEF Events
    <3>2. /\ Base(r) /\ LeftoverIsPartialIn(r)
          /\ WakeUpTo(r, ((Y \cup {"Close"}) \ {"TcpRead"}) \ {"Close"})
      BY <2>8, <3>1, EnableKeeps
    <3>3. WakeUpTo(r, Y)
      BY <3>2 DEF WakeUpTo, NoLostWakeupIn, Base, ConnectionType, unsent
    <3>. QED
      BY <3>2, <3>3 DEF r
  <2>11. CASE c.tcpConnected
    <3>1. WakeUpTo(closed, Y)
      BY <2>8, <2>9, <2>11 DEF WakeUpTo, NoLostWakeupIn, Base, ConnectionType, unsent
    <3>2. CASE c.tcpNextSendIndex >= c.udpReceivedMasterIndex
      <4>1. r = tcpClose(closed, FALSE)
        BY <2>3, <2>11, <3>2
      <4>2. /\ Base(r) /\ LeftoverIsPartialIn(r)
            /\ WakeUpTo(r, Y \ {"TcpRead", "TcpWrite"})
        BY <2>8, <3>1, <4>1, TcpCloseKeeps
      <4>3. WakeUpTo(r, Y)
        BY <4>2 DEF WakeUpTo, NoLostWakeupIn, Base, ConnectionType, unsent
      <4>. QED
        BY <4>2, <4>3 DEF r
    <3>3. CASE ~(c.tcpNextSendIndex >= c.udpReceivedMasterIndex)
      <4>1. r = closed
        BY <2>3, <2>11, <3>3
      <4>. QED
        BY <2>8, <3>1, <4>1 DEF r
    <3>. QED
      BY <3>2, <3>3
  <2>. QED
    BY <1>0, <2>10, <2>11 DEF ConnectionType
<1>. QED
  BY <1>0, <1>1, <1>2 DEF ConnectionType

\* The check that ends udpRead.
LEMMA FinishKeeps ==
  ASSUME NEW c, Base(c), LeftoverIsPartialIn(c), NEW X, WakeUpTo(c, X)
  PROVE  Base(finish(c)) /\ LeftoverIsPartialIn(finish(c)) /\ WakeUpTo(finish(c), X)
<1>1. CASE isUdpFinished(c)
  <2>1. finish(c) = udpClose(c)
    BY <1>1 DEF finish
  <2>2. /\ Base(finish(c)) /\ LeftoverIsPartialIn(finish(c))
        /\ WakeUpTo(finish(c), X \cap {"TcpWrite", "Close"})
    BY <2>1, UdpCloseKeeps
  <2>3. WakeUpTo(finish(c), X)
    BY <2>2 DEF WakeUpTo, NoLostWakeupIn, Base, ConnectionType, unsent
  <2>. QED
    BY <2>2, <2>3
<1>2. CASE ~isUdpFinished(c)
  BY <1>2 DEF finish
<1>. QED
  BY <1>1, <1>2

-----------------------------------------------------------------------------
(* From UDP to TCP.                                                        *)

\* TCP has been written up to an index that was received.
LEMMA NextIndexKeeps ==
  ASSUME NEW c, Base(c), NEW X, WakeUpTo(c, X), NEW n \in Nat,
         c.tcpNextSendIndex <= n, n <= c.udpReceivedMasterIndex
  PROVE  LET r == [c EXCEPT !.tcpNextSendIndex = n]
         IN  /\ Base(r) /\ WakeUpTo(r, X)
             /\ LeftoverIsPartialIn(c) => LeftoverIsPartialIn(r)
             /\ SameConnected(c, r) /\ r.tcpNextSendIndex = n
             /\ r.udpReceivedMasterIndex = c.udpReceivedMasterIndex
<1>. DEFINE r == [c EXCEPT !.tcpNextSendIndex = n]
<1>0. ConnectionType(c) /\ UnsentCountedIn(c) /\ ReceivedKeptIn(c)
  BY DEF Base
<1>1. DOMAIN c.udpReceivedPackets \subseteq 0 .. (n + ReceiveWindow)
  BY <1>0, ReceiveWindowAssumption DEF ConnectionType
<1>2. /\ SameConnected(c, r) /\ SameSent(c, r) /\ SameData(c, r) /\ SameConfirmations(c, r)
      /\ r.tcpNextSendIndex = n /\ r.ev = c.ev
      /\ r.udpReceivedMasterIndex = c.udpReceivedMasterIndex
      /\ r.udpReceivedPackets = c.udpReceivedPackets
  BY <1>0 DEF ConnectionType, SameConnected, SameSent, SameData, SameConfirmations
<1>3. ConnectionType(r)
  BY <1>0, <1>1 DEF ConnectionType
<1>. HIDE DEF r
<1>4. c.tcpNextSendIndex \in Nat /\ c.udpReceivedMasterIndex \in Nat
  BY <1>0 DEF ConnectionType
<1>5. UnsentCountedIn(r) /\ ReceivedKeptIn(r)
      /\ (LeftoverIsPartialIn(c) => LeftoverIsPartialIn(r))
  BY <1>0, <1>2, <1>4 DEF UnsentCountedIn, ReceivedKeptIn, LeftoverIsPartialIn, unsent,
       SameConnected, SameSent, SameData
<1>6. WakeUpTo(r, X)
  BY <1>0, <1>2, <1>3, <1>4 DEF WakeUpTo, NoLostWakeupIn, ConnectionType, unsent,
       SameConnected, SameSent, SameData, SameConfirmations
<1>. QED
  BY <1>2, <1>3, <1>5, <1>6 DEF Base, r

\* The bytes of one packet, as Socket::write gets them.
LEMMA BytesAreSeq ==
  ASSUME NEW from \in Nat, NEW size \in Int
  PROVE  [j \in 1 .. size |-> from + j - 1] \in Seq(Nat)
<1>1. CASE size \in Nat
  <2>1. [j \in 1 .. size |-> from + j - 1] \in [1 .. size -> Nat]
    OBVIOUS
  <2>. QED
    BY <1>1, <2>1
<1>2. CASE size \notin Nat
  <2>1. 1 .. size = 1 .. 0
    BY <1>2
  <2>2. [j \in 1 .. size |-> from + j - 1] \in [1 .. 0 -> Nat]
    BY <2>1
  <2>. QED
    BY <2>2
<1>. QED
  BY <1>1, <1>2

\* tcpWrite, as it runs once its event is raised.
LEMMA TcpWriteKeeps ==
  ASSUME NEW c, Base(c), LeftoverIsPartialIn(c), WakeUpTo(c, {"TcpWrite"}), NEW n \in Nat
  PROVE  LET r == tcpWrite(c, n)
         IN  Base(r) /\ LeftoverIsPartialIn(r) /\ WakeUpTo(r, {})
<1>. DEFINE r == tcpWrite(c, n)
            received == c.udpReceivedPackets
            master == c.udpReceivedMasterIndex
            first == c.tcpNextSendIndex
            k == IF first < master /\ received[first].type = "Hello" THEN first + 1 ELSE first
            p == received[k]
            size == IF n < p.to - p.from THEN n ELSE p.to - p.from
            next == nextToWrite(p, k, size)
            q == [type |-> p.type, from |-> p.from + size, to |-> p.to]
            R == [received EXCEPT ![k] = q]
            W == c.tcpWritten \o [j \in 1 .. size |-> p.from + j - 1]
            wrote == [c EXCEPT !.tcpNextSendIndex = next,
                               !.udpReceivedPackets = R,
                               !.tcpWritten = W]
<1>0. ConnectionType(c) /\ UnsentCountedIn(c) /\ ReceivedKeptIn(c)
  BY DEF Base
<1>1. /\ first \in Nat /\ master \in Nat /\ first <= master
      /\ received \in [DOMAIN received -> ReceivedPacket]
      /\ c.tcpWritten \in Seq(Nat)
      /\ \A i \in Nat : first <= i /\ i < master => i \in DOMAIN received
      /\ DOMAIN received \subseteq 0 .. (first + ReceiveWindow)
  BY <1>0 DEF ConnectionType, ReceivedKeptIn
<1>2. k \in Nat /\ first <= k /\ k <= master
  BY <1>1
<1>3. CASE ~c.tcpConnected
  <2>1. r = c
    BY <1>3 DEF tcpWrite
  <2>2. WakeUpTo(c, {})
    BY <1>0, <1>3 DEF WakeUpTo, NoLostWakeupIn, ConnectionType, unsent
  <2>. QED
    BY <2>1, <2>2
<1>4. CASE c.tcpConnected
  <2>1. r = IF k >= master THEN [c EXCEPT !.tcpNextSendIndex = k]
            ELSE IF p.type \in FinalTypes
              THEN tcpClose([c EXCEPT !.tcpNextSendIndex = k + 1], FALSE)
            ELSE IF next < master THEN enable(wrote, {"TcpWrite"}) ELSE wrote
    BY <1>4 DEF tcpWrite
  <2>. HIDE DEF r, k
  <2>2. CASE k >= master
    <3>1. /\ Base(r) /\ WakeUpTo(r, {"TcpWrite"}) /\ LeftoverIsPartialIn(r)
          /\ r.tcpNextSendIndex = k /\ r.udpReceivedMasterIndex = master
      BY <1>2, <2>1, <2>2, NextIndexKeeps
    <3>2. WakeUpTo(r, {})
      <4>1. ConnectionType(r) /\ WakeUpTo(r, {"TcpWrite"})
        BY <3>1 DEF Base
      <4>2. ~(r.tcpNextSendIndex < r.udpReceivedMasterIndex)
        BY <1>1, <1>2, <2>2, <3>1
      <4>. QED
        BY <4>1, <4>2 DEF WakeUpTo, NoLostWakeupIn, ConnectionType, unsent
    <3>. QED
      BY <3>1, <3>2 DEF r
  <2>3. CASE k < master /\ p.type \in FinalTypes
    <3>. DEFINE s == [c EXCEPT !.tcpNextSendIndex = k + 1]
    <3>1. k + 1 \in Nat /\ first <= k + 1 /\ k + 1 <= master
      BY <1>1, <1>2, <2>3
    <3>2. Base(s) /\ WakeUpTo(s, {"TcpWrite"}) /\ LeftoverIsPartialIn(s)
      BY <3>1, NextIndexKeeps
    <3>3. ~(k >= master)
      BY <1>1, <1>2, <2>3
    <3>6. r = tcpClose(s, FALSE)
      BY <2>1, <2>3, <3>3
    <3>. HIDE DEF s
    <3>4. /\ Base(r) /\ LeftoverIsPartialIn(r)
          /\ WakeUpTo(r, {"TcpWrite"} \ {"TcpRead", "TcpWrite"})
      BY <3>2, <3>6, TcpCloseKeeps
    <3>5. WakeUpTo(r, {})
      BY <3>4 DEF WakeUpTo, NoLostWakeupIn, Base, ConnectionType, unsent
    <3>. QED
      BY <3>4, <3>5 DEF r
  <2>4. CASE k < master /\ p.type \notin FinalTypes
    <3>1. k \in DOMAIN received /\ p \in ReceivedPacket
      BY <1>1, <1>2, <2>4
    <3>2. p.from \in Nat /\ p.to \in Nat /\ p.type \in DataTypes
      BY <3>1 DEF ReceivedPacket
    <3>. HIDE DEF p
    <3>3. size \in Int /\ p.from + size \in Nat
      BY <3>2
    <3>4. next \in Nat /\ first <= next /\ next <= master
      BY <1>1, <1>2, <2>4 DEF nextToWrite
    <3>. HIDE DEF size, next
    <3>5. q \in ReceivedPacket
      BY <3>2, <3>3 DEF ReceivedPacket
    <3>. HIDE DEF q
    <3>6. R \in [DOMAIN R -> ReceivedPacket] /\ DOMAIN R = DOMAIN received
      BY <1>1, <3>1, <3>5
    <3>7. W \in Seq(Nat)
      BY <1>1, <3>2, <3>3, BytesAreSeq
    <3>8. DOMAIN R \subseteq 0 .. (next + ReceiveWindow)
      BY <1>1, <3>4, <3>6, ReceiveWindowAssumption
    <3>. HIDE DEF R, W
    <3>9. /\ SameConnected(c, wrote) /\ SameSent(c, wrote) /\ SameData(c, wrote)
          /\ SameConfirmations(c, wrote) /\ wrote.ev = c.ev
          /\ wrote.tcpNextSendIndex = next /\ wrote.udpReceivedPackets = R
          /\ wrote.udpReceivedMasterIndex = master
      BY <1>0 DEF ConnectionType, SameConnected, SameSent, SameData, SameConfirmations
    <3>10. ConnectionType(wrote)
      BY <1>0, <3>4, <3>6, <3>7, <3>8 DEF ConnectionType
    <3>. HIDE DEF wrote
    <3>11. ReceivedKeptIn(wrote)
      BY <1>0, <1>1, <3>4, <3>6, <3>9 DEF ReceivedKeptIn
    <3>12. Base(wrote) /\ LeftoverIsPartialIn(wrote)
      BY <1>0, <3>9, <3>10, <3>11 DEF Base, UnsentCountedIn, LeftoverIsPartialIn, unsent,
           SameConnected, SameSent, SameData
    <3>13. WakeUpTo(wrote, {"TcpWrite"})
      BY <1>0, <3>9, <3>10 DEF WakeUpTo, NoLostWakeupIn, ConnectionType, unsent,
           SameConnected, SameSent, SameData, SameConfirmations
    <3>14. CASE next < master
      <4>1. r = enable(wrote, {"TcpWrite"}) /\ {"TcpWrite"} \in SUBSET Events
        BY <1>1, <1>2, <2>1, <2>4, <3>14 DEF Events
      <4>2. Base(r) /\ LeftoverIsPartialIn(r) /\ WakeUpTo(r, {"TcpWrite"} \ {"TcpWrite"})
        BY <3>12, <3>13, <4>1, EnableKeeps
      <4>3. {"TcpWrite"} \ {"TcpWrite"} = {}
        OBVIOUS
      <4>. QED
        BY <4>2, <4>3 DEF r
    <3>15. CASE ~(next < master)
      <4>1. r = wrote
        BY <1>1, <1>2, <2>1, <2>4, <3>15
      <4>2. WakeUpTo(wrote, {})
        BY <3>9, <3>10, <3>13, <3>15 DEF WakeUpTo, NoLostWakeupIn, ConnectionType, unsent
      <4>. QED
        BY <3>12, <4>1, <4>2 DEF r
    <3>. QED
      BY <3>14, <3>15
  <2>. QED
    BY <1>1, <1>2, <2>2, <2>3, <2>4
<1>. QED
  BY <1>3, <1>4

\* The type of a connection whose queued confirmations have changed.
LEMMA QueueType ==
  ASSUME NEW c, ConnectionType(c), NEW Q \in Seq(Datagram), NEW e \in SUBSET Events
  PROVE  ConnectionType([c EXCEPT !.udpConfirmationPackets = Q, !.ev = e])
BY DEF ConnectionType

SameButQueue(c, r) ==
  /\ SameConnected(c, r) /\ SameSent(c, r) /\ SameReceived(c, r) /\ SameData(c, r)
  /\ r.remainConfirmationResendCount = c.remainConfirmationResendCount
  /\ r.remainByeByeResendCount = c.remainByeByeResendCount

\* A change of the queued confirmations; eventUdpWrite has to be enabled when
\* something is queued.
LEMMA ConfirmationsKeep ==
  ASSUME NEW c, Base(c), NEW X, WakeUpTo(c, X),
         NEW r, ConnectionType(r), SameButQueue(c, r), c.ev \subseteq r.ev
  PROVE  /\ Base(r) /\ WakeUpTo(r, X \cup {"UdpWrite"})
         /\ "UdpWrite" \in r.ev => WakeUpTo(r, X \ {"UdpWrite"})
         /\ LeftoverIsPartialIn(c) => LeftoverIsPartialIn(r)
<1>0. ConnectionType(c) /\ UnsentCountedIn(c) /\ ReceivedKeptIn(c)
  BY DEF Base
<1>1. Base(r) /\ (LeftoverIsPartialIn(c) => LeftoverIsPartialIn(r))
  BY <1>0 DEF Base, UnsentCountedIn, ReceivedKeptIn, LeftoverIsPartialIn, unsent,
       SameButQueue, SameConnected, SameSent, SameReceived, SameData
<1>2. WakeUpTo(r, X \cup {"UdpWrite"})
  BY <1>0 DEF WakeUpTo, NoLostWakeupIn, ConnectionType, unsent,
       SameButQueue, SameConnected, SameSent, SameReceived, SameData
<1>3. ASSUME "UdpWrite" \in r.ev PROVE WakeUpTo(r, X \ {"UdpWrite"})
  BY <1>2, <1>3 DEF WakeUpTo, NoLostWakeupIn, ConnectionType, unsent
<1>. QED
  BY <1>1, <1>2, <1>3

\* A queued confirmation leaves with udpWrite.
LEMMA UdpWriteConfirmationKeeps ==
  ASSUME NEW c, Base(c), LeftoverIsPartialIn(c), WakeUpTo(c, {"UdpWrite"}),
         c.udpConnected, c.udpConfirmationPackets # <<>>
  PROVE  LET r == udpWriteConfirmation(c)
         IN  Base(r) /\ LeftoverIsPartialIn(r) /\ WakeUpTo(r, {})
<1>. DEFINE r == udpWriteConfirmation(c)
            Q == Tail(c.udpConfirmationPackets)
            d == [c EXCEPT !.udpConfirmationPackets = Q]
            I == DOMAIN c.udpSentPackets
            popped == onUdpSentBufferChanged(d, I)
<1>0. ConnectionType(c) /\ c.ev \in SUBSET Events
  BY DEF Base, ConnectionType
<1>1. Q \in Seq(Datagram)
  BY <1>0 DEF ConnectionType
<1>2. r = IF isUdpFinished(popped) THEN udpClose(popped)
          ELSE IF moreToWrite(popped) THEN enable(popped, {"UdpWrite"})
          ELSE popped
  BY DEF udpWriteConfirmation
<1>. HIDE DEF Q, r
<1>3. ConnectionType(d) /\ SameButQueue(c, d) /\ d.ev = c.ev
  BY <1>0, <1>1 DEF ConnectionType, SameButQueue, SameConnected, SameSent,
       SameReceived, SameData
<1>. HIDE DEF d
<1>4. /\ Base(d) /\ WakeUpTo(d, {"UdpWrite"} \cup {"UdpWrite"}) /\ LeftoverIsPartialIn(d)
      /\ SameConnected(c, d) /\ SameSent(c, d)
  BY <1>3, ConfirmationsKeep DEF SameButQueue
<1>5. /\ Base(popped) /\ LeftoverIsPartialIn(popped) /\ AllSame(d, popped)
      /\ WakeUpTo(popped, ({"UdpWrite"} \cup {"UdpWrite"}) \ {"TcpRead"})
  BY <1>4, BufferChangedInv DEF SameSent
<1>. HIDE DEF popped
<1>6. WakeUpTo(popped, {"UdpWrite"}) /\ popped.udpConnected
  BY <1>4, <1>5 DEF WakeUpTo, NoLostWakeupIn, Base, ConnectionType, unsent,
       SameConnected, AllSame
<1>7. CASE isUdpFinished(popped)
  <2>1. r = udpClose(popped)
    BY <1>2, <1>7
  <2>2. /\ Base(r) /\ LeftoverIsPartialIn(r)
        /\ WakeUpTo(r, {"UdpWrite"} \cap {"TcpWrite", "Close"})
    BY <1>5, <1>6, <2>1, UdpCloseKeeps
  <2>3. {"UdpWrite"} \cap {"TcpWrite", "Close"} = {}
    OBVIOUS
  <2>. QED
    BY <2>2, <2>3 DEF r
<1>8. CASE ~isUdpFinished(popped) /\ moreToWrite(popped)
  <2>1. r = enable(popped, {"UdpWrite"}) /\ {"UdpWrite"} \in SUBSET Events
    BY <1>2, <1>8 DEF Events
  <2>2. Base(r) /\ LeftoverIsPartialIn(r) /\ WakeUpTo(r, {"UdpWrite"} \ {"UdpWrite"})
    BY <1>5, <1>6, <2>1, EnableKeeps
  <2>3. {"UdpWrite"} \ {"UdpWrite"} = {}
    OBVIOUS
  <2>. QED
    BY <2>2, <2>3 DEF r
<1>9. CASE ~isUdpFinished(popped) /\ ~moreToWrite(popped)
  <2>1. r = popped
    BY <1>2, <1>9
  <2>2. ConnectionType(popped) /\ UnsentCountedIn(popped)
    BY <1>5 DEF Base
  <2>3. popped.udpConfirmationPackets = <<>> /\ ~(popped.udpPacketsToSendCount > 0)
    BY <1>9 DEF moreToWrite
  <2>4. Cardinality(unsent(popped)) = 0
    BY <1>6, <2>2, <2>3, UnsentFinite DEF UnsentCountedIn
  <2>5. unsent(popped) = {}
    BY <2>2, <2>4, UnsentFinite, FS_EmptySet
  <2>6. WakeUpTo(popped, {})
    BY <1>6, <2>2, <2>3, <2>5 DEF WakeUpTo, NoLostWakeupIn, ConnectionType, unsent
  <2>. QED
    BY <1>5, <2>1, <2>6 DEF r
<1>. QED
  BY <1>7, <1>8, <1>9

\* The type of a connection whose sent packets have changed.
LEMMA SentType ==
  ASSUME NEW c, ConnectionType(c),
         NEW P, P \in [DOMAIN P -> SentPacket], DOMAIN P \subseteq DOMAIN c.udpSentPackets,
         NEW k \in Int, NEW e \in SUBSET Events
  PROVE  ConnectionType([c EXCEPT !.udpSentPackets = P,
                                  !.udpPacketsToSendCount = k, !.ev = e])
<1>1. DOMAIN P \subseteq 0 .. (c.udpNextSendIndex - 1)
  BY DEF ConnectionType
<1>. QED
  BY <1>1 DEF ConnectionType

\* The first packet that is not sent leaves with udpWrite.
LEMMA UdpWritePacketKeeps ==
  ASSUME NEW c, Base(c), LeftoverIsPartialIn(c), WakeUpTo(c, {"UdpWrite"}),
         c.udpConnected, c.udpConfirmationPackets = <<>>
  PROVE  LET r == udpWritePacket(c)
         IN  Base(r) /\ LeftoverIsPartialIn(r) /\ WakeUpTo(r, {})
<1>. DEFINE r == udpWritePacket(c)
            S == c.udpSentPackets
            i == Min(unsent(c))
            p == [S[i] EXCEPT !.sent = TRUE]
            P == [S EXCEPT ![i] = p]
            k == c.udpPacketsToSendCount - 1
            e == c.ev \cup {"UdpResend"}
            wrote == [c EXCEPT !.udpSentPackets = P, !.udpPacketsToSendCount = k, !.ev = e]
<1>0. ConnectionType(c) /\ UnsentCountedIn(c) /\ ReceivedKeptIn(c)
  BY DEF Base
<1>1. CASE unsent(c) = {}
  <2>1. r = c
    BY <1>1 DEF udpWritePacket
  <2>2. WakeUpTo(c, {})
    BY <1>0, <1>1 DEF WakeUpTo, NoLostWakeupIn, ConnectionType, unsent
  <2>. QED
    BY <2>1, <2>2
<1>2. CASE unsent(c) # {}
  <2>1. r = IF moreToWrite(wrote) THEN enable(wrote, {"UdpWrite"}) ELSE wrote
    BY <1>2 DEF udpWritePacket
  <2>2. unsent(c) \in SUBSET Nat
    BY <1>0 DEF unsent, ConnectionType
  <2>3. i \in unsent(c)
    BY <1>2, <2>2, MinIsLeast
  <2>. HIDE DEF i, r
  <2>4. i \in DOMAIN S /\ S[i] \in SentPacket /\ S \in [DOMAIN S -> SentPacket]
    BY <1>0, <2>3 DEF unsent, ConnectionType
  <2>5. p \in SentPacket /\ p.sent
    BY <2>4 DEF SentPacket
  <2>. HIDE DEF p
  <2>6. /\ P \in [DOMAIN P -> SentPacket] /\ DOMAIN P = DOMAIN S
        /\ \A j \in DOMAIN S : P[j] = IF j = i THEN p ELSE S[j]
    BY <2>4, <2>5
  <2>7. k \in Int /\ e \in SUBSET Events /\ e = c.ev \cup {"UdpResend"}
        /\ k = c.udpPacketsToSendCount - 1
    BY <1>0 DEF ConnectionType, Events
  <2>. HIDE DEF P, k, e
  <2>16. ConnectionType(wrote)
    BY <1>0, <2>6, <2>7, SentType
  <2>8. /\ ConnectionType(wrote)
        /\ SameConnected(c, wrote) /\ SameReceived(c, wrote)
        /\ SameConfirmations(c, wrote) /\ SameData(c, wrote)
        /\ wrote.udpSentPackets = P /\ wrote.udpPacketsToSendCount = k /\ wrote.ev = e
    BY <1>0, <2>16 DEF ConnectionType, SameConnected, SameReceived,
         SameConfirmations, SameData
  <2>. HIDE DEF wrote
  <2>9. unsent(wrote) = unsent(c) \ {i}
    BY <2>5, <2>6, <2>8 DEF unsent
  <2>10. Cardinality(unsent(wrote)) = Cardinality(unsent(c)) - 1
    BY <1>0, <2>3, <2>9, UnsentFinite, FS_RemoveElement
  <2>11. UnsentCountedIn(wrote)
    BY <1>0, <2>7, <2>8, <2>10 DEF UnsentCountedIn, SameConnected
  <2>12. Base(wrote) /\ LeftoverIsPartialIn(wrote)
    BY <1>0, <2>8, <2>11 DEF Base, ReceivedKeptIn, LeftoverIsPartialIn,
         SameReceived, SameData
  <2>13. WakeUpTo(wrote, {"UdpWrite"})
    BY <1>0, <2>3, <2>4, <2>6, <2>7, <2>8 DEF WakeUpTo, NoLostWakeupIn, ConnectionType, unsent,
         SameConnected, SameReceived, SameConfirmations, SameData
  <2>14. CASE moreToWrite(wrote)
    <3>1. r = enable(wrote, {"UdpWrite"}) /\ {"UdpWrite"} \in SUBSET Events
      BY <2>1, <2>14 DEF Events
    <3>2. Base(r) /\ LeftoverIsPartialIn(r) /\ WakeUpTo(r, {"UdpWrite"} \ {"UdpWrite"})
      BY <2>12, <2>13, <3>1, EnableKeeps
    <3>3. {"UdpWrite"} \ {"UdpWrite"} = {}
      OBVIOUS
    <3>. QED
      BY <3>2, <3>3 DEF r
  <2>15. CASE ~moreToWrite(wrote)
    <3>1. r = wrote
      BY <2>1, <2>15
    <3>2. wrote.udpConfirmationPackets = <<>> /\ ~(wrote.udpPacketsToSendCount > 0)
      BY <2>15 DEF moreToWrite
    <3>3. Cardinality(unsent(wrote)) = 0
      BY <2>8, <2>11, <3>2, UnsentFinite DEF UnsentCountedIn, SameConnected
    <3>4. unsent(wrote) = {}
      BY <2>8, <3>3, UnsentFinite, FS_EmptySet
    <3>5. WakeUpTo(wrote, {})
      BY <2>8, <2>13, <3>2, <3>4 DEF WakeUpTo, NoLostWakeupIn, ConnectionType, unsent
    <3>. QED
      BY <2>12, <3>1, <3>5 DEF r
  <2>. QED
    BY <2>14, <2>15
<1>. QED
  BY <1>1, <1>2

\* udpWrite, as it runs once its event is raised.
LEMMA UdpWriteKeeps ==
  ASSUME NEW c, Base(c), LeftoverIsPartialIn(c), WakeUpTo(c, {"UdpWrite"})
  PROVE  LET r == udpWrite(c)
         IN  Base(r) /\ LeftoverIsPartialIn(r) /\ WakeUpTo(r, {})
<1>1. CASE ~c.udpConnected
  <2>1. udpWrite(c) = c
    BY <1>1 DEF udpWrite
  <2>2. WakeUpTo(c, {})
    BY <1>1 DEF Base, WakeUpTo, NoLostWakeupIn, ConnectionType, unsent
  <2>. QED
    BY <2>1, <2>2
<1>2. CASE c.udpConnected /\ c.udpConfirmationPackets # <<>>
  <2>1. udpWrite(c) = udpWriteConfirmation(c)
    BY <1>2 DEF udpWrite
  <2>. QED
    BY <1>2, <2>1, UdpWriteConfirmationKeeps
<1>3. CASE c.udpConnected /\ c.udpConfirmationPackets = <<>>
  <2>1. udpWrite(c) = udpWritePacket(c)
    BY <1>3 DEF udpWrite
  <2>. QED
    BY <1>3, <2>1, UdpWritePacketKeeps
<1>. QED
  BY <1>1, <1>2, <1>3

\* A packet that is sent again has one resend less.
LEMMA ResentPacket ==
  ASSUME NEW p \in SentPacket, p.remainResendCount # 0
  PROVE  [p EXCEPT !.sent = FALSE, !.remainResendCount = @ - 1] \in SentPacket
<1>. DEFINE k == p.remainResendCount - 1
<1>1. k \in Nat
  BY DEF SentPacket
<1>. HIDE DEF k
<1>2. [p EXCEPT !.sent = FALSE, !.remainResendCount = k] \in SentPacket
  BY <1>1 DEF SentPacket
<1>. QED
  BY <1>2 DEF k

\* udpResend, as it runs once its event is raised, for whatever sent packets
\* have expired.
LEMMA UdpResendKeeps ==
  ASSUME NEW c, Base(c), LeftoverIsPartialIn(c), WakeUpTo(c, {"UdpResend"}),
         NEW expired, expired \subseteq DOMAIN c.udpSentPackets \ unsent(c)
  PROVE  LET r == udpResend(c, expired)
         IN  Base(r) /\ LeftoverIsPartialIn(r) /\ WakeUpTo(r, {})
<1>. DEFINE r == udpResend(c, expired)
            S == c.udpSentPackets
            dead == exhausted(c, expired)
            again == {i \in expired : \A j \in dead : i < j}
            waiting == {i \in DOMAIN S \ expired : S[i].sent}
            P == [i \in DOMAIN S |->
                    IF i \in again
                      THEN [S[i] EXCEPT !.sent = FALSE, !.remainResendCount = @ - 1]
                      ELSE S[i]]
            k == c.udpPacketsToSendCount + Cardinality(again)
            e == c.ev \cup (IF again # {} THEN {"UdpWrite"} ELSE {})
                      \cup (IF waiting # {} THEN {"UdpResend"} ELSE {})
            resent == [c EXCEPT !.udpSentPackets = P, !.udpPacketsToSendCount = k, !.ev = e]
<1>0. ConnectionType(c) /\ UnsentCountedIn(c) /\ ReceivedKeptIn(c)
  BY DEF Base
<1>1. CASE ~c.udpConnected
  <2>1. r = c
    BY <1>1 DEF udpResend
  <2>2. WakeUpTo(c, {})
    BY <1>0, <1>1 DEF WakeUpTo, NoLostWakeupIn, ConnectionType, unsent
  <2>. QED
    BY <2>1, <2>2
<1>2. CASE c.udpConnected
  <2>1. r = IF dead # {} THEN udpClose(resent) ELSE resent
    BY <1>2 DEF udpResend
  <2>2. /\ S \in [DOMAIN S -> SentPacket] /\ DOMAIN S \subseteq Nat
        /\ \A i \in DOMAIN S : /\ S[i] \in SentPacket
                               /\ S[i].remainResendCount \in Nat /\ S[i].sent \in BOOLEAN
    BY <1>0 DEF ConnectionType, SentPacket
  <2>3. \A i \in again : i \in DOMAIN S /\ i \notin unsent(c) /\ S[i].remainResendCount # 0
    BY <2>2 DEF exhausted
  <2>4. \A i \in again :
          [S[i] EXCEPT !.sent = FALSE, !.remainResendCount = @ - 1] \in SentPacket
    BY <2>2, <2>3, ResentPacket
  <2>5. P \in [DOMAIN P -> SentPacket] /\ DOMAIN P = DOMAIN S
    BY <2>2, <2>4
  <2>6. \A i \in DOMAIN S : P[i].sent = IF i \in again THEN FALSE ELSE S[i].sent
    BY <2>2, <2>4 DEF SentPacket
  <2>7. IsFiniteSet(again) /\ Cardinality(again) \in Nat
    BY <1>0, <2>3, UnsentFinite, FS_Subset, FS_CardinalityType
  <2>8. /\ k \in Int /\ k = c.udpPacketsToSendCount + Cardinality(again)
    BY <1>0, <2>7 DEF ConnectionType
  <2>9. /\ e \in SUBSET Events /\ c.ev \subseteq e
        /\ again # {} => "UdpWrite" \in e
        /\ waiting # {} => "UdpResend" \in e
    BY <1>0 DEF ConnectionType, Events
  <2>. HIDE DEF P, k, e, r
  <2>10. ConnectionType(resent)
    BY <1>0, <2>5, <2>8, <2>9, SentType
  <2>11. /\ SameConnected(c, resent) /\ SameReceived(c, resent)
         /\ SameConfirmations(c, resent) /\ SameData(c, resent)
         /\ resent.udpSentPackets = P /\ resent.udpPacketsToSendCount = k /\ resent.ev = e
    BY <1>0 DEF ConnectionType, SameConnected, SameReceived, SameConfirmations, SameData
  <2>. HIDE DEF resent
  <2>12. unsent(resent) = unsent(c) \cup again /\ unsent(c) \cap again = {}
    BY <2>2, <2>3, <2>5, <2>6, <2>11 DEF unsent
  <2>13. Cardinality(unsent(resent)) = Cardinality(unsent(c)) + Cardinality(again)
    <3>1. IsFiniteSet(unsent(c)) /\ Cardinality(unsent(c)) \in Nat
      BY <1>0, UnsentFinite
    <3>2. Cardinality(unsent(c) \cap again) = 0
      BY <2>12, FS_EmptySet
    <3>. HIDE DEF again
    <3>3. Cardinality(unsent(c) \cup again) =
            Cardinality(unsent(c)) + Cardinality(again) - Cardinality(unsent(c) \cap again)
      BY <2>7, <3>1, FS_Union
    <3>. QED
      BY <2>7, <2>12, <3>1, <3>2, <3>3
  <2>14. UnsentCountedIn(resent)
    BY <1>0, <2>8, <2>11, <2>13 DEF UnsentCountedIn, SameConnected
  <2>15. Base(resent) /\ LeftoverIsPartialIn(resent)
    BY <1>0, <2>10, <2>11, <2>14 DEF Base, ReceivedKeptIn, LeftoverIsPartialIn,
         SameReceived, SameData
  <2>. HIDE DEF again, waiting, dead
  <2>16. WakeUpTo(resent, {"UdpResend"})
    BY <1>0, <2>5, <2>9, <2>10, <2>11, <2>12 DEF WakeUpTo, NoLostWakeupIn, ConnectionType,
         unsent, SameConnected, SameReceived, SameConfirmations, SameData
  <2>17. CASE dead # {}
    <3>1. r = udpClose(resent)
      BY <2>1, <2>17
    <3>2. /\ Base(r) /\ LeftoverIsPartialIn(r)
          /\ WakeUpTo(r, {"UdpResend"} \cap {"TcpWrite", "Close"})
      BY <2>15, <2>16, <3>1, UdpCloseKeeps
    <3>3. {"UdpResend"} \cap {"TcpWrite", "Close"} = {}
      OBVIOUS
    <3>. QED
      BY <3>2, <3>3 DEF r
  <2>18. CASE dead = {}
    <3>1. r = resent
      BY <2>1, <2>18
    <3>2. again = expired
      BY <2>18 DEF again
    <3>3. DOMAIN resent.udpSentPackets # unsent(resent) => waiting # {}
      BY <2>5, <2>11, <2>12, <3>2 DEF waiting, unsent
    <3>4. WakeUpTo(resent, {})
      BY <2>9, <2>10, <2>11, <2>16, <3>3 DEF WakeUpTo, NoLostWakeupIn, ConnectionType, unsent
    <3>. QED
      BY <2>15, <3>1, <3>4 DEF r
  <2>. QED
    BY <2>17, <2>18
<1>. QED
  BY <1>1, <1>2

-----------------------------------------------------------------------------
(* Confirmations.                                                          *)

\* Removing an element of a sequence leaves a sequence of the same set.
LEMMA RemoveAtType ==
  ASSUME NEW T, NEW s \in Seq(T), NEW i \in 1 .. Len(s)
  PROVE  RemoveAt(s, i) \in Seq(T)
BY DEF RemoveAt

\* The queue without its confirmation is a queue.
LEMMA DroppedType ==
  ASSUME NEW s \in Seq(Datagram), \E k \in 1 .. Len(s) : isConfirmation(s[k])
  PROVE  RemoveFirstMatch(s, isConfirmation) \in Seq(Datagram)
<1>. DEFINE i == SelectInSeq(s, isConfirmation)
            I == {k \in 1 .. Len(s) : isConfirmation(s[k])}
<1>1. I # {} /\ I \in SUBSET Nat
  OBVIOUS
<1>2. Min(I) \in I
  BY <1>1, MinIsLeast
<1>3. i = Min(I)
  BY <1>1 DEF SelectInSeq
<1>4. RemoveFirstMatch(s, isConfirmation) = RemoveAt(s, i)
  BY DEF RemoveFirstMatch
<1>. QED
  BY <1>2, <1>3, <1>4, RemoveAtType

\* dropConfirmations only empties the queue.
LEMMA DropConfirmationsKeeps ==
  ASSUME NEW c, Base(c), NEW X, WakeUpTo(c, X)
  PROVE  LET r == dropConfirmations(c)
         IN  /\ Base(r) /\ WakeUpTo(r, X \cup {"UdpWrite"})
             /\ LeftoverIsPartialIn(c) => LeftoverIsPartialIn(r)
             /\ SameButQueue(c, r)
             /\ "UdpWrite" \in c.ev => "UdpWrite" \in r.ev
             /\ r.udpConfirmationPackets = <<>> \/ c.udpConfirmationPackets # <<>>
<1>. DEFINE r == dropConfirmations(c)
            s == c.udpConfirmationPackets
            Q == RemoveFirstMatch(s, isConfirmation)
            d == [c EXCEPT !.udpConfirmationPackets = Q]
            I == DOMAIN c.udpSentPackets
<1>0. ConnectionType(c) /\ s \in Seq(Datagram) /\ c.ev \in SUBSET Events
  BY DEF Base, ConnectionType
<1>1. CASE \E k \in 1 .. Len(s) : isConfirmation(s[k])
  <2>1. r = onUdpSentBufferChanged(d, I)
    BY <1>1 DEF dropConfirmations
  <2>3. Q \in Seq(Datagram)
    BY <1>0, <1>1, DroppedType
  <2>4. s # <<>>
    BY <1>1
  <2>. HIDE DEF Q, r
  <2>2. ConnectionType(d) /\ SameButQueue(c, d) /\ d.ev = c.ev
    BY <1>0, <2>3 DEF ConnectionType, SameButQueue, SameConnected, SameSent,
         SameReceived, SameData
  <2>. HIDE DEF d
  <2>5. /\ Base(d) /\ WakeUpTo(d, X \cup {"UdpWrite"})
        /\ LeftoverIsPartialIn(c) => LeftoverIsPartialIn(d)
    BY <2>2, ConfirmationsKeep
  <2>6. /\ Base(r) /\ WakeUpTo(r, (X \cup {"UdpWrite"}) \ {"TcpRead"})
        /\ LeftoverIsPartialIn(d) => LeftoverIsPartialIn(r)
        /\ AllSame(d, r) /\ d.ev \ {"TcpRead"} \subseteq r.ev
    BY <2>1, <2>2, <2>5, BufferChangedInv DEF SameButQueue, SameSent
  <2>7. WakeUpTo(r, X \cup {"UdpWrite"})
    BY <2>6 DEF WakeUpTo, NoLostWakeupIn, Base, ConnectionType, unsent
  <2>8. "UdpWrite" \in c.ev => "UdpWrite" \in r.ev
    BY <2>2, <2>6
  <2>9. SameButQueue(c, r)
    BY <2>2, <2>6 DEF SameButQueue, AllSame, SameConnected, SameSent, SameReceived,
         SameData, SameConfirmations
  <2>. QED
    BY <2>4, <2>5, <2>6, <2>7, <2>8, <2>9 DEF r
<1>2. CASE ~\E k \in 1 .. Len(s) : isConfirmation(s[k])
  <2>1. r = c
    BY <1>2 DEF dropConfirmations
  <2>2. WakeUpTo(c, X \cup {"UdpWrite"})
    BY <1>0 DEF WakeUpTo, NoLostWakeupIn, ConnectionType, unsent
  <2>. QED
    BY <2>1, <2>2 DEF SameButQueue, SameConnected, SameSent, SameReceived, SameData
<1>. QED
  BY <1>1, <1>2

\* queueConfirmation queues a datagram and wakes udpWrite.
LEMMA QueueConfirmationKeeps ==
  ASSUME NEW c, Base(c), NEW X, WakeUpTo(c, X), NEW m \in Datagram
  PROVE  LET r == queueConfirmation(c, m)
         IN  /\ Base(r) /\ WakeUpTo(r, X \ {"UdpWrite"})
             /\ LeftoverIsPartialIn(c) => LeftoverIsPartialIn(r)
             /\ SameButQueue(c, r)
<1>. DEFINE r == queueConfirmation(c, m)
            Q == Append(c.udpConfirmationPackets, m)
            e == c.ev \cup {"UdpWrite"}
            d == [c EXCEPT !.udpConfirmationPackets = Q, !.ev = e]
            I == DOMAIN c.udpSentPackets
<1>0. ConnectionType(c) /\ c.udpConfirmationPackets \in Seq(Datagram)
      /\ e \in SUBSET Events /\ c.ev \subseteq e /\ "UdpWrite" \in e
  BY DEF Base, ConnectionType, Events
<1>1. Q \in Seq(Datagram)
  BY <1>0
<1>2. r = onUdpSentBufferChanged(d, I)
  BY DEF queueConfirmation
<1>. HIDE DEF Q, e, r
<1>3. ConnectionType(d)
  BY <1>0, <1>1, QueueType
<1>6. SameButQueue(c, d) /\ d.ev = e
  BY <1>0 DEF ConnectionType, SameButQueue, SameConnected, SameSent,
       SameReceived, SameData
<1>. HIDE DEF d
<1>7. /\ Base(d) /\ WakeUpTo(d, X \ {"UdpWrite"})
      /\ LeftoverIsPartialIn(c) => LeftoverIsPartialIn(d)
  BY <1>0, <1>3, <1>6, ConfirmationsKeep
<1>4. /\ Base(r) /\ WakeUpTo(r, (X \ {"UdpWrite"}) \ {"TcpRead"})
      /\ LeftoverIsPartialIn(d) => LeftoverIsPartialIn(r)
      /\ AllSame(d, r)
  BY <1>2, <1>6, <1>7, BufferChangedInv DEF SameButQueue, SameSent
<1>5. WakeUpTo(r, X \ {"UdpWrite"})
  BY <1>4 DEF WakeUpTo, NoLostWakeupIn, Base, ConnectionType, unsent
<1>8. SameButQueue(c, r)
  BY <1>4, <1>6 DEF SameButQueue, AllSame, SameConnected, SameSent, SameReceived,
       SameData, SameConfirmations
<1>. QED
  BY <1>4, <1>5, <1>7, <1>8 DEF r

\* The type of a connection that has confirmed what it received.
LEMMA ConfirmedType ==
  ASSUME NEW c, ConnectionType(c), NEW m \in Nat, NEW k \in Int,
         NEW R, R \in [DOMAIN R -> ReceivedPacket],
         DOMAIN R \subseteq DOMAIN c.udpReceivedPackets
  PROVE  ConnectionType([c EXCEPT !.udpConfirmedMasterIndex = m,
                                  !.udpReceivedPackets = R,
                                  !.remainConfirmationResendCount = k])
<1>1. DOMAIN R \subseteq 0 .. (c.tcpNextSendIndex + ReceiveWindow)
  BY DEF ConnectionType
<1>. QED
  BY <1>1 DEF ConnectionType

\* buildConfirmations, as it runs once its event is raised: what TCP has not got
\* is kept.
LEMMA BuildConfirmationsKeeps ==
  ASSUME NEW c, Base(c), LeftoverIsPartialIn(c), WakeUpTo(c, {"BuildConfirmations"})
  PROVE  LET r == buildConfirmations(c)
         IN  Base(r) /\ LeftoverIsPartialIn(r) /\ WakeUpTo(r, {})
<1>. DEFINE r == buildConfirmations(c)
            master == c.udpReceivedMasterIndex
            acks == {i \in DOMAIN c.udpReceivedPackets : i >= master}
            m == datagram("Confirmation", master, 0, 0, acks)
            dropped == dropConfirmations(c)
            queued == queueConfirmation(dropped, m)
            keep == receivedToKeep(c)
            R == Restrict(queued.udpReceivedPackets, keep)
            k == c.remainConfirmationResendCount - 1
            built == [queued EXCEPT !.udpConfirmedMasterIndex = master,
                                    !.udpReceivedPackets = R,
                                    !.remainConfirmationResendCount = k]
            B == {"BuildConfirmations"}
<1>0. ConnectionType(c) /\ UnsentCountedIn(c) /\ ReceivedKeptIn(c)
  BY DEF Base
<1>1. CASE ~c.udpConnected
  <2>1. r = c
    BY <1>1 DEF buildConfirmations
  <2>2. WakeUpTo(c, {})
    BY <1>0, <1>1 DEF WakeUpTo, NoLostWakeupIn, ConnectionType, unsent
  <2>. QED
    BY <2>1, <2>2
<1>2. CASE c.udpConnected
  <2>1. r = IF k > 0 THEN enable(built, B) ELSE built
    BY <1>2 DEF buildConfirmations
  <2>2. /\ master \in Nat /\ k \in Int /\ acks \in SUBSET Nat
        /\ c.udpReceivedPackets \in [DOMAIN c.udpReceivedPackets -> ReceivedPacket]
    BY <1>0 DEF ConnectionType
  <2>3. m \in Datagram
    BY <2>2 DEF datagram, Datagram, Types
  <2>. HIDE DEF r, m, B
  <2>4. /\ Base(dropped) /\ WakeUpTo(dropped, B \cup {"UdpWrite"})
        /\ LeftoverIsPartialIn(dropped) /\ SameButQueue(c, dropped)
    BY DropConfirmationsKeeps DEF B
  <2>. HIDE DEF dropped
  <2>5. /\ Base(queued) /\ WakeUpTo(queued, (B \cup {"UdpWrite"}) \ {"UdpWrite"})
        /\ LeftoverIsPartialIn(queued) /\ SameButQueue(dropped, queued)
    BY <2>3, <2>4, QueueConfirmationKeeps
  <2>. HIDE DEF queued
  <2>6. SameButQueue(c, queued)
    BY <2>4, <2>5 DEF SameButQueue, SameConnected, SameSent, SameReceived, SameData
  <2>7. /\ queued.udpReceivedPackets = c.udpReceivedPackets
        /\ keep \subseteq DOMAIN c.udpReceivedPackets
    BY <2>6 DEF SameButQueue, SameReceived, receivedToKeep
  <2>8. R \in [DOMAIN R -> ReceivedPacket] /\ DOMAIN R = keep
    BY <2>2, <2>7 DEF Restrict
  <2>9. ConnectionType(queued) /\ UnsentCountedIn(queued)
    BY <2>5 DEF Base
  <2>. HIDE DEF R, k
  <2>10. ConnectionType(built)
    BY <2>2, <2>7, <2>8, <2>9, ConfirmedType
  <2>11. /\ SameConnected(queued, built) /\ SameSent(queued, built) /\ SameData(queued, built)
         /\ built.tcpNextSendIndex = queued.tcpNextSendIndex
         /\ built.udpReceivedMasterIndex = queued.udpReceivedMasterIndex
         /\ built.udpReceivedPackets = R
         /\ built.udpConfirmationPackets = queued.udpConfirmationPackets
         /\ built.remainByeByeResendCount = queued.remainByeByeResendCount
         /\ built.remainConfirmationResendCount = k
         /\ built.ev = queued.ev
    BY <2>9 DEF ConnectionType, SameConnected, SameSent, SameData
  <2>. HIDE DEF built, keep
  <2>12. c.tcpNextSendIndex \in Nat /\ built.tcpNextSendIndex = c.tcpNextSendIndex
         /\ built.udpReceivedMasterIndex = master
    BY <1>0, <2>6, <2>11 DEF ConnectionType, SameButQueue, SameReceived
  <2>13. c.tcpNextSendIndex .. (master - 1) \subseteq keep
    BY <1>0, <2>2, <2>12 DEF ReceivedKeptIn, receivedToKeep, keep
  <2>14. ReceivedKeptIn(built)
    BY <1>0, <2>8, <2>11, <2>12, <2>13 DEF ReceivedKeptIn
  <2>15. Base(built) /\ LeftoverIsPartialIn(built)
    BY <2>5, <2>9, <2>10, <2>11, <2>14 DEF Base, UnsentCountedIn, LeftoverIsPartialIn, unsent,
         SameConnected, SameSent, SameData
  <2>16. WakeUpTo(built, B)
    BY <2>5, <2>9, <2>10, <2>11 DEF WakeUpTo, NoLostWakeupIn, ConnectionType, unsent,
         SameConnected, SameSent, SameData, B
  <2>17. CASE k > 0
    <3>1. r = enable(built, B) /\ B \in SUBSET Events
      BY <2>1, <2>17 DEF Events, B
    <3>2. Base(r) /\ LeftoverIsPartialIn(r) /\ WakeUpTo(r, B \ B)
      BY <2>15, <2>16, <3>1, EnableKeeps
    <3>3. B \ B = {}
      OBVIOUS
    <3>. QED
      BY <3>2, <3>3 DEF r
  <2>18. CASE ~(k > 0)
    <3>1. r = built
      BY <2>1, <2>18
    <3>2. WakeUpTo(built, {})
      BY <2>10, <2>11, <2>16, <2>18 DEF WakeUpTo, NoLostWakeupIn, ConnectionType, unsent, B
    <3>. QED
      BY <2>15, <3>1, <3>2 DEF r
  <2>. QED
    BY <2>17, <2>18
<1>. QED
  BY <1>1, <1>2

\* buildByeBye, as it runs once its event is raised.
LEMMA BuildByeByeKeeps ==
  ASSUME NEW c, Base(c), LeftoverIsPartialIn(c), WakeUpTo(c, {"BuildByeBye"})
  PROVE  LET r == buildByeBye(c)
         IN  Base(r) /\ LeftoverIsPartialIn(r) /\ WakeUpTo(r, {})
<1>. DEFINE r == buildByeBye(c)
            m == datagram("ByeBye", c.udpNextSendIndex, 0, 0, {})
            queued == queueConfirmation(c, m)
            k == c.remainByeByeResendCount - 1
            built == [queued EXCEPT !.remainByeByeResendCount = k]
            B == {"BuildByeBye"}
<1>0. ConnectionType(c) /\ UnsentCountedIn(c) /\ ReceivedKeptIn(c)
  BY DEF Base
<1>1. CASE ~c.udpConnected
  <2>1. r = c
    BY <1>1 DEF buildByeBye
  <2>2. WakeUpTo(c, {})
    BY <1>0, <1>1 DEF WakeUpTo, NoLostWakeupIn, ConnectionType, unsent
  <2>. QED
    BY <2>1, <2>2
<1>2. CASE c.udpConnected
  <2>1. r = IF k > 0 THEN enable(built, B) ELSE built
    BY <1>2 DEF buildByeBye
  <2>2. c.udpNextSendIndex \in Nat /\ k \in Int
    BY <1>0 DEF ConnectionType
  <2>3. m \in Datagram
    BY <2>2 DEF datagram, Datagram, Types
  <2>. HIDE DEF r, m, B, k
  <2>4. /\ Base(queued) /\ WakeUpTo(queued, B \ {"UdpWrite"})
        /\ LeftoverIsPartialIn(queued)
    BY <2>3, QueueConfirmationKeeps DEF B
  <2>. HIDE DEF queued
  <2>5. ConnectionType(queued) /\ UnsentCountedIn(queued) /\ ReceivedKeptIn(queued)
    BY <2>4 DEF Base
  <2>6. ConnectionType(built)
    BY <2>2, <2>5 DEF ConnectionType
  <2>7. /\ SameConnected(queued, built) /\ SameSent(queued, built) /\ SameData(queued, built)
        /\ SameReceived(queued, built)
        /\ built.udpConfirmationPackets = queued.udpConfirmationPackets
        /\ built.remainConfirmationResendCount = queued.remainConfirmationResendCount
        /\ built.remainByeByeResendCount = k
        /\ built.ev = queued.ev
    BY <2>5 DEF ConnectionType, SameConnected, SameSent, SameData, SameReceived
  <2>. HIDE DEF built
  <2>8. Base(built) /\ LeftoverIsPartialIn(built)
    BY <2>4, <2>5, <2>6, <2>7 DEF Base, UnsentCountedIn, ReceivedKeptIn, LeftoverIsPartialIn,
         unsent, SameConnected, SameSent, SameData, SameReceived
  <2>9. WakeUpTo(built, B)
    BY <2>4, <2>5, <2>6, <2>7 DEF WakeUpTo, NoLostWakeupIn, ConnectionType, unsent,
         SameConnected, SameSent, SameData, SameReceived, B
  <2>10. CASE k > 0
    <3>1. r = enable(built, B) /\ B \in SUBSET Events
      BY <2>1, <2>10 DEF Events, B
    <3>2. Base(r) /\ LeftoverIsPartialIn(r) /\ WakeUpTo(r, B \ B)
      BY <2>8, <2>9, <3>1, EnableKeeps
    <3>3. B \ B = {}
      OBVIOUS
    <3>. QED
      BY <3>2, <3>3 DEF r
  <2>11. CASE ~(k > 0)
    <3>1. r = built
      BY <2>1, <2>11
    <3>2. WakeUpTo(built, {})
      BY <2>6, <2>7, <2>9, <2>11 DEF WakeUpTo, NoLostWakeupIn, ConnectionType, unsent, B
    <3>. QED
      BY <2>8, <3>1, <3>2 DEF r
  <2>. QED
    BY <2>10, <2>11
<1>. QED
  BY <1>1, <1>2

-----------------------------------------------------------------------------
(* udpRead.                                                                *)

\* Scheduling a ByeBye enables the event that builds it.
LEMMA ScheduleByeByeKeeps ==
  ASSUME NEW c, Base(c), LeftoverIsPartialIn(c), WakeUpTo(c, {}), NEW k \in Int
  PROVE  LET r == [c EXCEPT !.remainByeByeResendCount = k, !.ev = c.ev \cup {"BuildByeBye"}]
         IN  Base(r) /\ LeftoverIsPartialIn(r) /\ WakeUpTo(r, {})
<1>. DEFINE e == c.ev \cup {"BuildByeBye"}
            r == [c EXCEPT !.remainByeByeResendCount = k, !.ev = e]
<1>0. ConnectionType(c) /\ UnsentCountedIn(c) /\ ReceivedKeptIn(c)
      /\ e \in SUBSET Events /\ c.ev \subseteq e /\ "BuildByeBye" \in e
  BY DEF Base, ConnectionType, Events
<1>. HIDE DEF e
<1>1. ConnectionType(r)
  BY <1>0 DEF ConnectionType
<1>2. /\ SameConnected(c, r) /\ SameSent(c, r) /\ SameReceived(c, r) /\ SameData(c, r)
      /\ r.udpConfirmationPackets = c.udpConfirmationPackets
      /\ r.remainConfirmationResendCount = c.remainConfirmationResendCount
      /\ r.ev = e
  BY <1>0 DEF ConnectionType, SameConnected, SameSent, SameReceived, SameData
<1>. HIDE DEF r
<1>3. Base(r) /\ LeftoverIsPartialIn(r)
  BY <1>0, <1>1, <1>2 DEF Base, UnsentCountedIn, ReceivedKeptIn, LeftoverIsPartialIn, unsent,
       SameConnected, SameSent, SameReceived, SameData
<1>4. WakeUpTo(r, {})
  BY <1>0, <1>1, <1>2 DEF WakeUpTo, NoLostWakeupIn, ConnectionType, unsent,
       SameConnected, SameSent, SameReceived, SameData
<1>. QED
  BY <1>3, <1>4 DEF r, e

\* A confirmation erases packets, corrects the count of the unsent ones and
\* stops the resends only when nothing waits for an answer.
LEMMA UdpReadConfirmationKeeps ==
  ASSUME NEW c, Base(c), LeftoverIsPartialIn(c), WakeUpTo(c, {}), c.udpConnected,
         NEW m
  PROVE  LET r == udpReadConfirmation(c, m)
         IN  Base(r) /\ LeftoverIsPartialIn(r) /\ WakeUpTo(r, {})
<1>. DEFINE r == udpReadConfirmation(c, m)
            S == c.udpSentPackets
            gone == confirmedBy(c, m)
            left == DOMAIN S \ gone
            P == Restrict(S, left)
            k == c.udpPacketsToSendCount - Cardinality(unsentAmong(c, gone))
            erased == [c EXCEPT !.udpSentPackets = P, !.udpPacketsToSendCount = k]
            I == left \cup {Max(gone)}
            counted == IF gone = {} THEN erased ELSE onUdpSentBufferChanged(erased, I)
            quiet == IF counted.udpPacketsToSendCount >= Cardinality(left)
                       THEN disable(counted, {"UdpResend"}) ELSE counted
            n == confirmationResendCount
<1>0. ConnectionType(c) /\ UnsentCountedIn(c) /\ ReceivedKeptIn(c)
  BY DEF Base
<1>1. /\ S \in [DOMAIN S -> SentPacket] /\ gone \subseteq DOMAIN S
      /\ c.udpNextSendIndex \in Nat /\ DOMAIN S \subseteq 0 .. (c.udpNextSendIndex - 1)
      /\ DOMAIN S \subseteq 0 .. c.udpNextSendIndex
      /\ IsFiniteSet(DOMAIN S) /\ IsFiniteSet(unsent(c)) /\ Cardinality(unsent(c)) \in Nat
  <2>1. gone \subseteq DOMAIN S
    BY DEF confirmedBy
  <2>2. /\ S \in [DOMAIN S -> SentPacket] /\ c.udpNextSendIndex \in Nat
        /\ DOMAIN S \subseteq 0 .. (c.udpNextSendIndex - 1)
    BY <1>0 DEF ConnectionType
  <2>3. /\ IsFiniteSet(DOMAIN S) /\ IsFiniteSet(unsent(c)) /\ Cardinality(unsent(c)) \in Nat
    BY <1>0, UnsentFinite
  <2>. HIDE DEF gone
  <2>4. DOMAIN S \subseteq 0 .. c.udpNextSendIndex
    BY <2>2
  <2>. QED
    BY <2>1, <2>2, <2>3, <2>4
<1>2. r = IF isNoMoreDataWillBeSent(quiet) /\ ~isNoMoreDataWillBeSent(c)
            THEN [quiet EXCEPT !.remainByeByeResendCount = n,
                               !.ev = quiet.ev \cup {"BuildByeBye"}]
            ELSE quiet
  BY DEF udpReadConfirmation
<1>. HIDE DEF r, gone
<1>3. P \in [DOMAIN P -> SentPacket] /\ DOMAIN P = left /\ left \subseteq DOMAIN S
      /\ \A i \in left : P[i] = S[i]
  BY <1>1 DEF Restrict
<1>4. /\ Cardinality(unsent(c) \ gone) = Cardinality(unsent(c)) - Cardinality(unsent(c) \cap gone)
      /\ unsentAmong(c, gone) = unsent(c) \cap gone
  BY <1>1, FS_Difference DEF unsentAmong
<1>5. IsFiniteSet(unsent(c) \cap gone) /\ Cardinality(unsent(c) \cap gone) \in Nat
  BY <1>1, FS_Subset, FS_CardinalityType
<1>6. k \in Int /\ k = Cardinality(unsent(c) \ gone)
  BY <1>0, <1>1, <1>4, <1>5 DEF UnsentCountedIn
<1>. HIDE DEF P, k
<1>7. ConnectionType(erased)
  <2>1. DOMAIN P \subseteq 0 .. (c.udpNextSendIndex - 1)
    BY <1>1, <1>3
  <2>. QED
    BY <1>0, <1>3, <1>6, <2>1 DEF ConnectionType
<1>8. /\ SameConnected(c, erased) /\ SameReceived(c, erased)
      /\ SameConfirmations(c, erased) /\ SameData(c, erased)
      /\ erased.udpSentPackets = P /\ erased.udpPacketsToSendCount = k /\ erased.ev = c.ev
  BY <1>0 DEF ConnectionType, SameConnected, SameReceived, SameConfirmations, SameData
<1>. HIDE DEF erased
<1>9. unsent(erased) = unsent(c) \ gone
  BY <1>1, <1>3, <1>8 DEF unsent
<1>10. Base(erased) /\ LeftoverIsPartialIn(erased)
  BY <1>0, <1>6, <1>7, <1>8, <1>9 DEF Base, UnsentCountedIn, ReceivedKeptIn,
       LeftoverIsPartialIn, SameConnected, SameReceived, SameData
<1>11. WakeUpTo(erased, {"TcpRead"})
  <2>1. DOMAIN erased.udpSentPackets # unsent(erased) => DOMAIN S # unsent(c)
    BY <1>3, <1>8, <1>9
  <2>2. unsent(erased) # {} => unsent(c) # {}
    BY <1>9
  <2>. QED
    BY <1>0, <1>7, <1>8, <2>1, <2>2 DEF WakeUpTo, NoLostWakeupIn, ConnectionType, unsent,
         SameConnected, SameReceived, SameConfirmations, SameData
<1>12. Base(counted) /\ LeftoverIsPartialIn(counted) /\ AllSame(erased, counted)
       /\ WakeUpTo(counted, {})
  <2>1. CASE gone = {}
    <3>1. counted = erased
      BY <2>1
    <3>2. DOMAIN erased.udpSentPackets = DOMAIN S
      BY <1>3, <1>8, <2>1
    <3>3. WakeUpTo(erased, {})
      BY <1>0, <1>7, <1>8, <1>11, <3>2 DEF WakeUpTo, NoLostWakeupIn, ConnectionType, unsent,
           SameConnected
    <3>. HIDE DEF counted
    <3>. QED
      BY <1>10, <3>1, <3>3 DEF AllSame, SameConnected, SameSent, SameReceived,
           SameConfirmations, SameData
  <2>2. CASE gone # {}
    <3>1. Max(gone) \in gone
      BY <1>1, <2>2, MaxIsMember
    <3>2. DOMAIN erased.udpSentPackets = {} => \E j \in Nat : I = {j}
      BY <1>1, <1>3, <1>8, <3>1
    <3>. DEFINE q == onUdpSentBufferChanged(erased, I)
    <3>. HIDE DEF I
    <3>3. Base(q) /\ LeftoverIsPartialIn(q) /\ AllSame(erased, q)
          /\ WakeUpTo(q, {"TcpRead"} \ {"TcpRead"})
      BY <1>10, <1>11, <3>2, BufferChangedInv
    <3>4. {"TcpRead"} \ {"TcpRead"} = {}
      OBVIOUS
    <3>5. counted = q
      BY <2>2
    <3>. HIDE DEF q, counted
    <3>. QED
      BY <3>3, <3>4, <3>5
  <2>. QED
    BY <2>1, <2>2
<1>. HIDE DEF counted
<1>13. /\ unsent(counted) = unsent(c) \ gone /\ DOMAIN counted.udpSentPackets = left
       /\ counted.udpPacketsToSendCount = Cardinality(unsent(counted))
  BY <1>3, <1>6, <1>8, <1>9, <1>12 DEF AllSame, SameSent, unsent
<1>14. Base(quiet) /\ LeftoverIsPartialIn(quiet) /\ WakeUpTo(quiet, {})
  <2>1. CASE counted.udpPacketsToSendCount >= Cardinality(left)
    <3>1. IsFiniteSet(left) /\ Cardinality(left) \in Nat
      BY <1>1, <1>3, FS_Subset, FS_CardinalityType
    <3>2. unsent(counted) \subseteq left
      BY <1>13 DEF unsent
    <3>3. unsent(counted) = left
      BY <1>13, <2>1, <3>1, <3>2, FS_Subset, FS_CardinalityType
    <3>4. quiet = disable(counted, {"UdpResend"})
      BY <2>1
    <3>. HIDE DEF quiet
    <3>5. /\ Base(quiet) /\ LeftoverIsPartialIn(quiet) /\ AllSame(counted, quiet)
          /\ WakeUpTo(quiet, {} \cup {"UdpResend"})
      BY <1>12, <3>4, DisableKeeps
    <3>6. DOMAIN quiet.udpSentPackets = unsent(quiet)
      BY <1>13, <3>3, <3>5 DEF AllSame, SameSent, unsent
    <3>7. WakeUpTo(quiet, {})
      BY <3>5, <3>6 DEF WakeUpTo, NoLostWakeupIn, Base, ConnectionType, unsent
    <3>. QED
      BY <3>5, <3>7
  <2>2. CASE ~(counted.udpPacketsToSendCount >= Cardinality(left))
    BY <1>12, <2>2
  <2>. QED
    BY <2>1, <2>2
<1>. HIDE DEF quiet
<1>15. n \in Int
  BY ConfirmCountAssumption
<1>16. CASE isNoMoreDataWillBeSent(quiet) /\ ~isNoMoreDataWillBeSent(c)
  BY <1>2, <1>14, <1>15, <1>16, ScheduleByeByeKeeps DEF r
<1>17. CASE ~(isNoMoreDataWillBeSent(quiet) /\ ~isNoMoreDataWillBeSent(c))
  BY <1>2, <1>14, <1>17 DEF r
<1>. QED
  BY <1>16, <1>17

\* The master index after a packet is stored: everything below it is there.
LEMMA NextMasterFacts ==
  ASSUME NEW c, ConnectionType(c), NEW R,
         c.tcpNextSendIndex <= c.udpReceivedMasterIndex,
         DOMAIN R \subseteq 0 .. (c.tcpNextSendIndex + ReceiveWindow),
         c.udpReceivedMasterIndex <= c.tcpNextSendIndex + ReceiveWindow
  PROVE  /\ nextMaster(c, R) \in Nat /\ c.udpReceivedMasterIndex <= nextMaster(c, R)
         /\ c.udpReceivedMasterIndex .. (nextMaster(c, R) - 1) \subseteq DOMAIN R
<1>. DEFINE master == c.udpReceivedMasterIndex
            last == c.tcpNextSendIndex + ReceiveWindow + 1
            K == {k \in master .. last :
                    \/ k \notin DOMAIN R
                    \/ /\ k > master /\ k - 1 \in DOMAIN R
                       /\ R[k - 1].type \in FinalTypes}
            N == nextMaster(c, R)
<1>1. master \in Nat /\ last \in Nat /\ master <= last /\ last \notin DOMAIN R
  BY ReceiveWindowAssumption DEF ConnectionType
<1>2. N = Min(K)
  BY DEF nextMaster
<1>. HIDE DEF master, last
<1>3. K \in SUBSET Nat /\ last \in K
  BY <1>1
<1>4. N \in K /\ \A y \in K : N <= y
  <2>. HIDE DEF K, N
  <2>. QED
    BY <1>2, <1>3, MinIsLeast
<1>5. N \in Nat /\ master <= N /\ N <= last
  <2>. HIDE DEF N
  <2>. QED
    BY <1>1, <1>4
<1>6. \A k \in master .. (N - 1) : k \in DOMAIN R
  <2>. HIDE DEF N
  <2>. SUFFICES ASSUME NEW k \in master .. (N - 1), k \notin DOMAIN R PROVE FALSE
    OBVIOUS
  <2>1. k \in K
    BY <1>1, <1>5
  <2>. QED
    BY <1>1, <1>4, <1>5, <2>1
<1>. QED
  BY <1>5, <1>6 DEF master

\* A connection with other received packets is a connection.
LEMMA ReceivedType ==
  ASSUME NEW c, ConnectionType(c), NEW R, R \in [DOMAIN R -> ReceivedPacket],
         DOMAIN R \subseteq 0 .. (c.tcpNextSendIndex + ReceiveWindow),
         NEW N \in Nat, NEW F \in Nat
  PROVE  ConnectionType([c EXCEPT !.udpReceivedPackets = R,
                                  !.udpReceivedMasterIndex = N,
                                  !.udpReceivedFinalIndex = F])
BY DEF ConnectionType

\* A stored packet moves the master index over packets that are all there, and
\* enables eventTcpWrite when that leaves something to write.
LEMMA StorePacketKeeps ==
  ASSUME NEW c, Base(c), LeftoverIsPartialIn(c), WakeUpTo(c, {}),
         NEW m \in Datagram, acceptable(c, m), m.index \notin DOMAIN c.udpReceivedPackets
  PROVE  LET r == storePacket(c, m)
         IN  Base(r) /\ LeftoverIsPartialIn(r) /\ WakeUpTo(r, {})
<1>. DEFINE r == storePacket(c, m)
            D == c.udpReceivedPackets
            q == [type |-> m.type, from |-> m.from, to |-> m.to]
            R == [i \in DOMAIN D \cup {m.index} |-> IF i = m.index THEN q ELSE D[i]]
            N == nextMaster(c, R)
            F == IF /\ N > c.udpReceivedMasterIndex
                    /\ R[N - 1].type \in FinalTypes
                   THEN N ELSE c.udpReceivedFinalIndex
            moved == [c EXCEPT !.udpReceivedPackets = R,
                               !.udpReceivedMasterIndex = N,
                               !.udpReceivedFinalIndex = F]
            stored == tcpWriteFake(moved)
            E == (IF stored.tcpNextSendIndex < N THEN {"TcpWrite"} ELSE {})
                 \cup (IF N >= F THEN {"UdpCloseWait"} ELSE {})
<1>0. ConnectionType(c) /\ UnsentCountedIn(c) /\ ReceivedKeptIn(c)
  BY DEF Base
<1>1. r = enable(stored, E)
  BY DEF storePacket
<1>. HIDE DEF r
<1>2. /\ m.index \in Nat /\ m.index >= c.udpReceivedMasterIndex
      /\ m.index - c.tcpNextSendIndex <= ReceiveWindow
      /\ m.type \in DataTypes /\ m.from \in Nat /\ m.to \in Nat
  BY DEF acceptable, Datagram
<1>3. q \in ReceivedPacket
  BY <1>2 DEF ReceivedPacket
<1>4. /\ D \in [DOMAIN D -> ReceivedPacket]
      /\ DOMAIN D \subseteq 0 .. (c.tcpNextSendIndex + ReceiveWindow)
      /\ c.tcpNextSendIndex \in Nat /\ c.udpReceivedMasterIndex \in Nat
      /\ c.udpReceivedFinalIndex \in Nat
  BY <1>0 DEF ConnectionType
<1>. HIDE DEF q, D
<1>5. /\ R \in [DOMAIN R -> ReceivedPacket] /\ DOMAIN D \subseteq DOMAIN R
      /\ DOMAIN R = DOMAIN D \cup {m.index}
  BY <1>3, <1>4
<1>. HIDE DEF R
<1>6. /\ DOMAIN R \subseteq 0 .. (c.tcpNextSendIndex + ReceiveWindow)
      /\ c.udpReceivedMasterIndex <= c.tcpNextSendIndex + ReceiveWindow
  BY <1>2, <1>4, <1>5, ReceiveWindowAssumption
<1>7. /\ N \in Nat /\ c.udpReceivedMasterIndex <= N
      /\ c.udpReceivedMasterIndex .. (N - 1) \subseteq DOMAIN R
  BY <1>0, <1>6, NextMasterFacts DEF ReceivedKeptIn
<1>. HIDE DEF N
<1>8. F \in Nat
  BY <1>4, <1>7
<1>. HIDE DEF F
<1>9. ConnectionType(moved)
  BY <1>0, <1>5, <1>6, <1>7, <1>8, ReceivedType
<1>10. /\ SameConnected(c, moved) /\ SameSent(c, moved) /\ SameData(c, moved)
       /\ SameConfirmations(c, moved) /\ moved.ev = c.ev
       /\ moved.tcpNextSendIndex = c.tcpNextSendIndex
       /\ moved.udpReceivedMasterIndex = N /\ moved.udpReceivedPackets = R
  BY <1>0 DEF ConnectionType, SameConnected, SameSent, SameData, SameConfirmations
<1>. HIDE DEF moved
<1>11. ReceivedKeptIn(moved)
  <2>1. c.tcpNextSendIndex .. (N - 1) \subseteq DOMAIN R
    BY <1>0, <1>4, <1>5, <1>7 DEF ReceivedKeptIn, D
  <2>2. c.tcpNextSendIndex <= N
    BY <1>0, <1>4, <1>7 DEF ReceivedKeptIn
  <2>. QED
    BY <1>10, <2>1, <2>2 DEF ReceivedKeptIn
<1>12. Base(moved) /\ LeftoverIsPartialIn(moved)
  BY <1>0, <1>9, <1>10, <1>11 DEF Base, UnsentCountedIn, LeftoverIsPartialIn, unsent,
       SameConnected, SameSent, SameData
<1>13. WakeUpTo(moved, {"TcpWrite"})
  BY <1>0, <1>9, <1>10 DEF WakeUpTo, NoLostWakeupIn, ConnectionType, unsent,
       SameConnected, SameSent, SameData, SameConfirmations
<1>14. /\ Base(stored) /\ LeftoverIsPartialIn(stored) /\ WakeUpTo(stored, {"TcpWrite"})
       /\ stored.udpReceivedMasterIndex = N
  <2>1. /\ Base(stored) /\ WakeUpTo(stored, {"TcpWrite"}) /\ SameData(moved, stored)
        /\ stored.udpReceivedMasterIndex = moved.udpReceivedMasterIndex
    BY <1>12, <1>13, TcpWriteFakeKeeps
  <2>. HIDE DEF stored
  <2>. QED
    BY <1>10, <1>12, <2>1 DEF SameData, LeftoverIsPartialIn
<1>. HIDE DEF stored
<1>15. E \in SUBSET Events /\ (stored.tcpNextSendIndex < N => "TcpWrite" \in E)
  BY DEF Events
<1>. HIDE DEF E
<1>16. /\ Base(r) /\ LeftoverIsPartialIn(r) /\ AllSame(stored, r) /\ r.ev = stored.ev \cup E
       /\ WakeUpTo(r, {"TcpWrite"} \ E)
  BY <1>1, <1>14, <1>15, EnableKeeps
<1>17. r.tcpNextSendIndex < r.udpReceivedMasterIndex => "TcpWrite" \in r.ev
  BY <1>14, <1>15, <1>16 DEF AllSame, SameReceived
<1>18. WakeUpTo(r, {})
  BY <1>16, <1>17 DEF WakeUpTo, NoLostWakeupIn, Base, ConnectionType, unsent
<1>. QED
  BY <1>16, <1>18 DEF r

\* Asking for confirmations enables the event that builds them.
LEMMA ScheduleConfirmationsKeeps ==
  ASSUME NEW c, Base(c), LeftoverIsPartialIn(c), WakeUpTo(c, {}), NEW k \in Int
  PROVE  LET r == [c EXCEPT !.remainConfirmationResendCount = k,
                            !.ev = c.ev \cup {"BuildConfirmations"}]
         IN  Base(r) /\ LeftoverIsPartialIn(r) /\ WakeUpTo(r, {})
<1>. DEFINE e == c.ev \cup {"BuildConfirmations"}
            r == [c EXCEPT !.remainConfirmationResendCount = k, !.ev = e]
<1>0. ConnectionType(c) /\ UnsentCountedIn(c) /\ ReceivedKeptIn(c)
      /\ e \in SUBSET Events /\ c.ev \subseteq e /\ "BuildConfirmations" \in e
  BY DEF Base, ConnectionType, Events
<1>. HIDE DEF e
<1>1. ConnectionType(r)
  BY <1>0 DEF ConnectionType
<1>2. /\ SameConnected(c, r) /\ SameSent(c, r) /\ SameReceived(c, r) /\ SameData(c, r)
      /\ r.udpConfirmationPackets = c.udpConfirmationPackets
      /\ r.remainByeByeResendCount = c.remainByeByeResendCount
      /\ r.ev = e
  BY <1>0 DEF ConnectionType, SameConnected, SameSent, SameReceived, SameData
<1>. HIDE DEF r
<1>3. Base(r) /\ LeftoverIsPartialIn(r)
  BY <1>0, <1>1, <1>2 DEF Base, UnsentCountedIn, ReceivedKeptIn, LeftoverIsPartialIn, unsent,
       SameConnected, SameSent, SameReceived, SameData
<1>4. WakeUpTo(r, {})
  BY <1>0, <1>1, <1>2 DEF WakeUpTo, NoLostWakeupIn, ConnectionType, unsent,
       SameConnected, SameSent, SameReceived, SameData
<1>. QED
  BY <1>3, <1>4 DEF r, e

\* A packet that is accepted is stored once and confirmed each time.
LEMMA UdpReadDataKeeps ==
  ASSUME NEW c, Base(c), LeftoverIsPartialIn(c), WakeUpTo(c, {}),
         NEW m \in Datagram, acceptable(c, m)
  PROVE  LET r == udpReadData(c, m)
         IN  Base(r) /\ LeftoverIsPartialIn(r) /\ WakeUpTo(r, {})
<1>. DEFINE r == udpReadData(c, m)
            stored == IF m.index \in DOMAIN c.udpReceivedPackets THEN c ELSE storePacket(c, m)
            n == confirmationResendCount
<1>1. r = [stored EXCEPT !.remainConfirmationResendCount = n,
                         !.ev = stored.ev \cup {"BuildConfirmations"}]
  BY DEF udpReadData
<1>. HIDE DEF r
<1>2. Base(stored) /\ LeftoverIsPartialIn(stored) /\ WakeUpTo(stored, {})
  <2>1. CASE m.index \in DOMAIN c.udpReceivedPackets
    BY <2>1
  <2>2. CASE m.index \notin DOMAIN c.udpReceivedPackets
    BY <2>2, StorePacketKeeps
  <2>. QED
    BY <2>1, <2>2
<1>. HIDE DEF stored
<1>3. n \in Int
  BY ConfirmCountAssumption
<1>. QED
  BY <1>1, <1>2, <1>3, ScheduleConfirmationsKeeps DEF r

\* A ByeBye cancels the confirmations that are planned or queued.
LEMMA UdpReadByeByeKeeps ==
  ASSUME NEW c, Base(c), LeftoverIsPartialIn(c), WakeUpTo(c, {}), NEW m
  PROVE  LET r == udpReadByeBye(c, m)
         IN  Base(r) /\ LeftoverIsPartialIn(r) /\ WakeUpTo(r, {})
<1>. DEFINE r == udpReadByeBye(c, m)
            e == c.ev \ {"BuildConfirmations"}
            none == 0
            d == [c EXCEPT !.remainConfirmationResendCount = none, !.ev = e]
<1>0. ConnectionType(c) /\ UnsentCountedIn(c) /\ ReceivedKeptIn(c)
      /\ e \in SUBSET Events /\ c.ev \subseteq e \cup {"BuildConfirmations"}
      /\ none \in Int
  BY DEF Base, ConnectionType
<1>1. r = dropConfirmations(d)
  BY DEF udpReadByeBye
<1>. HIDE DEF r, e, none
<1>2. ConnectionType(d)
  BY <1>0 DEF ConnectionType
<1>3. /\ SameConnected(c, d) /\ SameSent(c, d) /\ SameReceived(c, d) /\ SameData(c, d)
      /\ d.udpConfirmationPackets = c.udpConfirmationPackets
      /\ d.remainByeByeResendCount = c.remainByeByeResendCount
      /\ d.remainConfirmationResendCount = none
      /\ d.ev = e
  BY <1>0 DEF ConnectionType, SameConnected, SameSent, SameReceived, SameData
<1>. HIDE DEF d
<1>4. Base(d) /\ LeftoverIsPartialIn(d)
  BY <1>0, <1>2, <1>3 DEF Base, UnsentCountedIn, ReceivedKeptIn, LeftoverIsPartialIn, unsent,
       SameConnected, SameSent, SameReceived, SameData
<1>5. WakeUpTo(d, {})
  BY <1>0, <1>2, <1>3 DEF WakeUpTo, NoLostWakeupIn, ConnectionType, unsent,
       SameConnected, SameSent, SameReceived, SameData, none
<1>6. /\ Base(r) /\ WakeUpTo(r, {} \cup {"UdpWrite"}) /\ LeftoverIsPartialIn(r)
      /\ SameButQueue(d, r)
      /\ "UdpWrite" \in d.ev => "UdpWrite" \in r.ev
      /\ r.udpConfirmationPackets = <<>> \/ d.udpConfirmationPackets # <<>>
  BY <1>1, <1>4, <1>5, DropConfirmationsKeeps
<1>7. r.udpConnected /\ (unsent(r) # {} \/ r.udpConfirmationPackets # <<>>)
        => "UdpWrite" \in d.ev
  <2>1. unsent(r) = unsent(d) /\ r.udpConnected = d.udpConnected
    BY <1>6 DEF SameButQueue, SameSent, SameConnected, unsent
  <2>2. d.udpConnected /\ (unsent(d) # {} \/ d.udpConfirmationPackets # <<>>)
          => "UdpWrite" \in d.ev
    BY <1>2, <1>5 DEF WakeUpTo, NoLostWakeupIn, ConnectionType, unsent
  <2>. QED
    BY <1>6, <2>1, <2>2
<1>8. WakeUpTo(r, {})
  BY <1>6, <1>7 DEF WakeUpTo, NoLostWakeupIn, Base, ConnectionType, unsent
<1>. QED
  BY <1>6, <1>8 DEF r

\* udpRead keeps the invariant for every datagram that may arrive.
LEMMA UdpReadKeeps ==
  ASSUME NEW c, LocalInv(c), NEW m \in Datagram
  PROVE  LocalInv(udpRead(c, m))
<1>. DEFINE d == IF m.type = "Confirmation" THEN udpReadConfirmation(c, m)
                 ELSE IF acceptable(c, m) THEN udpReadData(c, m)
                 ELSE IF /\ m.type = "ByeBye" /\ m.index = c.udpReceivedMasterIndex
                         /\ finalReceived(c)
                   THEN udpReadByeBye(c, m)
                 ELSE c
<1>1. Base(c) /\ LeftoverIsPartialIn(c) /\ WakeUpTo(c, {})
  BY DEF LocalInv, Base, ConnectionType, WakeUpTo, NoLostWakeupIn, unsent
<1>2. CASE ~c.udpConnected
  <2>1. udpRead(c, m) = c
    BY <1>2 DEF udpRead
  <2>. QED
    BY <2>1
<1>3. CASE c.udpConnected
  <2>1. udpRead(c, m) = finish(d)
    BY <1>3 DEF udpRead
  <2>2. Base(d) /\ LeftoverIsPartialIn(d) /\ WakeUpTo(d, {})
    <3>1. CASE m.type = "Confirmation"
      BY <1>1, <1>3, <3>1, UdpReadConfirmationKeeps
    <3>2. CASE m.type # "Confirmation" /\ acceptable(c, m)
      BY <1>1, <3>2, UdpReadDataKeeps
    <3>3. CASE m.type # "Confirmation" /\ ~acceptable(c, m)
      BY <1>1, <3>3, UdpReadByeByeKeeps
    <3>. QED
      BY <3>1, <3>2, <3>3
  <2>. HIDE DEF d
  <2>3. Base(finish(d)) /\ LeftoverIsPartialIn(finish(d)) /\ WakeUpTo(finish(d), {})
    BY <2>2, FinishKeeps
  <2>. QED
    BY <2>1, <2>3, InvFromWakeUp
<1>. QED
  BY <1>2, <1>3

-----------------------------------------------------------------------------
(* The remaining steps of a connection.                                     *)

\* Handing the socket's state on changes nothing that the invariant speaks of.
LEMMA CloseReadKeeps ==
  ASSUME NEW c, LocalInv(c)
  PROVE  LocalInv(closeRead(c))
<1>. DEFINE r == closeRead(c)
<1>1. ConnectionType(r) /\ AllSame(c, r) /\ r.ev = c.ev
  BY DEF closeRead, LocalInv, Base, ConnectionType, AllSame, SameConnected, SameSent,
         SameReceived, SameConfirmations, SameData
<1>2. Base(c) /\ WakeUpTo(c, {}) /\ LeftoverIsPartialIn(c)
  BY DEF LocalInv, Base, ConnectionType, WakeUpTo, NoLostWakeupIn, unsent
<1>. HIDE DEF r
<1>3. Base(r) /\ WakeUpTo(r, {}) /\ LeftoverIsPartialIn(r)
  BY <1>1, <1>2, Transfer
<1>4. LocalInv(r)
  BY <1>3, InvFromWakeUp
<1>. QED
  BY <1>4 DEF r

\* Socket::closeWrite changes the socket only.
LEMMA CloseWriteKeeps ==
  ASSUME NEW c, LocalInv(c), NEW error \in BOOLEAN
  PROVE  LocalInv(closeWrite(c, error))
<1>. DEFINE r == closeWrite(c, error)
<1>1. ConnectionType(r) /\ AllSame(c, r) /\ r.ev = c.ev
  BY DEF closeWrite, LocalInv, Base, ConnectionType, AllSame, SameConnected, SameSent,
         SameReceived, SameConfirmations, SameData
<1>2. Base(c) /\ WakeUpTo(c, {}) /\ LeftoverIsPartialIn(c)
  BY DEF LocalInv, Base, ConnectionType, WakeUpTo, NoLostWakeupIn, unsent
<1>. HIDE DEF r
<1>3. Base(r) /\ WakeUpTo(r, {}) /\ LeftoverIsPartialIn(r)
  BY <1>1, <1>2, Transfer
<1>4. LocalInv(r)
  BY <1>3, InvFromWakeUp
<1>. QED
  BY <1>4 DEF r

\* Socket::Group::poll changes the socket only.
LEMMA PolledKeeps ==
  ASSUME NEW c, LocalInv(c), NEW error \in BOOLEAN, NEW readable
  PROVE  LocalInv(polled(c, error, readable))
<1>1. LocalInv(closeWrite(c, error))
  BY CloseWriteKeeps
<1>2. LocalInv(closeRead(closeWrite(c, error)))
  BY <1>1, CloseReadKeeps
<1>. QED
  BY <1>1, <1>2 DEF polled

\* A connection starts with its Hello queued and eventUdpWrite enabled for it.
LEMMA NewConnectionIsGood == LocalInv(newConnection)
<1>. DEFINE b == [tcpConnected |-> TRUE,
                  udpConnected |-> TRUE,
                  tcpNextSendIndex |-> 0,
                  udpNextSendIndex |-> 0,
                  udpReceivedMasterIndex |-> 0,
                  udpConfirmedMasterIndex |-> 0,
                  udpReceivedFinalIndex |-> INT_MAX,
                  udpPacketsToSendCount |-> 0,
                  remainConfirmationResendCount |-> 0,
                  remainByeByeResendCount |-> 0,
                  tcpReceivedData |-> [from |-> 0, to |-> 0],
                  udpSentPackets |-> emptyMap,
                  udpConfirmationPackets |-> <<>>,
                  udpReceivedPackets |-> emptyMap,
                  socketRead |-> TRUE,
                  socketWrite |-> TRUE,
                  socketError |-> FALSE,
                  tcpWritten |-> <<>>,
                  ev |-> {"TcpClose", "UdpClose"}]
<1>1. newConnection = addPacket(b, "Hello", 0, 0)
  BY DEF newConnection
<1>2. emptyMap \in [{} -> SentPacket] /\ emptyMap \in [{} -> ReceivedPacket]
      /\ DOMAIN emptyMap = {}
  BY DEF emptyMap
<1>3. /\ {"TcpClose", "UdpClose"} \in SUBSET Events
      /\ [from |-> 0, to |-> 0] \in Chunk
      /\ <<>> \in Seq(Datagram) /\ <<>> \in Seq(Nat)
  BY DEF Events, Chunk
<1>4. ConnectionType(b)
  BY <1>2, <1>3, IntMaxAssumption, ReceiveWindowAssumption DEF ConnectionType
<1>5. unsent(b) = {}
  BY <1>2 DEF unsent
<1>6. Base(b)
  <2>1. b.udpPacketsToSendCount = Cardinality(unsent(b))
    BY <1>5, FS_EmptySet
  <2>2. b.tcpNextSendIndex = 0 /\ b.udpReceivedMasterIndex = 0
    OBVIOUS
  <2>. HIDE DEF b
  <2>3. ReceivedKeptIn(b)
    BY <2>2 DEF ReceivedKeptIn
  <2>. QED
    BY <1>4, <2>1, <2>3 DEF Base, UnsentCountedIn
<1>7. LeftoverIsPartialIn(b)
  BY PacketSizeAssumption DEF LeftoverIsPartialIn
<1>8. WakeUpTo(b, {"TcpRead"})
  BY <1>2 DEF WakeUpTo, NoLostWakeupIn, unsent
<1>9. b.udpConnected
  OBVIOUS
<1>. HIDE DEF b
<1>. DEFINE d == addPacket(b, "Hello", 0, 0)
<1>10. /\ Base(d) /\ WakeUpTo(d, {"TcpRead"}) /\ SameData(b, d)
  BY <1>6, <1>8, <1>9, AddPacketKeeps DEF DataTypes
<1>11. DOMAIN d.udpSentPackets # {}
  <2>1. "Hello" \in DataTypes /\ 0 \in Nat
    BY DEF DataTypes
  <2>2. DOMAIN d.udpSentPackets = DOMAIN b.udpSentPackets \cup {b.udpNextSendIndex}
    BY <1>4, <2>1, AddPacketForm
  <2>. QED
    BY <2>2
<1>. HIDE DEF d
<1>12. WakeUpTo(d, {})
  BY <1>10, <1>11 DEF WakeUpTo, NoLostWakeupIn, Base, ConnectionType, unsent
<1>13. LeftoverIsPartialIn(d)
  BY <1>7, <1>10 DEF SameData, LeftoverIsPartialIn
<1>14. LocalInv(d)
  BY <1>10, <1>12, <1>13, InvFromWakeUp
<1>. QED
  BY <1>1, <1>14 DEF d

-----------------------------------------------------------------------------
(* What a method may do to a connection c that becomes d.                  *)

Fields ==
  {"tcpConnected", "udpConnected", "tcpNextSendIndex", "udpNextSendIndex",
   "udpReceivedMasterIndex", "udpConfirmedMasterIndex", "udpReceivedFinalIndex",
   "udpPacketsToSendCount", "remainConfirmationResendCount",
   "remainByeByeResendCount", "tcpReceivedData", "udpSentPackets",
   "udpConfirmationPackets", "udpReceivedPackets", "socketRead", "socketWrite",
   "socketError", "tcpWritten", "ev"}

HasFields(c) ==
  /\ Fields \subseteq DOMAIN c
  /\ c.udpNextSendIndex \in Nat
  /\ c.udpConfirmationPackets \in Seq(Datagram)

\* Packet i of the peer has been received.
Has(c, i) == i < c.udpReceivedMasterIndex \/ i \in DOMAIN c.udpReceivedPackets

\* The packets of c that are not kept any more.
Missing(c) == {i \in Nat : i < c.udpNextSendIndex /\ i \notin DOMAIN c.udpSentPackets}

\* What the datagram confirms has been received.
Told(c, m) ==
  isConfirmation(m) =>
    m.index <= c.udpReceivedMasterIndex /\ \A i \in m.acks : Has(c, i)

\* A datagram of this end that is no packet of the stream, and true.
Tells(c, m) == m.type \notin DataTypes /\ Told(c, m)

Queued(c) ==
  {c.udpConfirmationPackets[k] : k \in 1 .. Len(c.udpConfirmationPackets)}

\* Of one kind and with the same last byte: TCP may have got a part.
SameEnd(p, q) == p.type = q.type /\ p.to = q.to

\* Nothing is received: packets may be forgotten only, those that TCP has got.
Idle(c, d) ==
  /\ HasFields(d)
  /\ d.udpReceivedMasterIndex = c.udpReceivedMasterIndex
  /\ d.udpReceivedFinalIndex = c.udpReceivedFinalIndex
  /\ DOMAIN d.udpReceivedPackets \subseteq DOMAIN c.udpReceivedPackets
  /\ \A i \in DOMAIN d.udpReceivedPackets :
       SameEnd(d.udpReceivedPackets[i], c.udpReceivedPackets[i])
  /\ \A i : Has(c, i) => Has(d, i)

\* Nothing is written to TCP, and what TCP still has to get is the same.
SameReads(c, d) ==
  /\ d.tcpWritten = c.tcpWritten
  /\ d.tcpConnected => c.tcpConnected
  /\ d.tcpConnected =>
       /\ d.tcpNextSendIndex = c.tcpNextSendIndex
       /\ \A i \in DOMAIN d.udpReceivedPackets :
            d.udpReceivedPackets[i] = c.udpReceivedPackets[i]
       /\ c.tcpNextSendIndex \in DOMAIN c.udpReceivedPackets
            => c.tcpNextSendIndex \in DOMAIN d.udpReceivedPackets

\* No packet is erased, and what is queued confirms what has been received.
Sends(c, d) ==
  /\ d.udpConnected = c.udpConnected
  /\ Missing(d) \subseteq Missing(c)
  /\ \A m \in Queued(d) : m \in Queued(c) \/ Tells(c, m)

\* No packet is queued and no byte is taken or given away, unless UDP closes.
SameLog(c, d) ==
  /\ d.udpNextSendIndex = c.udpNextSendIndex
  /\ \A i \in DOMAIN d.udpSentPackets :
       /\ i \in DOMAIN c.udpSentPackets
       /\ d.udpSentPackets[i].type = c.udpSentPackets[i].type
       /\ d.udpSentPackets[i].from = c.udpSentPackets[i].from
       /\ d.udpSentPackets[i].to = c.udpSentPackets[i].to
  /\ d.tcpReceivedData.to = c.tcpReceivedData.to
  /\ d.tcpReceivedData.from \in {c.tcpReceivedData.from, c.tcpReceivedData.to}
  /\ d.tcpReceivedData.from # c.tcpReceivedData.from => ~d.udpConnected
  /\ d.tcpConnected => c.tcpConnected
  /\ d.udpConnected => c.udpConnected
  /\ (c.tcpConnected /\ ~d.tcpConnected) \/ (c.udpConnected /\ ~d.udpConnected)
       => d.tcpReceivedData.from = d.tcpReceivedData.to

\* The socket reports no more than before: an error stays, and the socket is
\* closed for writing only together with TCP.
SameSocket(c, d) ==
  /\ d.socketError = c.socketError
  /\ d.tcpConnected => d.socketWrite = c.socketWrite

Stays(c, d) == Idle(c, d) /\ SameReads(c, d) /\ Sends(c, d) /\ SameSocket(c, d)

Silent(c, d) == Stays(c, d) /\ SameLog(c, d) /\ d.tcpConnected = c.tcpConnected

\* UDP is closed: what was queued is dropped.
Closes(c, d) ==
  /\ Idle(c, d) /\ SameReads(c, d) /\ SameSocket(c, d) /\ SameLog(c, d)
  /\ ~d.udpConnected
  /\ \A m \in Queued(d) : Tells(c, m)

\* UDP is closed because everything was sent, confirmed and written to TCP.
Finishes(c, d) ==
  /\ Closes(c, d)
  /\ c.udpConnected
  /\ isNoMoreDataWillBeSent(c)
  /\ c.tcpNextSendIndex >= c.udpReceivedMasterIndex

\* Two calls, one after the other.
LEMMA IdleChains ==
  ASSUME NEW c, NEW d, NEW e, Idle(c, d), Idle(d, e)
  PROVE  Idle(c, e)
BY DEF Idle, SameEnd

\* ... keep what TCP still has to get.
LEMMA ReadsChain ==
  ASSUME NEW c, NEW d, NEW e, Idle(c, d), Idle(d, e), SameReads(c, d), SameReads(d, e)
  PROVE  SameReads(c, e)
BY DEF Idle, SameEnd, SameReads

\* What is true of the packets received stays true.
LEMMA TellsChains ==
  ASSUME NEW c, NEW d, Idle(c, d), NEW m, Tells(d, m)
  PROVE  Tells(c, m)
BY DEF Tells, Told, Idle, Has

\* ... erase nothing and tell the truth.
LEMMA SendsChain ==
  ASSUME NEW c, NEW d, NEW e, Idle(c, d), Sends(c, d), Sends(d, e)
  PROVE  Sends(c, e)
BY TellsChains DEF Sends

\* ... leave the packets of this end alone.
LEMMA LogChains ==
  ASSUME NEW c, NEW d, NEW e, SameLog(c, d), SameLog(d, e)
  PROVE  SameLog(c, e)
BY DEF SameLog

\* ... leave the state of the socket.
LEMMA SocketChains ==
  ASSUME NEW c, NEW d, NEW e, SameReads(d, e), SameSocket(c, d), SameSocket(d, e)
  PROVE  SameSocket(c, e)
BY DEF SameReads, SameSocket

\* All of that at once.
LEMMA StaysChains ==
  ASSUME NEW c, NEW d, NEW e, Stays(c, d), Stays(d, e)
  PROVE  Stays(c, e)
BY IdleChains, ReadsChain, SendsChain, SocketChains DEF Stays

\* The same, where nothing is sent either.
LEMMA SilentChains ==
  ASSUME NEW c, NEW d, NEW e, Silent(c, d), Silent(d, e)
  PROVE  Silent(c, e)
BY StaysChains, LogChains DEF Silent

\* Something silent, and then UDP is closed.
LEMMA ClosesChains ==
  ASSUME NEW c, NEW d, NEW e, Silent(c, d), Closes(d, e)
  PROVE  Closes(c, e)
<1>1. \A m \in Queued(e) : Tells(c, m)
  BY TellsChains DEF Silent, Stays, Closes
<1>. QED
  BY <1>1, IdleChains, ReadsChain, SocketChains, LogChains DEF Silent, Stays, Closes

\* A typed connection has all its fields.
LEMMA TypedHasFields ==
  ASSUME NEW c, ConnectionType(c)
  PROVE  HasFields(c)
BY DEF ConnectionType, HasFields, Fields

\* Everything that the relations above look at.
Alike(c, d) ==
  /\ Fields \subseteq DOMAIN d
  /\ d.tcpConnected = c.tcpConnected
  /\ d.udpConnected = c.udpConnected
  /\ d.tcpNextSendIndex = c.tcpNextSendIndex
  /\ d.udpNextSendIndex = c.udpNextSendIndex
  /\ d.udpReceivedMasterIndex = c.udpReceivedMasterIndex
  /\ d.udpReceivedFinalIndex = c.udpReceivedFinalIndex
  /\ d.tcpReceivedData = c.tcpReceivedData
  /\ d.udpSentPackets = c.udpSentPackets
  /\ d.udpConfirmationPackets = c.udpConfirmationPackets
  /\ d.udpReceivedPackets = c.udpReceivedPackets
  /\ d.tcpWritten = c.tcpWritten
  /\ d.socketError = c.socketError
  /\ d.socketWrite = c.socketWrite

\* A method that leaves all that alone is silent.
LEMMA AlikeIsSilent ==
  ASSUME NEW c, HasFields(c), NEW d, Alike(c, d)
  PROVE  Silent(c, d)
<1>1. Idle(c, d)
  BY DEF Alike, HasFields, Idle, SameEnd, Has
<1>2. SameReads(c, d) /\ SameSocket(c, d)
  BY DEF Alike, SameReads, SameSocket
<1>3. Sends(c, d)
  BY DEF Alike, Sends, Missing, Queued
<1>4. SameLog(c, d) /\ d.tcpConnected = c.tcpConnected
  BY DEF Alike, SameLog
<1>. QED
  BY <1>1, <1>2, <1>3, <1>4 DEF Silent, Stays

-----------------------------------------------------------------------------
(* One lemma per method.                                                   *)

\* Events are enabled and disabled without touching anything else.
LEMMA EventsStay ==
  ASSUME NEW c, HasFields(c), NEW X
  PROVE  Silent(c, c) /\ Silent(c, enable(c, X)) /\ Silent(c, disable(c, X))
<1>1. Alike(c, c) /\ Alike(c, enable(c, X)) /\ Alike(c, disable(c, X))
  BY DEF Alike, HasFields, Fields, enable, disable
<1>. QED
  BY <1>1, AlikeIsSilent

\* Nothing is done.
LEMMA SelfStays ==
  ASSUME NEW c, HasFields(c)
  PROVE  Silent(c, c)
<1>1. Alike(c, c)
  BY DEF Alike, HasFields
<1>. QED
  BY <1>1, AlikeIsSilent

\* Event::raise.
LEMMA RaiseStays ==
  ASSUME NEW c, HasFields(c), NEW e
  PROVE  Silent(c, raise(c, e))
BY EventsStay DEF raise

\* onUdpSentBufferChanged enables or disables eventTcpRead only.
LEMMA BufferChangedStays ==
  ASSUME NEW c, HasFields(c), NEW S
  PROVE  Silent(c, onUdpSentBufferChanged(c, S))
BY EventsStay DEF onUdpSentBufferChanged

\* A silent method leaves the fields.
LEMMA SilentHasFields ==
  ASSUME NEW c, NEW d, Silent(c, d)
  PROVE  HasFields(d)
BY DEF Silent, Stays, Idle

\* Queueing a packet under the next index.
LEMMA AddPacketStays ==
  ASSUME NEW c, HasFields(c), NEW type, NEW from, NEW to
  PROVE  Stays(c, addPacket(c, type, from, to))
<1>. DEFINE n == c.udpNextSendIndex
            p == [type |-> type, from |-> from, to |-> to,
                  sent |-> FALSE, remainResendCount |-> udpResendCount]
            packets == [i \in DOMAIN c.udpSentPackets \cup {n} |->
                          IF i = n THEN p ELSE c.udpSentPackets[i]]
            next == n + 1
            d == [c EXCEPT !.udpSentPackets = packets,
                           !.udpNextSendIndex = next,
                           !.udpPacketsToSendCount = @ + 1,
                           !.ev = @ \cup {"UdpWrite"}]
<1>1. addPacket(c, type, from, to) = onUdpSentBufferChanged(d, DOMAIN packets)
  BY DEF addPacket
<1>2. DOMAIN packets = DOMAIN c.udpSentPackets \cup {n}
  OBVIOUS
<1>3. n \in Nat /\ next \in Nat /\ \A i \in Nat : i < next /\ i # n => i < n
  BY DEF HasFields
<1>. HIDE DEF packets, next
<1>4. Stays(c, d)
  <2>1. Idle(c, d) /\ SameReads(c, d) /\ SameSocket(c, d)
    BY <1>3 DEF Idle, SameEnd, SameReads, SameSocket, Has, HasFields, Fields
  <2>2. Sends(c, d)
    BY <1>2, <1>3 DEF Sends, Missing, Queued, HasFields, Fields
  <2>. QED
    BY <2>1, <2>2 DEF Stays
<1>. HIDE DEF d
<1>5. HasFields(d)
  BY <1>4 DEF Stays, Idle
<1>. QED
  BY <1>1, <1>4, <1>5, BufferChangedStays, StaysChains DEF Silent

\* buildUdpPackets cuts what came from TCP.
LEMMA BuildUdpPacketsStays ==
  ASSUME NEW c, HasFields(c), NEW flush
  PROVE  Stays(c, buildUdpPackets(c, flush))
<1>. DEFINE d    == c.tcpReceivedData
            from == IF finalReceived(c) THEN d.to ELSE d.from
            n    == packetBytes(d.to - from, flush)
            rest == [from |-> from + n, to |-> d.to]
            cut  == [c EXCEPT !.tcpReceivedData = rest]
            T    == "Data"
            queued == addPacket(cut, T, from, from + n)
            built == IF n > 0 THEN queued ELSE cut
            E    == {"BuildUdpPackets"}
<1>1. buildUdpPackets(c, flush) \in {c, disable(built, E), enable(built, E)}
  BY DEF buildUdpPackets
<1>. HIDE DEF rest
<1>2. Stays(c, cut)
  <2>1. Idle(c, cut) /\ SameReads(c, cut) /\ SameSocket(c, cut)
    BY DEF Idle, SameEnd, SameReads, SameSocket, Has, HasFields, Fields
  <2>2. Sends(c, cut)
    BY DEF Sends, Missing, Queued, HasFields, Fields
  <2>. QED
    BY <2>1, <2>2 DEF Stays
<1>. HIDE DEF cut, T
<1>3. HasFields(cut)
  BY <1>2 DEF Stays, Idle
<1>4. Stays(cut, queued)
  BY <1>3, AddPacketStays
<1>5. Stays(c, built)
  BY <1>2, <1>4, StaysChains
<1>. HIDE DEF built, E
<1>6. HasFields(built)
  BY <1>5 DEF Stays, Idle
<1>7. Stays(built, disable(built, E)) /\ Stays(built, enable(built, E)) /\ Stays(c, c)
  BY <1>6, EventsStay DEF Silent
<1>. QED
  BY <1>1, <1>5, <1>7, StaysChains

\* tcpRead reads from TCP.
LEMMA TcpReadStays ==
  ASSUME NEW c, HasFields(c), NEW size
  PROVE  Stays(c, tcpRead(c, size))
<1>. DEFINE d    == c.tcpReceivedData
            data == [from |-> d.from, to |-> d.to + size]
            more == [c EXCEPT !.tcpReceivedData = data]
            F    == FALSE
            built == buildUdpPackets(more, F)
            read == IF size > 0 /\ c.udpConnected THEN built ELSE c
            after == onUdpSentBufferChanged(read, DOMAIN read.udpSentPackets)
<1>1. tcpRead(c, size) \in {c, after}
  BY DEF tcpRead
<1>. HIDE DEF data
<1>2. Stays(c, more)
  <2>1. Idle(c, more) /\ SameReads(c, more) /\ SameSocket(c, more)
    BY DEF Idle, SameEnd, SameReads, SameSocket, Has, HasFields, Fields
  <2>2. Sends(c, more)
    BY DEF Sends, Missing, Queued, HasFields, Fields
  <2>. QED
    BY <2>1, <2>2 DEF Stays
<1>. HIDE DEF more, F
<1>3. HasFields(more)
  BY <1>2 DEF Stays, Idle
<1>4. Stays(more, built)
  BY <1>3, BuildUdpPacketsStays
<1>5. Stays(c, c)
  BY EventsStay DEF Silent
<1>6. Stays(c, read)
  BY <1>2, <1>4, <1>5, StaysChains
<1>. HIDE DEF read
<1>7. HasFields(read)
  BY <1>6 DEF Stays, Idle
<1>8. Stays(read, after)
  BY <1>7, BufferChangedStays DEF Silent
<1>. HIDE DEF after
<1>. QED
  BY <1>1, <1>5, <1>6, <1>8, StaysChains

\* tcpWrite(true) passes over packets that stay stored.
LEMMA TcpWriteFakeStays ==
  ASSUME NEW c, HasFields(c)
  PROVE  Silent(c, tcpWriteFake(c))
<1>. DEFINE d == [c EXCEPT !.tcpNextSendIndex = c.udpReceivedMasterIndex]
<1>1. CASE c.tcpConnected
  BY <1>1, EventsStay DEF tcpWriteFake
<1>2. CASE ~c.tcpConnected
  <2>1. tcpWriteFake(c) = d
    BY <1>2 DEF tcpWriteFake
  <2>2. Idle(c, d) /\ SameReads(c, d) /\ SameSocket(c, d)
    BY <1>2 DEF Idle, SameEnd, SameReads, SameSocket, Has, HasFields, Fields
  <2>3. Sends(c, d) /\ SameLog(c, d) /\ d.tcpConnected = c.tcpConnected
    BY <1>2 DEF Sends, Missing, Queued, SameLog, HasFields, Fields
  <2>. HIDE DEF d
  <2>. QED
    BY <2>1, <2>2, <2>3 DEF Silent, Stays
<1>. QED
  BY <1>1, <1>2

\* tcpClose queues this end's own last packet.
LEMMA TcpCloseStays ==
  ASSUME NEW c, HasFields(c), NEW error
  PROVE  Stays(c, tcpClose(c, error))
<1>. DEFINE closed == [c EXCEPT !.tcpConnected = FALSE,
                                !.socketRead = FALSE,
                                !.socketWrite = FALSE,
                                !.ev = @ \ {"TcpRead", "TcpWrite"}]
            faked   == tcpWriteFake(closed)
            T       == TRUE
            flushed == buildUdpPackets(faked, T)
            type    == IF error THEN "Disconnect" ELSE "Bye"
            to      == c.tcpReceivedData.to
            byes    == addPacket(flushed, type, to, to)
            E       == {"Close"}
<1>1. tcpClose(c, error) \in {c, enable(closed, E), byes}
  BY DEF tcpClose
<1>2. Stays(c, closed)
  <2>1. Idle(c, closed) /\ SameReads(c, closed) /\ SameSocket(c, closed)
    BY DEF Idle, SameEnd, SameReads, SameSocket, Has, HasFields, Fields
  <2>2. Sends(c, closed)
    BY DEF Sends, Missing, Queued, HasFields, Fields
  <2>. QED
    BY <2>1, <2>2 DEF Stays
<1>. HIDE DEF closed, T, E, type, to
<1>3. HasFields(closed)
  BY <1>2 DEF Stays, Idle
<1>4. Silent(closed, faked)
  BY <1>3, TcpWriteFakeStays
<1>. HIDE DEF faked
<1>5. HasFields(faked)
  BY <1>4, SilentHasFields
<1>6. Stays(faked, flushed)
  BY <1>5, BuildUdpPacketsStays
<1>. HIDE DEF flushed
<1>7. HasFields(flushed)
  BY <1>6 DEF Stays, Idle
<1>8. Stays(flushed, byes)
  BY <1>7, AddPacketStays
<1>9. Stays(closed, enable(closed, E)) /\ Stays(c, c) /\ Stays(closed, faked)
  BY <1>3, <1>4, EventsStay DEF Silent
<1>. HIDE DEF byes
<1>. QED
  BY <1>1, <1>2, <1>6, <1>8, <1>9, StaysChains

\* tcpClose with UDP closed has no packet to queue.
LEMMA TcpCloseAlone ==
  ASSUME NEW c, HasFields(c), ~c.udpConnected, NEW error,
         c.tcpReceivedData.from = c.tcpReceivedData.to
  PROVE  LET r == tcpClose(c, error)
         IN  Stays(c, r) /\ SameLog(c, r) /\ ~r.tcpConnected
<1>. DEFINE closed == [c EXCEPT !.tcpConnected = FALSE,
                                !.socketRead = FALSE,
                                !.socketWrite = FALSE,
                                !.ev = @ \ {"TcpRead", "TcpWrite"}]
            E == {"Close"}
<1>1. tcpClose(c, error) = IF ~c.tcpConnected THEN c ELSE enable(closed, E)
  BY DEF tcpClose, HasFields, Fields
<1>2. Stays(c, closed) /\ SameLog(c, closed) /\ ~closed.tcpConnected
  <2>1. Idle(c, closed) /\ SameReads(c, closed) /\ SameSocket(c, closed)
    BY DEF Idle, SameEnd, SameReads, SameSocket, Has, HasFields, Fields
  <2>2. Sends(c, closed) /\ SameLog(c, closed) /\ ~closed.tcpConnected
    BY DEF Sends, Missing, Queued, SameLog, HasFields, Fields
  <2>. QED
    BY <2>1, <2>2 DEF Stays
<1>. HIDE DEF closed, E
<1>3. Silent(closed, enable(closed, E)) /\ Silent(c, c)
  BY <1>2, EventsStay DEF Stays, Idle
<1>4. ~enable(closed, E).tcpConnected
  BY <1>2, <1>3 DEF Silent
<1>5. Stays(c, enable(closed, E)) /\ SameLog(c, enable(closed, E))
  BY <1>2, <1>3, StaysChains, LogChains DEF Silent
<1>. QED
  BY <1>1, <1>2, <1>3, <1>4, <1>5 DEF Silent

\* udpClose drops what was to be sent, and nothing received.  TCP is closed as
\* well when it has got everything.
LEMMA UdpCloseStays ==
  ASSUME NEW c, HasFields(c), c.udpConnected
  PROVE  /\ Closes(c, udpClose(c))
         /\ ~(c.tcpNextSendIndex >= c.udpReceivedMasterIndex)
              => udpClose(c).tcpConnected = c.tcpConnected
<1>. DEFINE d == c.tcpReceivedData
            data == [from |-> d.to, to |-> d.to]
            cleared == [c EXCEPT !.udpConnected = FALSE,
                                 !.socketRead = FALSE,
                                 !.tcpReceivedData = data,
                                 !.udpConfirmationPackets = <<>>,
                                 !.udpSentPackets = emptyMap,
                                 !.ev = @ \ {"BuildUdpPackets", "BuildConfirmations",
                                             "UdpResend", "UdpWrite"}]
            none   == {}
            closed == onUdpSentBufferChanged(cleared, none)
            E      == {"Close"}
            F      == FALSE
            k      == c.tcpNextSendIndex
            master == c.udpReceivedMasterIndex
<1>1. udpClose(c) = IF ~c.tcpConnected THEN enable(closed, E)
                    ELSE IF k >= master THEN tcpClose(closed, F) ELSE closed
  BY DEF udpClose
<1>2. data.from = d.to /\ data.to = d.to /\ DOMAIN emptyMap = {}
  BY DEF emptyMap
<1>. HIDE DEF data
<1>3. /\ Idle(c, cleared) /\ SameReads(c, cleared) /\ SameSocket(c, cleared)
      /\ SameLog(c, cleared)
      /\ ~cleared.udpConnected /\ Queued(cleared) = {}
      /\ cleared.tcpReceivedData.from = cleared.tcpReceivedData.to
      /\ cleared.tcpConnected = c.tcpConnected
  <2>1. Idle(c, cleared) /\ SameReads(c, cleared) /\ SameSocket(c, cleared)
    BY DEF Idle, SameEnd, SameReads, SameSocket, Has, HasFields, Fields
  <2>2. Queued(cleared) = {}
    BY DEF Queued, HasFields, Fields
  <2>3. /\ SameLog(c, cleared)
        /\ ~cleared.udpConnected
        /\ cleared.tcpReceivedData.from = cleared.tcpReceivedData.to
        /\ cleared.tcpConnected = c.tcpConnected
    BY <1>2 DEF SameLog, HasFields, Fields
  <2>. QED
    BY <2>1, <2>2, <2>3
<1>. HIDE DEF cleared, none, E, F
<1>4. HasFields(cleared)
  BY <1>3 DEF Idle
<1>5. Silent(cleared, closed) /\ closed.tcpConnected = cleared.tcpConnected
  BY <1>4, BufferChangedStays DEF onUdpSentBufferChanged, enable, disable, HasFields, Fields
<1>8. HasFields(closed) /\ Silent(closed, enable(closed, E)) /\ ~closed.udpConnected
      /\ closed.tcpReceivedData.from = closed.tcpReceivedData.to
      /\ enable(closed, E).tcpConnected = closed.tcpConnected
  <2>1. HasFields(closed)
    BY <1>5, SilentHasFields
  <2>2. closed.tcpReceivedData.from = closed.tcpReceivedData.to /\ ~closed.udpConnected
    BY <1>3, <1>5 DEF Silent, SameLog
  <2>. HIDE DEF closed
  <2>. QED
    BY <2>1, <2>2, EventsStay DEF enable, HasFields, Fields
<1>6. ASSUME NEW e, Stays(cleared, e), SameLog(cleared, e) PROVE Closes(c, e)
  <2>1. Idle(c, e) /\ SameReads(c, e) /\ SameSocket(c, e) /\ SameLog(c, e)
    BY <1>3, <1>6, IdleChains, ReadsChain, SocketChains, LogChains DEF Stays
  <2>2. ~e.udpConnected
    BY <1>3, <1>6 DEF SameLog
  <2>3. \A m \in Queued(e) : Tells(c, m)
    BY <1>3, <1>6, TellsChains DEF Stays, Sends
  <2>. QED
    BY <2>1, <2>2, <2>3 DEF Closes
<1>. HIDE DEF closed
<1>7. Stays(closed, tcpClose(closed, F)) /\ SameLog(closed, tcpClose(closed, F))
  BY <1>8, TcpCloseAlone
<1>9. Closes(c, closed) /\ Closes(c, enable(closed, E)) /\ Closes(c, tcpClose(closed, F))
  BY <1>5, <1>6, <1>7, <1>8, StaysChains, LogChains DEF Silent
<1>. QED
  BY <1>1, <1>3, <1>5, <1>8, <1>9

\* The check that ends udpRead.
LEMMA FinishStays ==
  ASSUME NEW c, HasFields(c)
  PROVE  finish(c) = c \/ Finishes(c, finish(c))
<1>1. CASE c.udpConnected /\ isUdpFinished(c)
  BY <1>1, UdpCloseStays DEF finish, isUdpFinished, Finishes
<1>2. CASE ~(c.udpConnected /\ isUdpFinished(c))
  BY <1>2 DEF finish, udpClose
<1>. QED
  BY <1>1, <1>2

-----------------------------------------------------------------------------
(* Sending.                                                                *)

\* udpWrite of a queued confirmation.
LEMMA UdpWriteConfirmationStays ==
  ASSUME NEW c, HasFields(c), c.udpConnected, c.udpConfirmationPackets # <<>>
  PROVE  LET r == udpWriteConfirmation(c) IN Silent(c, r) \/ Finishes(c, r)
<1>. DEFINE q      == Tail(c.udpConfirmationPackets)
            tail   == [c EXCEPT !.udpConfirmationPackets = q]
            popped == onUdpSentBufferChanged(tail, DOMAIN c.udpSentPackets)
            E      == {"UdpWrite"}
<1>1. udpWriteConfirmation(c) =
        IF isUdpFinished(popped) THEN udpClose(popped)
        ELSE IF moreToWrite(popped) THEN enable(popped, E) ELSE popped
  BY DEF udpWriteConfirmation
<1>2. q \in Seq(Datagram) /\ \A k \in 1 .. Len(q) : q[k] \in Queued(c)
  BY DEF HasFields, Queued
<1>. HIDE DEF q
<1>3. Silent(c, tail)
  <2>1. Idle(c, tail) /\ SameReads(c, tail) /\ SameSocket(c, tail)
    BY <1>2 DEF Idle, SameEnd, SameReads, SameSocket, Has, HasFields, Fields
  <2>2. SameLog(c, tail) /\ tail.tcpConnected = c.tcpConnected
    BY DEF SameLog, HasFields, Fields
  <2>3. tail.udpConfirmationPackets = q
    BY DEF HasFields, Fields
  <2>4. Missing(tail) = Missing(c) /\ tail.udpConnected = c.udpConnected
    BY DEF Missing, HasFields, Fields
  <2>. HIDE DEF tail
  <2>5. Sends(c, tail)
    BY <1>2, <2>3, <2>4 DEF Sends, Queued
  <2>. QED
    BY <2>1, <2>2, <2>5 DEF Silent, Stays
<1>4. /\ tail.udpConnected = c.udpConnected /\ tail.tcpConnected = c.tcpConnected
      /\ tail.udpReceivedFinalIndex = c.udpReceivedFinalIndex
      /\ tail.udpReceivedMasterIndex = c.udpReceivedMasterIndex
      /\ tail.tcpNextSendIndex = c.tcpNextSendIndex
      /\ tail.tcpReceivedData = c.tcpReceivedData
      /\ tail.udpSentPackets = c.udpSentPackets
  BY DEF HasFields, Fields
<1>. HIDE DEF tail, E
<1>5. HasFields(tail)
  BY <1>3, SilentHasFields
<1>6. Silent(tail, popped)
  BY <1>5, BufferChangedStays
<1>7. /\ popped.udpConnected = tail.udpConnected /\ popped.tcpConnected = tail.tcpConnected
      /\ popped.udpReceivedFinalIndex = tail.udpReceivedFinalIndex
      /\ popped.udpReceivedMasterIndex = tail.udpReceivedMasterIndex
      /\ popped.tcpNextSendIndex = tail.tcpNextSendIndex
      /\ popped.tcpReceivedData = tail.tcpReceivedData
      /\ popped.udpSentPackets = tail.udpSentPackets
  BY <1>5 DEF onUdpSentBufferChanged, enable, disable, HasFields, Fields
<1>. HIDE DEF popped
<1>8. Silent(c, popped) /\ HasFields(popped)
  BY <1>3, <1>6, SilentChains, SilentHasFields
<1>9. Silent(c, enable(popped, E))
  BY <1>8, EventsStay, SilentChains
<1>10. CASE isUdpFinished(popped)
  <2>1. Closes(c, udpClose(popped))
    BY <1>4, <1>7, <1>8, UdpCloseStays, ClosesChains
  <2>2. isNoMoreDataWillBeSent(c) /\ c.tcpNextSendIndex >= c.udpReceivedMasterIndex
    BY <1>4, <1>7, <1>10 DEF isUdpFinished, isNoMoreDataWillBeSent, finalReceived
  <2>. QED
    BY <1>1, <1>10, <2>1, <2>2 DEF Finishes
<1>. QED
  BY <1>1, <1>8, <1>9, <1>10

\* A packet that is stored again with other flags only.
LEMMA SentStays ==
  ASSUME NEW c, HasFields(c), NEW P, DOMAIN P = DOMAIN c.udpSentPackets,
         \A i \in DOMAIN P : /\ P[i].type = c.udpSentPackets[i].type
                             /\ P[i].from = c.udpSentPackets[i].from
                             /\ P[i].to = c.udpSentPackets[i].to,
         NEW n, NEW E
  PROVE  LET d == [c EXCEPT !.udpSentPackets = P, !.udpPacketsToSendCount = n, !.ev = E]
         IN  Silent(c, d)
<1>. DEFINE d == [c EXCEPT !.udpSentPackets = P, !.udpPacketsToSendCount = n, !.ev = E]
<1>1. Idle(c, d) /\ SameReads(c, d) /\ SameSocket(c, d)
  BY DEF Idle, SameEnd, SameReads, SameSocket, Has, HasFields, Fields
<1>2. Sends(c, d)
  BY DEF Sends, Missing, Queued, HasFields, Fields
<1>3. SameLog(c, d)
  BY DEF SameLog, HasFields, Fields
<1>. QED
  BY <1>1, <1>2, <1>3 DEF Silent, Stays

\* udpWrite of a packet.
LEMMA UdpWritePacketStays ==
  ASSUME NEW c, ConnectionType(c)
  PROVE  Silent(c, udpWritePacket(c))
<1>. DEFINE i == Min(unsent(c))
            P == [c.udpSentPackets EXCEPT ![i].sent = TRUE]
            n == c.udpPacketsToSendCount - 1
            X == c.ev \cup {"UdpResend"}
            wrote == [c EXCEPT !.udpSentPackets = P, !.udpPacketsToSendCount = n, !.ev = X]
            E == {"UdpWrite"}
<1>1. udpWritePacket(c) \in {c, enable(wrote, E), wrote}
  BY DEF udpWritePacket
<1>2. /\ DOMAIN P = DOMAIN c.udpSentPackets
      /\ \A j \in DOMAIN P : /\ P[j].type = c.udpSentPackets[j].type
                             /\ P[j].from = c.udpSentPackets[j].from
                             /\ P[j].to = c.udpSentPackets[j].to
  BY DEF ConnectionType, SentPacket
<1>3. HasFields(c)
  BY TypedHasFields
<1>. HIDE DEF P, n, X, E
<1>4. Silent(c, wrote)
  BY <1>2, <1>3, SentStays
<1>. HIDE DEF wrote
<1>5. Silent(wrote, enable(wrote, E)) /\ Silent(c, c)
  BY <1>3, <1>4, EventsStay, SilentHasFields
<1>. QED
  BY <1>1, <1>4, <1>5, SilentChains

\* udpWrite.
LEMMA UdpWriteStays ==
  ASSUME NEW c, ConnectionType(c)
  PROVE  LET r == udpWrite(c) IN Silent(c, r) \/ Finishes(c, r)
BY TypedHasFields, UdpWriteConfirmationStays, UdpWritePacketStays, EventsStay DEF udpWrite

\* udpResend, which closes UDP when a packet has no resends left.
LEMMA UdpResendStays ==
  ASSUME NEW c, ConnectionType(c), NEW expired
  PROVE  LET r == udpResend(c, expired)
         IN  Silent(c, r) \/ (c.udpConnected /\ Closes(c, r))
<1>. DEFINE dead  == exhausted(c, expired)
            again == {i \in expired : \A j \in dead : i < j}
            waiting == {i \in DOMAIN c.udpSentPackets \ expired : c.udpSentPackets[i].sent}
            p(i)  == c.udpSentPackets[i]
            packets == [i \in DOMAIN c.udpSentPackets |->
                          IF i \in again
                            THEN [p(i) EXCEPT !.sent = FALSE, !.remainResendCount = @ - 1]
                            ELSE p(i)]
            n == c.udpPacketsToSendCount + Cardinality(again)
            X == c.ev \cup (IF again # {} THEN {"UdpWrite"} ELSE {})
                      \cup (IF waiting # {} THEN {"UdpResend"} ELSE {})
            resent == [c EXCEPT !.udpSentPackets = packets,
                                !.udpPacketsToSendCount = n, !.ev = X]
<1>1. /\ ~c.udpConnected => udpResend(c, expired) = c
      /\ udpResend(c, expired) \in {c, udpClose(resent), resent}
  BY DEF udpResend
<1>2. /\ DOMAIN packets = DOMAIN c.udpSentPackets
      /\ \A j \in DOMAIN packets : /\ packets[j].type = c.udpSentPackets[j].type
                                   /\ packets[j].from = c.udpSentPackets[j].from
                                   /\ packets[j].to = c.udpSentPackets[j].to
  BY DEF ConnectionType, SentPacket
<1>3. HasFields(c)
  BY TypedHasFields
<1>. HIDE DEF packets, n, X
<1>4. Silent(c, resent)
  BY <1>2, <1>3, SentStays
<1>6. resent.udpConnected = c.udpConnected
  BY <1>3 DEF HasFields, Fields
<1>. HIDE DEF resent
<1>5. ASSUME c.udpConnected PROVE Closes(c, udpClose(resent))
  BY <1>4, <1>5, <1>6, UdpCloseStays, ClosesChains, SilentHasFields
<1>. QED
  BY <1>1, <1>3, <1>4, <1>5, EventsStay

-----------------------------------------------------------------------------
(* Confirmations.                                                          *)

\* A change of the queue that adds only what is true.
LEMMA QueueStays ==
  ASSUME NEW c, HasFields(c), NEW q \in Seq(Datagram), NEW E,
         \A k \in 1 .. Len(q) : q[k] \in Queued(c) \/ Tells(c, q[k])
  PROVE  Silent(c, [c EXCEPT !.udpConfirmationPackets = q, !.ev = E])
<1>. DEFINE d == [c EXCEPT !.udpConfirmationPackets = q, !.ev = E]
<1>1. Idle(c, d) /\ SameReads(c, d) /\ SameSocket(c, d)
  BY DEF Idle, SameEnd, SameReads, SameSocket, Has, HasFields, Fields
<1>2. SameLog(c, d) /\ d.tcpConnected = c.tcpConnected
  BY DEF SameLog, HasFields, Fields
<1>3. d.udpConfirmationPackets = q /\ d.udpConnected = c.udpConnected
  BY DEF HasFields, Fields
<1>4. Missing(d) = Missing(c)
  BY DEF Missing, HasFields, Fields
<1>. HIDE DEF d
<1>5. Sends(c, d)
  BY <1>3, <1>4 DEF Sends, Queued
<1>6. Silent(c, d)
  BY <1>1, <1>2, <1>5 DEF Silent, Stays
<1>. QED
  BY <1>6 DEF d

\* A queue without one of its elements.
LEMMA RemoveAtElements ==
  ASSUME NEW T, NEW s \in Seq(T), NEW i \in 1 .. Len(s)
  PROVE  \A k \in 1 .. Len(RemoveAt(s, i)) :
           \E j \in 1 .. Len(s) : RemoveAt(s, i)[k] = s[j]
<1>. DEFINE a == SubSeq(s, 1, i - 1)
            b == SubSeq(s, i + 1, Len(s))
<1>1. RemoveAt(s, i) = a \o b
  BY DEF RemoveAt
<1>2. a \in Seq(T) /\ Len(a) = i - 1 /\ \A k \in 1 .. (i - 1) : a[k] = s[k]
  OBVIOUS
<1>3. b \in Seq(T) /\ Len(b) = Len(s) - i /\ \A k \in 1 .. (Len(s) - i) : b[k] = s[k + i]
  OBVIOUS
<1>. HIDE DEF a, b
<1>4. ASSUME NEW k \in 1 .. Len(a \o b) PROVE \E j \in 1 .. Len(s) : (a \o b)[k] = s[j]
  <2>1. CASE k <= i - 1
    BY <1>2, <1>3, <2>1
  <2>2. CASE k > i - 1
    <3>. DEFINE j == k - (i - 1)
    <3>1. (a \o b)[k] = b[j] /\ j \in 1 .. (Len(s) - i)
      BY <1>2, <1>3, <2>2
    <3>2. b[j] = s[j + i] /\ j + i \in 1 .. Len(s)
      BY <1>3, <3>1
    <3>. HIDE DEF j
    <3>. QED
      BY <3>1, <3>2
  <2>. QED
    BY <1>2, <1>3, <2>1, <2>2
<1>. QED
  BY <1>1, <1>4

\* Queued confirmations are erased.
LEMMA DropConfirmationsStays ==
  ASSUME NEW c, HasFields(c)
  PROVE  Silent(c, dropConfirmations(c))
<1>. DEFINE s == c.udpConfirmationPackets
            q == RemoveFirstMatch(s, isConfirmation)
            d == [c EXCEPT !.udpConfirmationPackets = q]
            dropped == onUdpSentBufferChanged(d, DOMAIN c.udpSentPackets)
            I == {k \in 1 .. Len(s) : isConfirmation(s[k])}
<1>0. s \in Seq(Datagram)
  BY DEF HasFields
<1>1. CASE I = {}
  <2>1. dropConfirmations(c) = c
    BY <1>1 DEF dropConfirmations
  <2>. QED
    BY <2>1, SelfStays
<1>2. CASE I # {}
  <2>1. dropConfirmations(c) = dropped
    BY <1>2 DEF dropConfirmations
  <2>2. I \in SUBSET Nat
    OBVIOUS
  <2>. DEFINE i == Min(I)
  <2>3. i \in 1 .. Len(s)
    BY <1>2, <2>2, MinIsLeast
  <2>4. q = RemoveAt(s, i)
    BY <1>2 DEF RemoveFirstMatch, SelectInSeq
  <2>. HIDE DEF i, q
  <2>5. q \in Seq(Datagram) /\ \A k \in 1 .. Len(q) : q[k] \in Queued(c)
    <3>1. q \in Seq(Datagram)
      BY <1>0, <2>3, <2>4, RemoveAtType
    <3>2. \A k \in 1 .. Len(q) : \E j \in 1 .. Len(s) : q[k] = s[j]
      BY <1>0, <2>3, <2>4, RemoveAtElements
    <3>. QED
      BY <3>1, <3>2 DEF Queued
  <2>. DEFINE E == c.ev
  <2>6. d = [c EXCEPT !.udpConfirmationPackets = q, !.ev = E]
    BY DEF HasFields, Fields
  <2>. HIDE DEF E
  <2>7. Silent(c, d)
    BY <2>5, <2>6, QueueStays
  <2>. HIDE DEF d
  <2>8. Silent(d, dropped)
    BY <2>7, BufferChangedStays, SilentHasFields
  <2>. QED
    BY <2>1, <2>7, <2>8, SilentChains
<1>. QED
  BY <1>1, <1>2

\* A confirmation of what has been received is queued.
LEMMA QueueConfirmationStays ==
  ASSUME NEW c, HasFields(c), NEW m \in Datagram, Tells(c, m)
  PROVE  Silent(c, queueConfirmation(c, m))
<1>. DEFINE q == Append(c.udpConfirmationPackets, m)
            E == c.ev \cup {"UdpWrite"}
            d == [c EXCEPT !.udpConfirmationPackets = q, !.ev = E]
<1>1. q \in Seq(Datagram) /\ \A k \in 1 .. Len(q) : q[k] \in Queued(c) \/ q[k] = m
  BY DEF HasFields, Queued
<1>2. queueConfirmation(c, m) = onUdpSentBufferChanged(d, DOMAIN c.udpSentPackets)
  BY DEF queueConfirmation
<1>. HIDE DEF q, E
<1>3. Silent(c, d)
  BY <1>1, QueueStays
<1>. HIDE DEF d
<1>4. HasFields(d)
  BY <1>3, SilentHasFields
<1>. QED
  BY <1>2, <1>3, <1>4, BufferChangedStays, SilentChains

\* buildConfirmations tells what has been received and forgets what TCP has got.
LEMMA BuildConfirmationsStays ==
  ASSUME NEW c, ConnectionType(c), ReceivedKeptIn(c)
  PROVE  Silent(c, buildConfirmations(c))
<1>. DEFINE master == c.udpReceivedMasterIndex
            acks   == {i \in DOMAIN c.udpReceivedPackets : i >= master}
            m      == datagram("Confirmation", master, 0, 0, acks)
            dropped == dropConfirmations(c)
            queued == queueConfirmation(dropped, m)
            remain == c.remainConfirmationResendCount - 1
            kept   == Restrict(c.udpReceivedPackets, receivedToKeep(c))
            R      == Restrict(queued.udpReceivedPackets, receivedToKeep(c))
            built  == [queued EXCEPT !.udpConfirmedMasterIndex = master,
                                     !.udpReceivedPackets = R,
                                     !.remainConfirmationResendCount = remain]
            E      == {"BuildConfirmations"}
<1>0. HasFields(c)
  BY TypedHasFields
<1>1. buildConfirmations(c) \in {c, enable(built, E), built}
  BY DEF buildConfirmations
<1>2. m \in Datagram /\ Tells(c, m)
  <2>1. m \in Datagram
    BY DEF datagram, Datagram, Types, ConnectionType
  <2>2. Tells(c, m)
    BY DEF datagram, Tells, Told, Has, DataTypes, ConnectionType
  <2>. QED
    BY <2>1, <2>2
<1>3. /\ DOMAIN kept \subseteq DOMAIN c.udpReceivedPackets
      /\ \A i \in DOMAIN kept : kept[i] = c.udpReceivedPackets[i]
      /\ \A i \in DOMAIN c.udpReceivedPackets : i >= c.tcpNextSendIndex => i \in DOMAIN kept
  BY DEF Restrict, receivedToKeep
<1>4. \A i \in DOMAIN c.udpReceivedPackets : i < master \/ i \in DOMAIN kept
  BY <1>3 DEF ReceivedKeptIn, ConnectionType
<1>5. /\ queued.udpReceivedPackets = c.udpReceivedPackets
      /\ queued.tcpConnected = c.tcpConnected
      /\ queued.tcpNextSendIndex = c.tcpNextSendIndex
  BY <1>0 DEF queueConfirmation, dropConfirmations, onUdpSentBufferChanged, enable,
              disable, HasFields, Fields
<1>6. R = kept /\ c.tcpNextSendIndex \in Nat
  BY <1>5 DEF ConnectionType
<1>. HIDE DEF m, kept, remain, R, E
<1>7. Silent(c, dropped)
  BY <1>0, DropConfirmationsStays
<1>8. HasFields(dropped) /\ Tells(dropped, m)
  BY <1>2, <1>7, SilentHasFields DEF Silent, Stays, Idle, Tells, Told
<1>. HIDE DEF dropped
<1>9. Silent(dropped, queued)
  BY <1>2, <1>8, QueueConfirmationStays
<1>. HIDE DEF queued
<1>10. Silent(c, queued) /\ HasFields(queued)
  BY <1>7, <1>9, SilentChains, SilentHasFields
<1>11. Silent(queued, built)
  <2>1. queued.udpReceivedMasterIndex = master
    BY <1>10 DEF Silent, Stays, Idle
  <2>2. Idle(queued, built) /\ SameReads(queued, built) /\ SameSocket(queued, built)
    <3>1. Idle(queued, built)
      BY <1>3, <1>4, <1>5, <1>6, <1>10, <2>1 DEF Idle, SameEnd, Has, HasFields, Fields
    <3>2. SameReads(queued, built) /\ SameSocket(queued, built)
      BY <1>3, <1>5, <1>6, <1>10 DEF SameReads, SameSocket, HasFields, Fields
    <3>. QED
      BY <3>1, <3>2
  <2>3. Sends(queued, built) /\ SameLog(queued, built)
    BY <1>10 DEF Sends, Missing, Queued, SameLog, HasFields, Fields
  <2>. QED
    BY <2>2, <2>3 DEF Silent, Stays
<1>. HIDE DEF built, master
<1>12. Silent(c, built) /\ HasFields(built)
  BY <1>10, <1>11, SilentChains, SilentHasFields
<1>13. Silent(c, enable(built, E)) /\ Silent(c, c)
  BY <1>0, <1>12, EventsStay, SilentChains
<1>. QED
  BY <1>1, <1>12, <1>13

\* buildByeBye confirms nothing.
LEMMA BuildByeByeStays ==
  ASSUME NEW c, HasFields(c)
  PROVE  Silent(c, buildByeBye(c))
<1>. DEFINE m      == datagram("ByeBye", c.udpNextSendIndex, 0, 0, {})
            queued == queueConfirmation(c, m)
            remain == c.remainByeByeResendCount - 1
            built  == [queued EXCEPT !.remainByeByeResendCount = remain]
            E      == {"BuildByeBye"}
<1>1. buildByeBye(c) \in {c, enable(built, E), built}
  BY DEF buildByeBye
<1>2. m \in Datagram /\ Tells(c, m)
  BY DEF datagram, Datagram, Types, DataTypes, Tells, Told, isConfirmation, HasFields
<1>. HIDE DEF m, remain, E
<1>3. Silent(c, queued) /\ HasFields(queued)
  BY <1>2, QueueConfirmationStays, SilentHasFields
<1>. HIDE DEF queued
<1>4. Alike(queued, built)
  BY <1>3 DEF Alike, HasFields, Fields
<1>. HIDE DEF built
<1>5. Silent(c, built) /\ HasFields(built)
  BY <1>3, <1>4, AlikeIsSilent, SilentChains, SilentHasFields
<1>6. Silent(c, enable(built, E)) /\ Silent(c, c)
  BY <1>5, EventsStay, SelfStays, SilentChains
<1>. QED
  BY <1>1, <1>5, <1>6

\* A ByeBye concerns the queued confirmations.
LEMMA UdpReadByeByeStays ==
  ASSUME NEW c, HasFields(c), NEW m
  PROVE  Silent(c, udpReadByeBye(c, m))
<1>. DEFINE d == [c EXCEPT !.remainConfirmationResendCount = 0,
                           !.ev = @ \ {"BuildConfirmations"}]
<1>1. Alike(c, d)
  BY DEF Alike, HasFields, Fields
<1>2. udpReadByeBye(c, m) = dropConfirmations(d)
  BY DEF udpReadByeBye
<1>. HIDE DEF d
<1>3. Silent(c, d) /\ HasFields(d)
  BY <1>1, AlikeIsSilent, SilentHasFields
<1>. QED
  BY <1>2, <1>3, DropConfirmationsStays, SilentChains

\* The end of the stream of the TCP host.
LEMMA CloseReadStays ==
  ASSUME NEW c, HasFields(c)
  PROVE  Silent(c, closeRead(c))
<1>1. Alike(c, closeRead(c))
  BY DEF Alike, HasFields, Fields, closeRead
<1>. QED
  BY <1>1, AlikeIsSilent

\* Socket::Group::poll changes the socket only.
LEMMA PolledStays ==
  ASSUME NEW c, HasFields(c), NEW error, NEW readable
  PROVE  LET r == polled(c, error, readable)
         IN  /\ Idle(c, r) /\ SameReads(c, r) /\ Sends(c, r) /\ SameLog(c, r)
             /\ r.tcpConnected = c.tcpConnected
             /\ r.socketError = (c.socketError \/ error)
             /\ ~r.socketWrite
<1>. DEFINE w == [c EXCEPT !.socketWrite = FALSE, !.socketError = @ \/ error]
            r == [w EXCEPT !.socketRead = FALSE]
<1>1. polled(c, error, readable) \in {w, r}
  BY DEF polled, closeWrite, closeRead
<1>2. ASSUME NEW d \in {w, r}
      PROVE  /\ Idle(c, d) /\ SameReads(c, d) /\ Sends(c, d) /\ SameLog(c, d)
             /\ d.tcpConnected = c.tcpConnected
             /\ ~d.socketWrite
  <2>1. Idle(c, w) /\ SameReads(c, w) /\ Idle(c, r) /\ SameReads(c, r)
    BY DEF Idle, SameEnd, SameReads, Has, HasFields, Fields
  <2>2. Sends(c, w) /\ SameLog(c, w) /\ Sends(c, r) /\ SameLog(c, r)
    BY DEF Sends, Missing, Queued, SameLog, HasFields, Fields
  <2>3. w.tcpConnected = c.tcpConnected /\ r.tcpConnected = c.tcpConnected
    BY DEF HasFields, Fields
  <2>4. ~w.socketWrite /\ ~r.socketWrite
    BY DEF HasFields, Fields
  <2>. HIDE DEF w, r
  <2>. QED
    BY <2>1, <2>2, <2>3, <2>4
<1>3. w.socketError = (c.socketError \/ error) /\ r.socketError = (c.socketError \/ error)
  BY DEF HasFields, Fields
<1>. HIDE DEF w, r
<1>. QED
  BY <1>1, <1>2, <1>3

-----------------------------------------------------------------------------
(* The handlers that read no input.                                        *)

\* Connection::handle: an event is raised, which is silent, and then its method
\* runs.
LEMMA HandleStays ==
  ASSUME NEW c, LocalInv(c), NEW e \in LocalEvents \cup {"TcpClose"}
  PROVE  LET r == handle(c, e)
         IN  /\ e \in {"BuildUdpPackets", "TcpClose"} => Stays(c, r)
             /\ e \in {"BuildConfirmations", "BuildByeBye"} => Silent(c, r)
             /\ e \in {"UdpWrite", "UdpCloseWait"} => Silent(c, r) \/ Finishes(c, r)
             /\ e = "UdpClose" => Silent(c, r) \/ (c.udpConnected /\ Closes(c, r))
<1>. DEFINE d == raise(c, e)
            r == handle(c, e)
            T == TRUE
<1>0. HasFields(c) /\ ConnectionType(c)
  BY TypedHasFields DEF LocalInv, Base
<1>1. Base(d) /\ LeftoverIsPartialIn(d) /\ d = [c EXCEPT !.ev = c.ev \ {e}]
  BY RaiseKeeps
<1>2. Silent(c, d) /\ HasFields(d) /\ ConnectionType(d) /\ ReceivedKeptIn(d)
  BY <1>0, <1>1, RaiseStays, TypedHasFields DEF Base
<1>3. /\ e = "TcpClose" => r = tcpClose(d, c.socketError)
      /\ e = "UdpWrite" => r = udpWrite(d)
      /\ e = "UdpClose" => r = udpClose(d)
      /\ e = "BuildUdpPackets" => r = buildUdpPackets(d, T)
      /\ e = "BuildConfirmations" => r = buildConfirmations(d)
      /\ e = "BuildByeBye" => r = buildByeBye(d)
      /\ e = "UdpCloseWait" => r = finish(d)
  BY DEF handle
<1>4. ASSUME NEW x, Finishes(d, x) PROVE Finishes(c, x)
  <2>1. /\ d.udpConnected = c.udpConnected /\ d.tcpConnected = c.tcpConnected
        /\ d.udpReceivedFinalIndex = c.udpReceivedFinalIndex
        /\ d.udpReceivedMasterIndex = c.udpReceivedMasterIndex
        /\ d.tcpNextSendIndex = c.tcpNextSendIndex
        /\ d.tcpReceivedData = c.tcpReceivedData
        /\ d.udpSentPackets = c.udpSentPackets
    BY <1>0, <1>1 DEF HasFields, Fields
  <2>. HIDE DEF d
  <2>2. Closes(c, x)
    BY <1>2, <1>4, ClosesChains DEF Finishes
  <2>. QED
    BY <1>4, <2>1, <2>2 DEF Finishes, isNoMoreDataWillBeSent, finalReceived
<1>. HIDE DEF d, r, T
<1>5. CASE e \in {"BuildUdpPackets", "TcpClose"}
  <2>1. Stays(d, r)
    BY <1>2, <1>3, <1>5, BuildUdpPacketsStays, TcpCloseStays
  <2>2. Stays(c, r)
    BY <1>2, <2>1, StaysChains DEF Silent
  <2>. QED
    BY <1>5, <2>2 DEF r
<1>6. CASE e \in {"BuildConfirmations", "BuildByeBye"}
  <2>1. Silent(d, r)
    BY <1>2, <1>3, <1>6, BuildConfirmationsStays, BuildByeByeStays
  <2>2. Silent(c, r)
    BY <1>2, <2>1, SilentChains
  <2>. QED
    BY <1>6, <2>2 DEF r
<1>7. CASE e \in {"UdpWrite", "UdpCloseWait"}
  <2>1. Silent(d, r) \/ Finishes(d, r)
    <3>1. CASE e = "UdpWrite"
      BY <1>2, <1>3, <3>1, UdpWriteStays
    <3>2. CASE e = "UdpCloseWait"
      BY <1>2, <1>3, <3>2, FinishStays, SelfStays
    <3>. QED
      BY <1>7, <3>1, <3>2
  <2>2. Silent(c, r) \/ Finishes(c, r)
    BY <1>2, <1>4, <2>1, SilentChains
  <2>. QED
    BY <1>7, <2>2 DEF r
<1>8. CASE e = "UdpClose"
  <2>1. Silent(d, r) \/ (d.udpConnected /\ Closes(d, r))
    <3>1. CASE d.udpConnected
      BY <1>2, <1>3, <1>8, <3>1, UdpCloseStays
    <3>2. CASE ~d.udpConnected
      BY <1>2, <1>3, <1>8, <3>2, SelfStays DEF udpClose
    <3>. QED
      BY <3>1, <3>2
  <2>2. Silent(c, r) \/ (c.udpConnected /\ Closes(c, r))
    BY <1>2, <2>1, SilentChains, ClosesChains DEF Silent, Stays, Sends
  <2>. QED
    BY <1>8, <2>2 DEF r
<1>. QED
  BY <1>5, <1>6, <1>7, <1>8 DEF LocalEvents

-----------------------------------------------------------------------------
(* udpRead.                                                                *)

\* A confirmation m is read: the packets it confirms are erased.
Hears(c, d, m) ==
  /\ Idle(c, d) /\ SameReads(c, d) /\ SameSocket(c, d) /\ SameLog(c, d)
  /\ d.udpConnected = c.udpConnected /\ d.tcpConnected = c.tcpConnected
  /\ Missing(d) \subseteq Missing(c) \cup confirmedBy(c, m)
  /\ \A q \in Queued(d) : q \in Queued(c) \/ Tells(c, q)

\* Something silent follows.
LEMMA HearsChain ==
  ASSUME NEW c, NEW d, NEW e, NEW m, Hears(c, d, m), Silent(d, e)
  PROVE  Hears(c, e, m)
<1>1. \A q \in Queued(e) : q \in Queued(c) \/ Tells(c, q)
  BY TellsChains DEF Hears, Silent, Stays, Sends
<1>. QED
  BY <1>1, IdleChains, ReadsChain, SocketChains, LogChains
  DEF Hears, Silent, Stays, Sends

\* Confirmed packets are erased.
LEMMA ErasedStays ==
  ASSUME NEW c, HasFields(c), NEW m, NEW n
  PROVE  Hears(c, [c EXCEPT !.udpSentPackets =
                     Restrict(@, DOMAIN c.udpSentPackets \ confirmedBy(c, m)),
                     !.udpPacketsToSendCount = n], m)
<1>. DEFINE left == DOMAIN c.udpSentPackets \ confirmedBy(c, m)
            P == Restrict(c.udpSentPackets, left)
            d == [c EXCEPT !.udpSentPackets = P, !.udpPacketsToSendCount = n]
<1>1. DOMAIN P = left /\ \A i \in left : P[i] = c.udpSentPackets[i]
  BY DEF Restrict
<1>. HIDE DEF P
<1>2. Idle(c, d) /\ SameReads(c, d) /\ SameSocket(c, d)
  BY DEF Idle, SameEnd, SameReads, SameSocket, Has, HasFields, Fields
<1>3. SameLog(c, d) /\ d.tcpConnected = c.tcpConnected
  BY <1>1 DEF SameLog, HasFields, Fields
<1>4. /\ d.udpConnected = c.udpConnected /\ d.udpNextSendIndex = c.udpNextSendIndex
      /\ d.udpSentPackets = P /\ Queued(d) = Queued(c)
  BY DEF Queued, HasFields, Fields
<1>. HIDE DEF d
<1>5. Missing(d) \subseteq Missing(c) \cup confirmedBy(c, m)
  BY <1>1, <1>4 DEF Missing, confirmedBy
<1>6. Hears(c, d, m)
  BY <1>2, <1>3, <1>4, <1>5 DEF Hears
<1>. QED
  BY <1>6 DEF d, P

\* udpRead of a Confirmation.
LEMMA UdpReadConfirmationHears ==
  ASSUME NEW c, HasFields(c), NEW m
  PROVE  Hears(c, udpReadConfirmation(c, m), m)
<1>. DEFINE gone == confirmedBy(c, m)
            left == DOMAIN c.udpSentPackets \ gone
            n == c.udpPacketsToSendCount - Cardinality(unsentAmong(c, gone))
            erased == [c EXCEPT !.udpSentPackets = Restrict(@, left),
                                !.udpPacketsToSendCount = n]
            X == left \cup {Max(gone)}
            changed == onUdpSentBufferChanged(erased, X)
            counted == IF gone = {} THEN erased ELSE changed
            E == {"UdpResend"}
            disabled == disable(counted, E)
            quiet == IF counted.udpPacketsToSendCount >= Cardinality(left)
                       THEN disabled ELSE counted
            r == [quiet EXCEPT !.remainByeByeResendCount = confirmationResendCount,
                               !.ev = @ \cup {"BuildByeBye"}]
<1>1. udpReadConfirmation(c, m) \in {r, quiet}
  BY DEF udpReadConfirmation
<1>. HIDE DEF n, X, E
<1>2. Hears(c, erased, m)
  BY ErasedStays
<1>. HIDE DEF erased
<1>3. HasFields(erased)
  BY <1>2 DEF Hears, Idle
<1>4. Silent(erased, counted) /\ HasFields(counted)
  BY <1>3, BufferChangedStays, SelfStays, SilentHasFields
<1>. HIDE DEF counted
<1>5. Silent(counted, quiet) /\ HasFields(quiet)
  BY <1>4, EventsStay, SelfStays, SilentHasFields
<1>. HIDE DEF quiet
<1>6. Silent(quiet, r)
  <2>1. Alike(quiet, r)
    BY <1>5 DEF Alike, HasFields, Fields
  <2>. HIDE DEF r
  <2>. QED
    BY <1>5, <2>1, AlikeIsSilent
<1>. HIDE DEF r
<1>7. Hears(c, quiet, m) /\ Hears(c, r, m)
  BY <1>2, <1>4, <1>5, <1>6, HearsChain
<1>. QED
  BY <1>1, <1>7

\* A new packet m is stored, and the master index advances over what is there.
Stores(c, d, m) ==
  LET R == c.udpReceivedPackets
  IN  /\ HasFields(d)
      /\ acceptable(c, m) /\ ~finalReceived(c) /\ m.index \notin DOMAIN R
      /\ d.tcpConnected = c.tcpConnected /\ d.udpConnected = c.udpConnected
      /\ d.udpNextSendIndex = c.udpNextSendIndex
      /\ d.tcpReceivedData = c.tcpReceivedData
      /\ d.udpSentPackets = c.udpSentPackets
      /\ d.udpConfirmationPackets = c.udpConfirmationPackets
      /\ d.tcpWritten = c.tcpWritten
      /\ d.socketError = c.socketError /\ d.socketWrite = c.socketWrite
      /\ d.tcpConnected => d.tcpNextSendIndex = c.tcpNextSendIndex
      /\ DOMAIN d.udpReceivedPackets = DOMAIN R \cup {m.index}
      /\ \A i \in DOMAIN R : d.udpReceivedPackets[i] = R[i]
      /\ d.udpReceivedPackets[m.index] = [type |-> m.type, from |-> m.from, to |-> m.to]
      /\ c.udpReceivedMasterIndex <= d.udpReceivedMasterIndex
      /\ d.udpReceivedMasterIndex \in Nat
      /\ c.udpReceivedMasterIndex .. (d.udpReceivedMasterIndex - 1)
           \subseteq DOMAIN d.udpReceivedPackets
      /\ FinalIsMasterIn(d)
      /\ d.udpReceivedFinalIndex # c.udpReceivedFinalIndex =>
           /\ d.udpReceivedMasterIndex > c.udpReceivedMasterIndex
           /\ d.udpReceivedPackets[d.udpReceivedMasterIndex - 1].type \in FinalTypes

\* Something that touches neither the packets nor the connection follows.
LEMMA StoresChain ==
  ASSUME NEW c, NEW d, NEW m, Stores(c, d, m), NEW e, Alike(d, e)
  PROVE  Stores(c, e, m)
<1>1. HasFields(e)
  BY DEF Stores, Alike, HasFields
<1>. QED
  BY <1>1 DEF Stores, Alike, FinalIsMasterIn

\* udpRead of a packet that is not there yet.
LEMMA StorePacketStores ==
  ASSUME NEW c, ConnectionType(c), ReceivedKeptIn(c), FinalIsMasterIn(c),
         NEW m \in Datagram, acceptable(c, m), m.index \notin DOMAIN c.udpReceivedPackets
  PROVE  Stores(c, storePacket(c, m), m)
<1>. DEFINE D == c.udpReceivedPackets
            q == [type |-> m.type, from |-> m.from, to |-> m.to]
            R == [i \in DOMAIN D \cup {m.index} |-> IF i = m.index THEN q ELSE D[i]]
            N == nextMaster(c, R)
            F == IF N > c.udpReceivedMasterIndex /\ R[N - 1].type \in FinalTypes
                   THEN N ELSE c.udpReceivedFinalIndex
            moved == [c EXCEPT !.udpReceivedPackets = R,
                               !.udpReceivedMasterIndex = N,
                               !.udpReceivedFinalIndex = F]
            faked == [moved EXCEPT !.tcpNextSendIndex = N]
            stored == tcpWriteFake(moved)
            E == (IF stored.tcpNextSendIndex < N THEN {"TcpWrite"} ELSE {})
                 \cup (IF N >= F THEN {"UdpCloseWait"} ELSE {})
<1>0. HasFields(c)
  BY TypedHasFields
<1>1. storePacket(c, m) = enable(stored, E)
  BY DEF storePacket
<1>2. /\ m.index \in Nat /\ m.index >= c.udpReceivedMasterIndex
      /\ m.index - c.tcpNextSendIndex <= ReceiveWindow
      /\ m.index < c.udpReceivedFinalIndex
  BY DEF acceptable, Datagram
<1>3. /\ DOMAIN D \subseteq 0 .. (c.tcpNextSendIndex + ReceiveWindow)
      /\ c.tcpNextSendIndex \in Nat /\ c.udpReceivedMasterIndex \in Nat
      /\ c.udpReceivedFinalIndex \in Nat
  BY DEF ConnectionType
<1>4. ~finalReceived(c)
  BY <1>2, <1>3 DEF finalReceived
<1>. HIDE DEF q, D
<1>5. /\ DOMAIN R = DOMAIN D \cup {m.index} /\ R[m.index] = q
      /\ (m.index \notin DOMAIN D => \A i \in DOMAIN D : R[i] = D[i])
  OBVIOUS
<1>. HIDE DEF R
<1>6. /\ DOMAIN R \subseteq 0 .. (c.tcpNextSendIndex + ReceiveWindow)
      /\ c.udpReceivedMasterIndex <= c.tcpNextSendIndex + ReceiveWindow
  BY <1>2, <1>3, <1>5, ReceiveWindowAssumption
<1>7. /\ N \in Nat /\ c.udpReceivedMasterIndex <= N
      /\ c.udpReceivedMasterIndex .. (N - 1) \subseteq DOMAIN R
  BY <1>6, NextMasterFacts DEF ReceivedKeptIn
<1>. HIDE DEF N
<1>8. /\ F \in {INT_MAX, N}
      /\ F # c.udpReceivedFinalIndex =>
           N > c.udpReceivedMasterIndex /\ R[N - 1].type \in FinalTypes
  BY <1>4 DEF FinalIsMasterIn, finalReceived
<1>. HIDE DEF F, E
<1>9. moved.tcpConnected = c.tcpConnected /\ HasFields(moved)
      /\ moved.udpReceivedMasterIndex = N
  BY <1>0 DEF HasFields, Fields
<1>10. stored = IF c.tcpConnected THEN moved ELSE faked
  BY <1>9 DEF tcpWriteFake
<1>11. /\ stored.tcpConnected = c.tcpConnected /\ stored.udpConnected = c.udpConnected
       /\ stored.udpNextSendIndex = c.udpNextSendIndex
       /\ stored.tcpReceivedData = c.tcpReceivedData
       /\ stored.udpSentPackets = c.udpSentPackets
       /\ stored.udpConfirmationPackets = c.udpConfirmationPackets
       /\ stored.tcpWritten = c.tcpWritten
       /\ stored.socketError = c.socketError /\ stored.socketWrite = c.socketWrite
  BY <1>0, <1>10 DEF HasFields, Fields
<1>12. /\ stored.tcpConnected => stored.tcpNextSendIndex = c.tcpNextSendIndex
       /\ stored.udpReceivedPackets = R
       /\ stored.udpReceivedMasterIndex = N
       /\ stored.udpReceivedFinalIndex = F
       /\ HasFields(stored)
  BY <1>0, <1>10, <1>11 DEF HasFields, Fields
<1>. HIDE DEF stored
<1>13. Stores(c, stored, m)
  BY <1>4, <1>5, <1>7, <1>8, <1>11, <1>12 DEF Stores, FinalIsMasterIn, D, q
<1>14. Alike(stored, enable(stored, E))
  BY <1>12 DEF Alike, enable, HasFields, Fields
<1>. QED
  BY <1>1, <1>13, <1>14, StoresChain

\* udpRead of a Hello, a Bye, a Disconnect or Data that is accepted.
LEMMA UdpReadDataStores ==
  ASSUME NEW c, ConnectionType(c), ReceivedKeptIn(c), FinalIsMasterIn(c),
         NEW m \in Datagram, acceptable(c, m)
  PROVE  LET r == udpReadData(c, m)
         IN  ~finalReceived(c) /\ (Silent(c, r) \/ Stores(c, r, m))
<1>. DEFINE stored == IF m.index \in DOMAIN c.udpReceivedPackets THEN c ELSE storePacket(c, m)
            r == [stored EXCEPT !.remainConfirmationResendCount = confirmationResendCount,
                                !.ev = @ \cup {"BuildConfirmations"}]
<1>0. HasFields(c)
  BY TypedHasFields
<1>1. udpReadData(c, m) = r
  BY DEF udpReadData
<1>2. ~finalReceived(c)
  BY DEF acceptable, finalReceived, ConnectionType, Datagram
<1>3. (stored = c /\ Silent(c, c)) \/ Stores(c, stored, m)
  BY <1>0, SelfStays, StorePacketStores
<1>. HIDE DEF stored
<1>4. HasFields(stored)
  BY <1>0, <1>3 DEF Stores
<1>5. Alike(stored, r)
  BY <1>4 DEF Alike, HasFields, Fields
<1>. HIDE DEF r
<1>6. Silent(c, r) \/ Stores(c, r, m)
  BY <1>0, <1>3, <1>5, AlikeIsSilent, StoresChain
<1>. QED
  BY <1>1, <1>2, <1>6

\* The branches of udpRead: a datagram changes the connection to d, and then
\* the check of isUdpFinished may close UDP.
LEMMA UdpReadReads ==
  ASSUME NEW c, LocalInv(c), FinalIsMasterIn(c), NEW m \in Datagram
  PROVE  \E d : /\ HasFields(d)
                /\ \/ Silent(c, d)
                   \/ c.udpConnected /\ isConfirmation(m) /\ Hears(c, d, m)
                   \/ c.udpConnected /\ Stores(c, d, m)
                /\ udpRead(c, m) = d \/ Finishes(d, udpRead(c, m))
<1>. DEFINE d == IF m.type = "Confirmation" THEN udpReadConfirmation(c, m)
                 ELSE IF acceptable(c, m) THEN udpReadData(c, m)
                 ELSE IF m.type = "ByeBye" /\ m.index = c.udpReceivedMasterIndex
                         /\ finalReceived(c)
                   THEN udpReadByeBye(c, m)
                 ELSE c
<1>0. HasFields(c) /\ ConnectionType(c) /\ ReceivedKeptIn(c)
  BY TypedHasFields DEF LocalInv, Base
<1>1. CASE ~c.udpConnected
  BY <1>0, <1>1, SelfStays DEF udpRead
<1>2. CASE c.udpConnected
  <2>1. udpRead(c, m) = finish(d)
    BY <1>2 DEF udpRead
  <2>2. \/ Silent(c, d)
        \/ c.udpConnected /\ isConfirmation(m) /\ Hears(c, d, m)
        \/ c.udpConnected /\ Stores(c, d, m)
    BY <1>0, <1>2, SelfStays, UdpReadConfirmationHears, UdpReadDataStores, UdpReadByeByeStays
    DEF isConfirmation
  <2>. HIDE DEF d
  <2>3. HasFields(d)
    BY <2>2 DEF Silent, Stays, Hears, Stores, Idle
  <2>. QED
    BY <2>1, <2>2, <2>3, FinishStays
<1>. QED
  BY <1>1, <1>2

\* udpRead keeps the final index in its place, and once it is known nothing is
\* received.
LEMMA UdpReadFinal ==
  ASSUME NEW c, LocalInv(c), FinalIsMasterIn(c), NEW m \in Datagram
  PROVE  /\ FinalIsMasterIn(udpRead(c, m))
         /\ finalReceived(c) => Idle(c, udpRead(c, m))
<1>. DEFINE r == udpRead(c, m)
<1>1. PICK d : /\ HasFields(d)
               /\ \/ Silent(c, d)
                  \/ c.udpConnected /\ isConfirmation(m) /\ Hears(c, d, m)
                  \/ c.udpConnected /\ Stores(c, d, m)
               /\ r = d \/ Finishes(d, r)
  BY UdpReadReads
<1>. HIDE DEF r
<1>2. FinalIsMasterIn(d) /\ (finalReceived(c) => Idle(c, d))
  BY <1>1 DEF Silent, Stays, Hears, Idle, Stores, FinalIsMasterIn
<1>3. r = d \/ Idle(d, r)
  BY <1>1 DEF Finishes, Closes
<1>4. FinalIsMasterIn(r) /\ (finalReceived(c) => Idle(c, r))
  BY <1>2, <1>3, IdleChains DEF Idle, FinalIsMasterIn
<1>. QED
  BY <1>4 DEF r

-----------------------------------------------------------------------------
(* The packets that an end has queued so far, as a function P of their      *)
(* indices: the stream of its TCP host, which starts at byte b, cut in      *)
(* pieces.                                                                  *)

\* The byte behind packet i.
endOf(P, b, i) == IF i = 0 THEN b ELSE P[i].to

SamePacket(p, q) == p.type = q.type /\ p.from = q.from /\ p.to = q.to

Hello == [type |-> "Hello", from |-> 0, to |-> 0]

PacketLog(c, P, b) ==
  LET n == c.udpNextSendIndex
      d == c.tcpReceivedData
  IN  /\ n \in Nat \ {0} /\ d \in Chunk /\ b \in Nat
      /\ P \in [0 .. (n - 1) -> ReceivedPacket]
      /\ P[0] = Hello
      /\ \A i \in DOMAIN c.udpSentPackets :
           i \in 0 .. (n - 1) /\ SamePacket(c.udpSentPackets[i], P[i])
      /\ b <= d.from /\ d.from <= d.to
      /\ \A i \in 1 .. (n - 1) :
           /\ P[i].type # "Hello"
           /\ P[i].from <= P[i].to /\ P[i].to <= d.to
           /\ P[i].type = "Data" => P[i].from < P[i].to
           /\ P[i].type \in FinalTypes =>
                i = n - 1 /\ ~c.tcpConnected /\ P[i].from = d.to
      /\ ~finalReceived(c) =>
           /\ \A i \in 1 .. (n - 1) : P[i].from = endOf(P, b, i - 1)
           /\ c.udpConnected => endOf(P, b, n - 1) = d.from
      /\ n + b <= d.from + (IF P[n - 1].type \in FinalTypes THEN 2 ELSE 1)

\* An end that is closed on one side has no byte waiting.
NothingWaits(c) ==
  ~c.tcpConnected \/ ~c.udpConnected => c.tcpReceivedData.from = c.tcpReceivedData.to

Logged(c, P, b) == PacketLog(c, P, b) /\ NothingWaits(c)

Extends(P, Q) == DOMAIN P \subseteq DOMAIN Q /\ \A i \in DOMAIN P : Q[i] = P[i]

\* A method that queues nothing keeps the log.
LEMMA SameLogKeeps ==
  ASSUME NEW c, NEW P, NEW b, NEW d, SameLog(c, d), HasFields(d),
         d.tcpReceivedData \in Chunk, finalReceived(c) => finalReceived(d)
  PROVE  /\ PacketLog(c, P, b) => PacketLog(d, P, b)
         /\ Logged(c, P, b) => Logged(d, P, b)
<1>1. ASSUME PacketLog(c, P, b) PROVE PacketLog(d, P, b)
  BY <1>1 DEF PacketLog, SameLog, SamePacket, Chunk
<1>2. NothingWaits(c) => NothingWaits(d)
  BY DEF NothingWaits, SameLog
<1>. QED
  BY <1>1, <1>2 DEF Logged

\* One more packet, of type t with the bytes from, ..., to-1.
LEMMA LogGrows ==
  ASSUME NEW c, NEW P, NEW b, PacketLog(c, P, b), NEW d,
         NEW t \in {"Data", "Bye", "Disconnect"}, NEW from \in Nat, NEW to \in Nat,
         P[c.udpNextSendIndex - 1].type \notin FinalTypes,
         d.udpNextSendIndex = c.udpNextSendIndex + 1,
         \A i \in DOMAIN d.udpSentPackets :
           \/ /\ i = c.udpNextSendIndex
              /\ SamePacket(d.udpSentPackets[i], [type |-> t, from |-> from, to |-> to])
           \/ /\ i \in DOMAIN c.udpSentPackets
              /\ SamePacket(d.udpSentPackets[i], c.udpSentPackets[i]),
         c.udpConnected, d.tcpConnected = c.tcpConnected,
         finalReceived(c) => finalReceived(d),
         d.tcpReceivedData \in Chunk,
         d.tcpReceivedData.to = c.tcpReceivedData.to,
         d.tcpReceivedData.from <= d.tcpReceivedData.to,
         from <= to, to <= d.tcpReceivedData.to,
         t = "Data" => from < to,
         ~finalReceived(c) => from = c.tcpReceivedData.from /\ to = d.tcpReceivedData.from,
         c.tcpReceivedData.from <= d.tcpReceivedData.from,
         t = "Data" => c.tcpReceivedData.from < d.tcpReceivedData.from,
         t # "Data" => ~c.tcpConnected /\ from = d.tcpReceivedData.to
  PROVE  \E Q : /\ PacketLog(d, Q, b) /\ Extends(P, Q)
                /\ Q[d.udpNextSendIndex - 1] = [type |-> t, from |-> from, to |-> to]
<1>. DEFINE n == c.udpNextSendIndex
            q == [type |-> t, from |-> from, to |-> to]
            Q == [i \in 0 .. n |-> IF i = n THEN q ELSE P[i]]
<1>1. n \in Nat \ {0} /\ P \in [0 .. (n - 1) -> ReceivedPacket]
  BY DEF PacketLog
<1>2. q \in ReceivedPacket /\ q.type = t /\ q.from = from /\ q.to = to
      /\ t \in DataTypes /\ t # "Hello" /\ (t \in FinalTypes <=> t # "Data")
  BY DEF ReceivedPacket, DataTypes, FinalTypes
<1>. HIDE DEF q
<1>3. /\ Q \in [0 .. n -> ReceivedPacket] /\ Q[n] = q
      /\ \A i \in 0 .. (n - 1) : Q[i] = P[i]
  BY <1>1, <1>2
<1>. HIDE DEF Q
<1>4. Extends(P, Q)
  BY <1>1, <1>3 DEF Extends
<1>5. PacketLog(d, Q, b)
  <2>1. /\ d.udpNextSendIndex = n + 1 /\ n + 1 \in Nat \ {0} /\ (n + 1) - 1 = n
        /\ d.tcpReceivedData \in Chunk /\ b \in Nat
        /\ Q \in [0 .. ((n + 1) - 1) -> ReceivedPacket] /\ Q[0] = Hello
    BY <1>1, <1>3 DEF PacketLog
  <2>2. \A i \in DOMAIN d.udpSentPackets :
          i \in 0 .. n /\ SamePacket(d.udpSentPackets[i], Q[i])
    BY <1>1, <1>2, <1>3 DEF PacketLog, SamePacket, q
  <2>3. /\ b <= d.tcpReceivedData.from
        /\ d.tcpReceivedData.from <= d.tcpReceivedData.to
    BY DEF PacketLog, Chunk
  <2>4. \A i \in 1 .. n :
           /\ Q[i].type # "Hello"
           /\ Q[i].from <= Q[i].to /\ Q[i].to <= d.tcpReceivedData.to
           /\ Q[i].type = "Data" => Q[i].from < Q[i].to
           /\ Q[i].type \in FinalTypes =>
                i = n /\ ~d.tcpConnected /\ Q[i].from = d.tcpReceivedData.to
    BY <1>1, <1>2, <1>3 DEF PacketLog
  <2>5. ASSUME ~finalReceived(d)
        PROVE  /\ \A i \in 1 .. n : Q[i].from = endOf(Q, b, i - 1)
               /\ d.udpConnected => endOf(Q, b, n) = d.tcpReceivedData.from
    <3>1. ~finalReceived(c)
      BY <2>5
    <3>2. ASSUME NEW i \in 1 .. (n - 1) PROVE Q[i].from = endOf(Q, b, i - 1)
      <4>1. P[i].from = endOf(P, b, i - 1)
        BY <3>1, <3>2 DEF PacketLog
      <4>2. i \in 0 .. (n - 1) /\ i - 1 \in 0 .. (n - 1)
        BY <1>1
      <4>3. Q[i] = P[i] /\ Q[i - 1] = P[i - 1]
        BY <1>3, <4>2
      <4>. QED
        BY <4>1, <4>3 DEF endOf
    <3>3. Q[n].from = endOf(Q, b, n - 1)
      BY <1>1, <1>2, <1>3, <3>1 DEF PacketLog, endOf
    <3>4. endOf(Q, b, n) = d.tcpReceivedData.from
      BY <1>1, <1>2, <1>3, <3>1 DEF endOf
    <3>. QED
      BY <1>1, <3>2, <3>3, <3>4
  <2>6. n + 1 + b <= d.tcpReceivedData.from + (IF Q[n].type \in FinalTypes THEN 2 ELSE 1)
    <3>. DEFINE x == c.tcpReceivedData.from
                y == d.tcpReceivedData.from
    <3>1. n + b <= x + 1 /\ x <= y /\ (t = "Data" => x < y)
      BY DEF PacketLog
    <3>2. x \in Int /\ y \in Int /\ b \in Int /\ n \in Int
      BY <1>1 DEF PacketLog, Chunk
    <3>. HIDE DEF x, y, n
    <3>3. /\ n + 1 + b <= y + 2
          /\ t = "Data" => n + 1 + b <= y + 1
      BY <3>1, <3>2
    <3>4. (IF Q[n].type \in FinalTypes THEN 2 ELSE 1) = IF t = "Data" THEN 1 ELSE 2
      BY <1>2, <1>3
    <3>5. n + 1 + b <= y + (IF t = "Data" THEN 1 ELSE 2)
      BY <3>3
    <3>. QED
      BY <3>4, <3>5 DEF y
  <2>. QED
    BY <2>1, <2>2, <2>3, <2>4, <2>5, <2>6 DEF PacketLog
<1>6. Q[d.udpNextSendIndex - 1] = q
  BY <1>1, <1>3
<1>. QED
  BY <1>4, <1>5, <1>6 DEF q

\* addPacket queues one packet.
LEMMA AddPacketAdds ==
  ASSUME NEW c, HasFields(c), NEW t, NEW from, NEW to
  PROVE  LET d == addPacket(c, t, from, to)
         IN  /\ d.udpNextSendIndex = c.udpNextSendIndex + 1
             /\ \A i \in DOMAIN d.udpSentPackets :
                  \/ /\ i = c.udpNextSendIndex
                     /\ SamePacket(d.udpSentPackets[i], [type |-> t, from |-> from, to |-> to])
                  \/ /\ i \in DOMAIN c.udpSentPackets
                     /\ SamePacket(d.udpSentPackets[i], c.udpSentPackets[i])
             /\ d.tcpReceivedData = c.tcpReceivedData
             /\ d.tcpConnected = c.tcpConnected /\ d.udpConnected = c.udpConnected
             /\ finalReceived(d) <=> finalReceived(c)
<1>. DEFINE n == c.udpNextSendIndex
            p == [type |-> t, from |-> from, to |-> to,
                  sent |-> FALSE, remainResendCount |-> udpResendCount]
            packets == [i \in DOMAIN c.udpSentPackets \cup {n} |->
                          IF i = n THEN p ELSE c.udpSentPackets[i]]
            next == n + 1
            e == [c EXCEPT !.udpSentPackets = packets,
                           !.udpNextSendIndex = next,
                           !.udpPacketsToSendCount = @ + 1,
                           !.ev = @ \cup {"UdpWrite"}]
            d == addPacket(c, t, from, to)
<1>1. d = onUdpSentBufferChanged(e, DOMAIN packets)
  BY DEF addPacket
<1>2. \A i \in DOMAIN packets :
         \/ i = n /\ SamePacket(packets[i], [type |-> t, from |-> from, to |-> to])
         \/ i \in DOMAIN c.udpSentPackets /\ SamePacket(packets[i], c.udpSentPackets[i])
  BY DEF SamePacket
<1>. HIDE DEF packets, next, d
<1>3. /\ HasFields(e)
      /\ e.udpNextSendIndex = next /\ e.udpSentPackets = packets
      /\ e.tcpReceivedData = c.tcpReceivedData
      /\ e.tcpConnected = c.tcpConnected /\ e.udpConnected = c.udpConnected
      /\ e.udpReceivedFinalIndex = c.udpReceivedFinalIndex
      /\ e.udpReceivedMasterIndex = c.udpReceivedMasterIndex
  <2>1. next \in Nat
    BY DEF next, HasFields
  <2>. QED
    BY <2>1 DEF HasFields, Fields
<1>. HIDE DEF e
<1>4. /\ d.udpNextSendIndex = next /\ d.udpSentPackets = packets
      /\ d.tcpReceivedData = c.tcpReceivedData
      /\ d.tcpConnected = c.tcpConnected /\ d.udpConnected = c.udpConnected
      /\ d.udpReceivedFinalIndex = c.udpReceivedFinalIndex
      /\ d.udpReceivedMasterIndex = c.udpReceivedMasterIndex
  BY <1>1, <1>3 DEF onUdpSentBufferChanged, enable, disable, HasFields, Fields
<1>. QED
  BY <1>2, <1>4 DEF d, next, finalReceived

\* buildUdpPackets cuts the next packet off what waits, and on flush everything.
LEMMA BuildUdpPacketsLogs ==
  ASSUME NEW c, HasFields(c), NEW P, NEW b, PacketLog(c, P, b), NEW flush,
         P[c.udpNextSendIndex - 1].type \in FinalTypes
           => c.tcpReceivedData.from = c.tcpReceivedData.to
  PROVE  LET r == buildUdpPackets(c, flush)
         IN  /\ \E Q : /\ PacketLog(r, Q, b) /\ Extends(P, Q)
                       /\ P[c.udpNextSendIndex - 1].type \notin FinalTypes
                            => Q[r.udpNextSendIndex - 1].type \notin FinalTypes
             /\ r.tcpConnected = c.tcpConnected /\ r.udpConnected = c.udpConnected
             /\ r.tcpReceivedData.to = c.tcpReceivedData.to
             /\ c.tcpReceivedData.from = c.tcpReceivedData.to
                  => r.tcpReceivedData.from = r.tcpReceivedData.to
             /\ /\ flush = TRUE /\ c.udpConnected
                /\ c.tcpReceivedData.to - c.tcpReceivedData.from < udpSendPacketSize
                => r.tcpReceivedData.from = r.tcpReceivedData.to
<1>. DEFINE w    == c.tcpReceivedData
            from == IF finalReceived(c) THEN w.to ELSE w.from
            n    == packetBytes(w.to - from, flush)
            rest == [from |-> from + n, to |-> w.to]
            cut  == [c EXCEPT !.tcpReceivedData = rest]
            T    == "Data"
            queued == addPacket(cut, T, from, from + n)
            built == IF n > 0 THEN queued ELSE cut
            E    == {"BuildUdpPackets"}
            r    == buildUdpPackets(c, flush)
            next == c.udpNextSendIndex
<1>1. /\ ~c.udpConnected => r = c
      /\ c.udpConnected => r \in {disable(built, E), enable(built, E)}
  BY DEF buildUdpPackets
<1>. HIDE DEF r
<1>2. w \in Chunk /\ w.from <= w.to /\ w.from \in Nat /\ w.to \in Nat
  BY DEF PacketLog, Chunk
<1>3. from \in Nat /\ from <= w.to /\ w.from <= from
      /\ (~finalReceived(c) => from = w.from)
  BY <1>2
<1>4. /\ n \in Nat /\ from + n <= w.to
      /\ w.from = w.to => n = 0 /\ from = w.to
      /\ flush = TRUE /\ w.to - w.from < udpSendPacketSize => from + n = w.to
  <2>1. w.to - from \in Nat
    BY <1>2, <1>3
  <2>. HIDE DEF from, w
  <2>. QED
    BY <1>2, <1>3, <2>1, PacketSizeAssumption DEF packetBytes
<1>. HIDE DEF n, from
<1>5. rest \in Chunk /\ rest.from = from + n /\ rest.to = w.to
  BY <1>2, <1>3, <1>4 DEF Chunk
<1>. HIDE DEF rest
<1>6. /\ HasFields(cut)
      /\ cut.tcpReceivedData = rest
      /\ cut.udpNextSendIndex = next /\ cut.udpSentPackets = c.udpSentPackets
      /\ cut.tcpConnected = c.tcpConnected /\ cut.udpConnected = c.udpConnected
      /\ finalReceived(cut) <=> finalReceived(c)
  BY DEF HasFields, Fields, finalReceived
<1>. HIDE DEF cut, T
<1>7. ASSUME c.udpConnected
      PROVE  /\ \E Q : /\ PacketLog(built, Q, b) /\ Extends(P, Q)
                       /\ P[next - 1].type \notin FinalTypes
                            => Q[built.udpNextSendIndex - 1].type \notin FinalTypes
             /\ built.tcpConnected = c.tcpConnected /\ built.udpConnected = c.udpConnected
             /\ built.tcpReceivedData = rest
             /\ HasFields(built)
  <2>1. CASE n > 0
    <3>1. built = queued
      BY <2>1
    <3>2. P[next - 1].type \notin FinalTypes
      BY <1>4, <2>1
    <3>3. /\ queued.udpNextSendIndex = next + 1
          /\ \A i \in DOMAIN queued.udpSentPackets :
               \/ /\ i = next
                  /\ SamePacket(queued.udpSentPackets[i],
                                [type |-> T, from |-> from, to |-> from + n])
               \/ /\ i \in DOMAIN c.udpSentPackets
                  /\ SamePacket(queued.udpSentPackets[i], c.udpSentPackets[i])
          /\ queued.tcpReceivedData = rest
          /\ queued.tcpConnected = c.tcpConnected /\ queued.udpConnected = c.udpConnected
          /\ finalReceived(queued) <=> finalReceived(c)
      BY <1>6, AddPacketAdds
    <3>4. Stays(cut, queued)
      BY <1>6, AddPacketStays
    <3>5. HasFields(queued)
      BY <3>4 DEF Stays, Idle
    <3>. DEFINE to == from + n
    <3>6. to \in Nat /\ from < to /\ T \in {"Data", "Bye", "Disconnect"} /\ T = "Data"
          /\ rest.from = to /\ to <= rest.to /\ w.from <= rest.from /\ w.from < rest.from
      BY <1>2, <1>3, <1>4, <1>5, <2>1 DEF T
    <3>. HIDE DEF to, queued
    <3>7. PICK Q : /\ PacketLog(queued, Q, b) /\ Extends(P, Q)
                   /\ Q[queued.udpNextSendIndex - 1] = [type |-> T, from |-> from, to |-> to]
      BY <1>2, <1>3, <1>5, <1>7, <3>2, <3>3, <3>6, LogGrows DEF to
    <3>8. Q[queued.udpNextSendIndex - 1].type \notin FinalTypes
      BY <3>6, <3>7 DEF FinalTypes
    <3>. QED
      BY <3>1, <3>3, <3>5, <3>7, <3>8
  <2>2. CASE ~(n > 0)
    <3>1. built = cut /\ n = 0
      BY <1>4, <2>2
    <3>2. PacketLog(cut, P, b)
      <4>1. rest.from = from /\ from \in Nat
        BY <1>3, <1>5, <3>1
      <4>2. w.from <= rest.from /\ rest.from <= rest.to /\ rest.to = w.to
        BY <1>3, <1>5, <4>1
      <4>3. b \in Nat /\ b <= rest.from /\ next \in Nat /\ next + b <= rest.from + 2
            /\ (P[next - 1].type \notin FinalTypes => next + b <= rest.from + 1)
        <5>1. /\ b \in Nat /\ next \in Nat /\ b <= w.from
              /\ next + b <= w.from + (IF P[next - 1].type \in FinalTypes THEN 2 ELSE 1)
          BY DEF PacketLog
        <5>2. rest.from \in Nat
          BY <4>1
        <5>. QED
          BY <1>2, <4>2, <5>1, <5>2
      <4>. QED
        BY <1>3, <1>5, <1>6, <4>1, <4>2, <4>3 DEF PacketLog
    <3>3. Extends(P, P)
      BY DEF Extends
    <3>. QED
      BY <1>6, <3>1, <3>2, <3>3
  <2>. QED
    BY <2>1, <2>2
<1>. HIDE DEF built, E
<1>8. CASE c.udpConnected
  <2>1. Silent(built, disable(built, E)) /\ Silent(built, enable(built, E))
    BY <1>7, <1>8, EventsStay
  <2>2. /\ r.tcpConnected = built.tcpConnected /\ r.udpConnected = built.udpConnected
        /\ r.tcpReceivedData = built.tcpReceivedData
        /\ r.udpNextSendIndex = built.udpNextSendIndex
    BY <1>1, <1>7, <1>8 DEF enable, disable, HasFields, Fields
  <2>3. Silent(built, r) /\ HasFields(r)
    BY <1>1, <1>8, <2>1, SilentHasFields
  <2>4. ASSUME NEW Q, PacketLog(built, Q, b) PROVE PacketLog(r, Q, b)
    <3>1. r.tcpReceivedData \in Chunk
      BY <1>5, <1>7, <1>8, <2>2
    <3>2. finalReceived(built) => finalReceived(r)
      BY <2>3 DEF Silent, Stays, Idle, finalReceived
    <3>. QED
      BY <2>3, <2>4, <3>1, <3>2, SameLogKeeps DEF Silent
  <2>5. \E Q : /\ PacketLog(r, Q, b) /\ Extends(P, Q)
               /\ P[next - 1].type \notin FinalTypes
                    => Q[r.udpNextSendIndex - 1].type \notin FinalTypes
    BY <1>7, <1>8, <2>2, <2>4
  <2>6. /\ w.from = w.to => rest.from = rest.to
        /\ flush = TRUE /\ w.to - w.from < udpSendPacketSize => rest.from = rest.to
    BY <1>4, <1>5, <1>3
  <2>. QED
    BY <1>5, <1>7, <1>8, <2>2, <2>5, <2>6 DEF r
<1>9. CASE ~c.udpConnected
  <2>1. Extends(P, P)
    BY DEF Extends
  <2>. QED
    BY <1>1, <1>9, <2>1 DEF r
<1>. QED
  BY <1>8, <1>9

\* While TCP is open the last packet is not queued yet.
LEMMA NotFinalYet ==
  ASSUME NEW c, NEW P, NEW b, PacketLog(c, P, b), c.tcpConnected
  PROVE  P[c.udpNextSendIndex - 1].type \notin FinalTypes
<1>. DEFINE n == c.udpNextSendIndex - 1
<1>1. CASE n = 0
  BY <1>1 DEF PacketLog, Hello, FinalTypes
<1>2. CASE n # 0
  BY <1>2 DEF PacketLog
<1>. QED
  BY <1>1, <1>2

\* onUdpSentBufferChanged and the like.
LEMMA SilentLogs ==
  ASSUME NEW c, NEW P, NEW b, NEW d, Silent(c, d), d.tcpReceivedData \in Chunk
  PROVE  /\ PacketLog(c, P, b) => PacketLog(d, P, b)
         /\ Logged(c, P, b) => Logged(d, P, b)
<1>1. SameLog(c, d) /\ HasFields(d) /\ (finalReceived(c) => finalReceived(d))
  BY DEF Silent, Stays, Idle, finalReceived
<1>. QED
  BY <1>1, SameLogKeeps

\* tcpRead appends what it reads.
LEMMA TcpReadLogs ==
  ASSUME NEW c, HasFields(c), NEW P, NEW b, Logged(c, P, b), NEW size \in Nat
  PROVE  LET r == tcpRead(c, size)
         IN  /\ \E Q : Logged(r, Q, b) /\ Extends(P, Q)
             /\ r.tcpConnected = c.tcpConnected /\ r.udpConnected = c.udpConnected
             /\ r.tcpReceivedData.to \in {c.tcpReceivedData.to, c.tcpReceivedData.to + size}
             /\ ~c.tcpConnected => r = c
<1>. DEFINE w    == c.tcpReceivedData
            data == [from |-> w.from, to |-> w.to + size]
            more == [c EXCEPT !.tcpReceivedData = data]
            F    == FALSE
            built == buildUdpPackets(more, F)
            read == IF size > 0 /\ c.udpConnected THEN built ELSE c
            after == onUdpSentBufferChanged(read, DOMAIN read.udpSentPackets)
            r    == tcpRead(c, size)
<1>1. r = IF ~c.tcpConnected THEN c ELSE after
  BY DEF tcpRead
<1>. HIDE DEF r
<1>2. PacketLog(c, P, b) /\ NothingWaits(c) /\ Extends(P, P)
  BY DEF Logged, Extends
<1>3. CASE ~c.tcpConnected
  BY <1>1, <1>2, <1>3 DEF r
<1>4. CASE c.tcpConnected
  <2>1. w.from \in Nat /\ w.to \in Nat /\ w.to <= w.to + size
    BY <1>2 DEF PacketLog, Chunk
  <2>2. data \in Chunk /\ data.from = w.from /\ data.to = w.to + size
    BY <2>1 DEF Chunk
  <2>. HIDE DEF data
  <2>3. /\ HasFields(more)
        /\ more.tcpReceivedData = data
        /\ more.udpNextSendIndex = c.udpNextSendIndex
        /\ more.udpSentPackets = c.udpSentPackets
        /\ more.tcpConnected = c.tcpConnected /\ more.udpConnected = c.udpConnected
        /\ finalReceived(more) <=> finalReceived(c)
    BY DEF HasFields, Fields, finalReceived
  <2>. HIDE DEF more, F
  <2>4. PacketLog(more, P, b)
    <3>1. /\ b <= data.from /\ data.from <= data.to
          /\ \A i \in 1 .. (c.udpNextSendIndex - 1) : P[i].to <= data.to
      <4>1. \A i \in 1 .. (c.udpNextSendIndex - 1) : P[i].to \in Nat /\ P[i].to <= w.to
        BY <1>2 DEF PacketLog, ReceivedPacket
      <4>. QED
        BY <1>2, <2>1, <2>2, <4>1 DEF PacketLog
    <3>. QED
      BY <1>2, <1>4, <2>2, <2>3, <3>1 DEF PacketLog
  <2>5. P[more.udpNextSendIndex - 1].type \notin FinalTypes
    BY <1>4, <2>3, <2>4, NotFinalYet
  <2>6. /\ \E Q : PacketLog(built, Q, b) /\ Extends(P, Q)
        /\ built.tcpConnected = c.tcpConnected /\ built.udpConnected = c.udpConnected
        /\ built.tcpReceivedData.to = data.to
    BY <2>3, <2>4, <2>5, BuildUdpPacketsLogs
  <2>7. HasFields(built)
    BY <2>3, BuildUdpPacketsStays DEF Stays, Idle
  <2>. HIDE DEF built
  <2>8. PICK Q : Logged(read, Q, b) /\ Extends(P, Q)
    BY <1>2, <1>4, <2>6 DEF Logged, NothingWaits
  <2>9. /\ HasFields(read)
        /\ read.tcpConnected = c.tcpConnected /\ read.udpConnected = c.udpConnected
        /\ read.tcpReceivedData.to \in {w.to, w.to + size}
    BY <2>2, <2>6, <2>7
  <2>. HIDE DEF read
  <2>10. Silent(read, after)
    BY <2>9, BufferChangedStays
  <2>11. /\ after.tcpReceivedData = read.tcpReceivedData
         /\ after.tcpConnected = read.tcpConnected /\ after.udpConnected = read.udpConnected
    BY <2>9 DEF onUdpSentBufferChanged, enable, disable, HasFields, Fields
  <2>. HIDE DEF after
  <2>12. Logged(after, Q, b)
    BY <2>8, <2>10, <2>11, SilentLogs DEF Logged, PacketLog
  <2>. QED
    BY <1>1, <1>4, <2>8, <2>9, <2>11, <2>12 DEF r
<1>. QED
  BY <1>3, <1>4

\* tcpClose flushes what waits and queues the last packet behind it.
LEMMA TcpCloseLogs ==
  ASSUME NEW c, HasFields(c), NEW P, NEW b, Logged(c, P, b), LeftoverIsPartialIn(c), NEW error
  PROVE  LET r == tcpClose(c, error)
         IN  /\ \E Q : Logged(r, Q, b) /\ Extends(P, Q)
             /\ r.tcpReceivedData.to = c.tcpReceivedData.to
             /\ r.udpConnected = c.udpConnected
<1>. DEFINE closed == [c EXCEPT !.tcpConnected = FALSE,
                                !.socketRead = FALSE,
                                !.socketWrite = FALSE,
                                !.ev = @ \ {"TcpRead", "TcpWrite"}]
            faked   == tcpWriteFake(closed)
            T       == TRUE
            flushed == buildUdpPackets(faked, T)
            type    == IF error THEN "Disconnect" ELSE "Bye"
            to      == c.tcpReceivedData.to
            byes    == addPacket(flushed, type, to, to)
            E       == {"Close"}
            r       == tcpClose(c, error)
<1>1. r = IF ~c.tcpConnected THEN c
          ELSE IF ~c.udpConnected THEN enable(closed, E) ELSE byes
  BY DEF tcpClose
<1>. HIDE DEF r
<1>2. PacketLog(c, P, b) /\ NothingWaits(c) /\ Extends(P, P)
  BY DEF Logged, Extends
<1>3. CASE ~c.tcpConnected
  BY <1>1, <1>2, <1>3 DEF r
<1>4. ASSUME c.tcpConnected
      PROVE  /\ PacketLog(closed, P, b) /\ HasFields(closed)
             /\ P[closed.udpNextSendIndex - 1].type \notin FinalTypes
             /\ ~closed.tcpConnected /\ closed.udpConnected = c.udpConnected
             /\ closed.tcpReceivedData = c.tcpReceivedData
  <2>1. /\ HasFields(closed)
        /\ closed.tcpReceivedData = c.tcpReceivedData
        /\ closed.udpNextSendIndex = c.udpNextSendIndex
        /\ closed.udpSentPackets = c.udpSentPackets
        /\ ~closed.tcpConnected /\ closed.udpConnected = c.udpConnected
        /\ finalReceived(closed) <=> finalReceived(c)
    BY DEF HasFields, Fields, finalReceived
  <2>. HIDE DEF closed
  <2>2. PacketLog(closed, P, b)
    BY <1>2, <2>1 DEF PacketLog
  <2>. QED
    BY <1>2, <1>4, <2>1, <2>2, NotFinalYet
<1>. HIDE DEF closed, T, E, type, to
<1>5. CASE c.tcpConnected /\ ~c.udpConnected
  <2>1. Silent(closed, enable(closed, E)) /\ Silent(closed, closed)
    BY <1>4, <1>5, EventsStay
  <2>2. /\ enable(closed, E).tcpReceivedData = c.tcpReceivedData
        /\ enable(closed, E).udpConnected = c.udpConnected
    BY <1>4, <1>5 DEF enable, HasFields, Fields
  <2>3. c.tcpReceivedData \in Chunk
    BY <1>2 DEF PacketLog
  <2>4. PacketLog(enable(closed, E), P, b)
    BY <1>4, <1>5, <2>1, <2>2, <2>3, SilentLogs
  <2>5. NothingWaits(enable(closed, E))
    BY <1>2, <1>5, <2>2 DEF NothingWaits
  <2>. QED
    BY <1>1, <1>2, <1>5, <2>2, <2>4, <2>5 DEF r, Logged
<1>6. CASE c.tcpConnected /\ c.udpConnected
  <2>1. Silent(closed, faked) /\ HasFields(faked)
    BY <1>4, <1>6, TcpWriteFakeStays, SilentHasFields
  <2>2. /\ faked.udpNextSendIndex = closed.udpNextSendIndex
        /\ faked.tcpReceivedData = c.tcpReceivedData
        /\ faked.udpConnected /\ ~faked.tcpConnected
    BY <1>4, <1>6 DEF tcpWriteFake, HasFields, Fields
  <2>3. PacketLog(faked, P, b)
    BY <1>2, <1>4, <1>6, <2>1, <2>2, SilentLogs DEF PacketLog
  <2>. HIDE DEF faked
  <2>4. P[faked.udpNextSendIndex - 1].type \notin FinalTypes
    BY <1>4, <1>6, <2>2
  <2>5. T = TRUE /\ faked.tcpReceivedData.to - faked.tcpReceivedData.from < udpSendPacketSize
    BY <2>2 DEF T, LeftoverIsPartialIn
  <2>6. /\ \E Q : /\ PacketLog(flushed, Q, b) /\ Extends(P, Q)
                  /\ Q[flushed.udpNextSendIndex - 1].type \notin FinalTypes
        /\ ~flushed.tcpConnected /\ flushed.udpConnected
        /\ flushed.tcpReceivedData.to = c.tcpReceivedData.to
        /\ flushed.tcpReceivedData.from = flushed.tcpReceivedData.to
    <3>. DEFINE r2 == buildUdpPackets(faked, T)
    <3>1. /\ \E Q : /\ PacketLog(r2, Q, b) /\ Extends(P, Q)
                    /\ P[faked.udpNextSendIndex - 1].type \notin FinalTypes
                         => Q[r2.udpNextSendIndex - 1].type \notin FinalTypes
          /\ r2.tcpConnected = faked.tcpConnected /\ r2.udpConnected = faked.udpConnected
          /\ r2.tcpReceivedData.to = faked.tcpReceivedData.to
          /\ /\ T = TRUE /\ faked.udpConnected
             /\ faked.tcpReceivedData.to - faked.tcpReceivedData.from < udpSendPacketSize
             => r2.tcpReceivedData.from = r2.tcpReceivedData.to
      <4>1. P[faked.udpNextSendIndex - 1].type \in FinalTypes
              => faked.tcpReceivedData.from = faked.tcpReceivedData.to
        BY <2>4
      <4>. HIDE DEF r2
      <4>. QED
        BY <2>1, <2>3, <4>1, BuildUdpPacketsLogs DEF r2
    <3>2. flushed = r2
      BY DEF flushed
    <3>. HIDE DEF flushed, r2
    <3>3. flushed.tcpReceivedData.from = flushed.tcpReceivedData.to
      BY <2>2, <2>5, <3>1, <3>2
    <3>. QED
      BY <2>2, <2>4, <3>1, <3>2, <3>3
  <2>7. HasFields(flushed)
    BY <2>1, BuildUdpPacketsStays DEF Stays, Idle
  <2>. HIDE DEF flushed
  <2>8. PICK Q : /\ PacketLog(flushed, Q, b) /\ Extends(P, Q)
                 /\ Q[flushed.udpNextSendIndex - 1].type \notin FinalTypes
    BY <2>6
  <2>9. /\ byes.udpNextSendIndex = flushed.udpNextSendIndex + 1
        /\ \A i \in DOMAIN byes.udpSentPackets :
             \/ /\ i = flushed.udpNextSendIndex
                /\ SamePacket(byes.udpSentPackets[i], [type |-> type, from |-> to, to |-> to])
             \/ /\ i \in DOMAIN flushed.udpSentPackets
                /\ SamePacket(byes.udpSentPackets[i], flushed.udpSentPackets[i])
        /\ byes.tcpReceivedData = flushed.tcpReceivedData
        /\ byes.tcpConnected = flushed.tcpConnected /\ byes.udpConnected = flushed.udpConnected
        /\ finalReceived(byes) <=> finalReceived(flushed)
    BY <2>7, AddPacketAdds
  <2>. HIDE DEF byes
  <2>10. /\ type \in {"Data", "Bye", "Disconnect"} /\ type # "Data"
         /\ to \in Nat /\ to = byes.tcpReceivedData.to /\ to = byes.tcpReceivedData.from
         /\ to = flushed.tcpReceivedData.from
         /\ byes.tcpReceivedData \in Chunk
    BY <1>2, <2>6, <2>8, <2>9 DEF type, to, PacketLog, Chunk
  <2>11. to <= to
    BY <2>10
  <2>12. \E U : PacketLog(byes, U, b) /\ Extends(Q, U)
    <3>1. /\ type = "Data" => to < to
          /\ type = "Data" => flushed.tcpReceivedData.from < byes.tcpReceivedData.from
          /\ type # "Data" => ~flushed.tcpConnected /\ to = byes.tcpReceivedData.to
          /\ byes.tcpReceivedData.from <= byes.tcpReceivedData.to
          /\ flushed.tcpReceivedData.from <= byes.tcpReceivedData.from
          /\ to <= byes.tcpReceivedData.to
          /\ byes.tcpReceivedData.to = flushed.tcpReceivedData.to
          /\ ~finalReceived(flushed) =>
               to = flushed.tcpReceivedData.from /\ to = byes.tcpReceivedData.from
      BY <2>6, <2>9, <2>10, <2>11
    <3>. QED
      BY <2>6, <2>8, <2>9, <2>10, <2>11, <3>1, LogGrows
  <2>13. PICK U : PacketLog(byes, U, b) /\ Extends(Q, U)
    BY <2>12
  <2>14. Extends(P, U)
    BY <2>8, <2>13 DEF Extends
  <2>15. Logged(byes, U, b)
    BY <2>6, <2>9, <2>13 DEF Logged, NothingWaits
  <2>. QED
    BY <1>1, <1>6, <2>6, <2>9, <2>14, <2>15 DEF r
<1>. QED
  BY <1>3, <1>5, <1>6

\* A connection whose packets are a cut of some stream.
IsLogged(c) == \E P, b : Logged(c, P, b)

\* Whatever the stream of c so far, that of d continues it; with UDP closed no
\* packet is queued.
Continues(c, d) ==
  /\ \A P, b : Logged(c, P, b) => \E Q : Logged(d, Q, b) /\ Extends(P, Q)
  /\ ~c.udpConnected => d.udpNextSendIndex = c.udpNextSendIndex
  /\ ~c.udpConnected => ~d.udpConnected

\* Two calls, one after the other.
LEMMA ContinuesChain ==
  ASSUME NEW c, NEW d, NEW e, Continues(c, d), Continues(d, e)
  PROVE  Continues(c, e)
<1>1. ASSUME NEW P, NEW b, Logged(c, P, b)
      PROVE  \E Q : Logged(e, Q, b) /\ Extends(P, Q)
  <2>1. PICK Q : Logged(d, Q, b) /\ Extends(P, Q)
    BY <1>1 DEF Continues
  <2>2. PICK U : Logged(e, U, b) /\ Extends(Q, U)
    BY <2>1 DEF Continues
  <2>. QED
    BY <2>1, <2>2 DEF Extends
<1>. QED
  BY <1>1 DEF Continues

\* The cut goes on.
LEMMA LoggedOn ==
  ASSUME NEW c, NEW d, IsLogged(c), Continues(c, d)
  PROVE  IsLogged(d)
BY DEF IsLogged, Continues

\* A method that queues nothing.
LEMMA SameLogContinues ==
  ASSUME NEW c, NEW d, SameLog(c, d), HasFields(d), finalReceived(c) => finalReceived(d),
         d.tcpReceivedData \in Chunk
  PROVE  Continues(c, d)
<1>1. ASSUME NEW P, NEW b, Logged(c, P, b)
      PROVE  Logged(d, P, b) /\ Extends(P, P)
  BY <1>1, SameLogKeeps DEF Extends
<1>. QED
  BY <1>1 DEF Continues, SameLog

\* The same, for the relations above.
LEMMA SilentContinues ==
  ASSUME NEW c, NEW d, Idle(c, d), SameLog(c, d), d.tcpReceivedData \in Chunk
  PROVE  Continues(c, d)
<1>1. HasFields(d) /\ (finalReceived(c) => finalReceived(d))
  BY DEF Idle, finalReceived
<1>. QED
  BY <1>1, SameLogContinues

\* tcpRead.
LEMMA TcpReadContinues ==
  ASSUME NEW c, HasFields(c), IsLogged(c), NEW size \in Nat
  PROVE  LET r == tcpRead(c, size)
         IN  /\ Continues(c, r)
             /\ r.tcpConnected = c.tcpConnected /\ r.udpConnected = c.udpConnected
             /\ r.tcpReceivedData.to \in {c.tcpReceivedData.to, c.tcpReceivedData.to + size}
             /\ ~c.tcpConnected => r = c
<1>. DEFINE r == tcpRead(c, size)
<1>1. ASSUME NEW P, NEW b, Logged(c, P, b)
      PROVE  /\ \E Q : Logged(r, Q, b) /\ Extends(P, Q)
             /\ r.tcpConnected = c.tcpConnected /\ r.udpConnected = c.udpConnected
             /\ r.tcpReceivedData.to \in {c.tcpReceivedData.to, c.tcpReceivedData.to + size}
             /\ ~c.tcpConnected => r = c
  BY <1>1, TcpReadLogs
<1>2. ASSUME ~c.udpConnected PROVE r.udpNextSendIndex = c.udpNextSendIndex
  <2>. DEFINE I == DOMAIN c.udpSentPackets
  <2>1. r = c \/ r = onUdpSentBufferChanged(c, I)
    BY <1>2 DEF tcpRead
  <2>. HIDE DEF I, r
  <2>2. Silent(c, onUdpSentBufferChanged(c, I)) /\ Silent(c, c)
    BY BufferChangedStays, SelfStays
  <2>. QED
    BY <2>1, <2>2 DEF Silent, SameLog
<1>. HIDE DEF r
<1>. QED
  BY <1>1, <1>2 DEF IsLogged, Continues, r

\* buildUdpPackets between two handlers.
LEMMA BuildUdpPacketsContinues ==
  ASSUME NEW c, HasFields(c), IsLogged(c), NEW flush
  PROVE  LET r == buildUdpPackets(c, flush)
         IN  /\ Continues(c, r)
             /\ r.tcpConnected = c.tcpConnected /\ r.udpConnected = c.udpConnected
             /\ r.tcpReceivedData.to = c.tcpReceivedData.to
<1>. DEFINE r == buildUdpPackets(c, flush)
<1>1. ASSUME NEW P, NEW b, Logged(c, P, b)
      PROVE  /\ \E Q : Logged(r, Q, b) /\ Extends(P, Q)
             /\ r.tcpConnected = c.tcpConnected /\ r.udpConnected = c.udpConnected
             /\ r.tcpReceivedData.to = c.tcpReceivedData.to
  <2>1. PacketLog(c, P, b) /\ NothingWaits(c)
    BY <1>1 DEF Logged
  <2>2. P[c.udpNextSendIndex - 1].type \in FinalTypes
          => c.tcpReceivedData.from = c.tcpReceivedData.to
    BY <2>1, NotFinalYet DEF NothingWaits
  <2>. HIDE DEF r
  <2>3. /\ \E Q : PacketLog(r, Q, b) /\ Extends(P, Q)
        /\ r.tcpConnected = c.tcpConnected /\ r.udpConnected = c.udpConnected
        /\ r.tcpReceivedData.to = c.tcpReceivedData.to
        /\ c.tcpReceivedData.from = c.tcpReceivedData.to
             => r.tcpReceivedData.from = r.tcpReceivedData.to
    BY <2>1, <2>2, BuildUdpPacketsLogs DEF r
  <2>. QED
    BY <2>1, <2>3 DEF Logged, NothingWaits
<1>2. ASSUME ~c.udpConnected PROVE r = c
  BY <1>2 DEF buildUdpPackets
<1>. HIDE DEF r
<1>. QED
  BY <1>1, <1>2 DEF IsLogged, Continues, r

\* tcpClose.
LEMMA TcpCloseContinues ==
  ASSUME NEW c, HasFields(c), IsLogged(c), LeftoverIsPartialIn(c), NEW error
  PROVE  LET r == tcpClose(c, error)
         IN  /\ Continues(c, r)
             /\ r.tcpReceivedData.to = c.tcpReceivedData.to
             /\ r.udpConnected = c.udpConnected
<1>. DEFINE r == tcpClose(c, error)
<1>1. ASSUME NEW P, NEW b, Logged(c, P, b)
      PROVE  /\ \E Q : Logged(r, Q, b) /\ Extends(P, Q)
             /\ r.tcpReceivedData.to = c.tcpReceivedData.to
             /\ r.udpConnected = c.udpConnected
  BY <1>1, TcpCloseLogs
<1>2. ASSUME ~c.udpConnected PROVE r.udpNextSendIndex = c.udpNextSendIndex
  <2>1. c.tcpReceivedData.from = c.tcpReceivedData.to
    BY <1>2 DEF IsLogged, Logged, NothingWaits
  <2>2. SameLog(c, r)
    BY <1>2, <2>1, TcpCloseAlone
  <2>. QED
    BY <2>2 DEF SameLog
<1>. HIDE DEF r
<1>. QED
  BY <1>1, <1>2 DEF IsLogged, Continues, r

-----------------------------------------------------------------------------
(* tcpWrite.                                                               *)

\* The packet that tcpWrite looks at, past a Hello.
toWrite(c) ==
  IF /\ c.tcpNextSendIndex < c.udpReceivedMasterIndex
     /\ c.udpReceivedPackets[c.tcpNextSendIndex].type = "Hello"
    THEN c.tcpNextSendIndex + 1
    ELSE c.tcpNextSendIndex

Advances(c, d) ==
  /\ Idle(c, d) /\ Sends(c, d) /\ SameSocket(c, d) /\ SameLog(c, d)
  /\ c.tcpConnected /\ d.tcpConnected

\* Only a Hello is passed over.
Skips(c, d) ==
  /\ Advances(c, d)
  /\ toWrite(c) >= c.udpReceivedMasterIndex
  /\ d.tcpNextSendIndex = toWrite(c)
  /\ d.udpReceivedPackets = c.udpReceivedPackets
  /\ d.tcpWritten = c.tcpWritten

\* size bytes of a packet are written.
Writes(c, d, size) ==
  LET k == toWrite(c)
      p == c.udpReceivedPackets[k]
  IN  /\ Advances(c, d)
      /\ k < c.udpReceivedMasterIndex
      /\ p.type \notin FinalTypes
      /\ size <= p.to - p.from
      /\ size # p.to - p.from => size \in Nat
      /\ d.tcpNextSendIndex = IF p.from + size = p.to THEN k + 1 ELSE k
      /\ d.udpReceivedPackets = [c.udpReceivedPackets EXCEPT ![k] =
            [type |-> p.type, from |-> p.from + size, to |-> p.to]]
      /\ d.tcpWritten = c.tcpWritten \o [j \in 1 .. size |-> p.from + j - 1]

\* The final packet of the peer ends TCP.
Ends(c, d) ==
  LET k == toWrite(c)
  IN  /\ Stays(c, d)
      /\ c.tcpConnected /\ ~d.tcpConnected
      /\ k < c.udpReceivedMasterIndex
      /\ c.udpReceivedPackets[k].type \in FinalTypes
      /\ IsLogged(c) => /\ Continues(c, d)
                        /\ d.tcpReceivedData.to = c.tcpReceivedData.to

\* tcpClose closes TCP.
LEMMA TcpCloseCloses ==
  ASSUME NEW c, HasFields(c), NEW error
  PROVE  ~tcpClose(c, error).tcpConnected
<1>. DEFINE closed == [c EXCEPT !.tcpConnected = FALSE,
                                !.socketRead = FALSE,
                                !.socketWrite = FALSE,
                                !.ev = @ \ {"TcpRead", "TcpWrite"}]
            faked   == tcpWriteFake(closed)
            T       == TRUE
            flushed == buildUdpPackets(faked, T)
            type    == IF error THEN "Disconnect" ELSE "Bye"
            to      == c.tcpReceivedData.to
            byes    == addPacket(flushed, type, to, to)
            E       == {"Close"}
<1>1. /\ ~c.tcpConnected => tcpClose(c, error) = c
      /\ c.tcpConnected => tcpClose(c, error) \in {enable(closed, E), byes}
  BY DEF tcpClose
<1>2. HasFields(closed) /\ ~closed.tcpConnected
  BY DEF HasFields, Fields
<1>. HIDE DEF closed, T, E, type, to
<1>3. ~enable(closed, E).tcpConnected
  BY <1>2 DEF enable
<1>4. Silent(closed, faked) /\ HasFields(faked)
  BY <1>2, TcpWriteFakeStays, SilentHasFields
<1>. HIDE DEF faked
<1>5. Stays(faked, flushed) /\ HasFields(flushed)
  BY <1>4, BuildUdpPacketsStays DEF Stays, Idle
<1>. HIDE DEF flushed
<1>6. Stays(flushed, byes)
  BY <1>5, AddPacketStays
<1>7. ~byes.tcpConnected
  BY <1>2, <1>4, <1>5, <1>6 DEF Silent, Stays, SameReads
<1>. QED
  BY <1>1, <1>3, <1>7

\* tcpWrite(false).
LEMMA TcpWriteWrites ==
  ASSUME NEW c, ConnectionType(c), ReceivedKeptIn(c), LeftoverIsPartialIn(c), NEW n \in Nat
  PROVE  LET r == tcpWrite(c, n)
         IN  \/ r = c \/ Skips(c, r) \/ Ends(c, r)
             \/ \E size \in Int : size <= n /\ Writes(c, r, size)
<1>. DEFINE k == toWrite(c)
            p == c.udpReceivedPackets[k]
            master == c.udpReceivedMasterIndex
            size == IF n < p.to - p.from THEN n ELSE p.to - p.from
            next == nextToWrite(p, k, size)
            q == [type |-> p.type, from |-> p.from + size, to |-> p.to]
            R == [c.udpReceivedPackets EXCEPT ![k] = q]
            w == c.tcpWritten \o [j \in 1 .. size |-> p.from + j - 1]
            wrote == [c EXCEPT !.tcpNextSendIndex = next,
                               !.udpReceivedPackets = R,
                               !.tcpWritten = w]
            skipped == [c EXCEPT !.tcpNextSendIndex = k]
            passed == [c EXCEPT !.tcpNextSendIndex = k + 1]
            E == {"TcpWrite"}
            F == FALSE
            ended == tcpClose(passed, F)
            r == tcpWrite(c, n)
<1>0. HasFields(c)
  BY TypedHasFields
<1>1. r = IF ~c.tcpConnected THEN c
          ELSE IF k >= master THEN skipped
          ELSE IF p.type \in FinalTypes THEN ended
          ELSE IF next < master THEN enable(wrote, E) ELSE wrote
  BY DEF tcpWrite, toWrite
<1>. HIDE DEF r
<1>2. CASE ~c.tcpConnected
  BY <1>1, <1>2 DEF r
<1>3. CASE c.tcpConnected /\ k >= master
  <2>1. Idle(c, skipped) /\ SameSocket(c, skipped) /\ Sends(c, skipped)
    BY <1>0 DEF Idle, SameEnd, SameSocket, Has, Sends, Missing, Queued, HasFields, Fields
  <2>2. SameLog(c, skipped)
    BY <1>0 DEF SameLog, HasFields, Fields
  <2>3. Skips(c, skipped)
    BY <1>0, <1>3, <2>1, <2>2 DEF Skips, Advances, HasFields, Fields
  <2>. QED
    BY <1>1, <1>3, <2>3 DEF r
<1>4. CASE c.tcpConnected /\ ~(k >= master) /\ p.type \in FinalTypes
  <2>1. Idle(c, passed) /\ SameSocket(c, passed) /\ Sends(c, passed)
    BY <1>0 DEF Idle, SameEnd, SameSocket, Has, Sends, Missing, Queued, HasFields, Fields
  <2>2. passed.tcpWritten = c.tcpWritten /\ passed.tcpConnected = c.tcpConnected
    BY <1>0 DEF HasFields, Fields
  <2>8. /\ SameLog(c, passed) /\ passed.tcpReceivedData = c.tcpReceivedData
        /\ finalReceived(c) => finalReceived(passed)
    BY <1>0 DEF SameLog, finalReceived, HasFields, Fields
  <2>. HIDE DEF passed, F
  <2>3. Stays(passed, ended) /\ ~ended.tcpConnected
    BY <2>1, TcpCloseStays, TcpCloseCloses DEF Idle
  <2>4. Idle(c, ended) /\ Sends(c, ended) /\ SameSocket(c, ended)
    BY <2>1, <2>3, IdleChains, SendsChain, SocketChains DEF Stays
  <2>5. SameReads(c, ended)
    BY <2>2, <2>3 DEF Stays, SameReads
  <2>6. k < master
    BY <1>4 DEF ConnectionType, toWrite
  <2>7. ASSUME IsLogged(c)
        PROVE  /\ Continues(c, ended)
               /\ ended.tcpReceivedData.to = c.tcpReceivedData.to
    <3>1. Continues(c, passed) /\ IsLogged(passed)
      BY <1>0, <2>1, <2>7, <2>8, SameLogContinues, LoggedOn DEF IsLogged, Logged, PacketLog, Idle
    <3>2. /\ Continues(passed, ended)
          /\ ended.tcpReceivedData.to = passed.tcpReceivedData.to
      BY <2>1, <2>8, <3>1, TcpCloseContinues DEF Idle, LeftoverIsPartialIn
    <3>. QED
      BY <2>8, <3>1, <3>2, ContinuesChain
  <2>9. Ends(c, ended)
    BY <1>4, <2>3, <2>4, <2>5, <2>6, <2>7 DEF Ends, Stays
  <2>. QED
    BY <1>1, <1>4, <2>9 DEF r
<1>5. CASE c.tcpConnected /\ ~(k >= master) /\ p.type \notin FinalTypes
  <2>1. k \in Nat /\ k < master
    BY <1>5 DEF ConnectionType, toWrite
  <2>2. /\ size <= p.to - p.from
        /\ size # p.to - p.from => size \in Nat
        /\ size \in Int /\ size <= n
    <3>0. c.tcpNextSendIndex \in Nat /\ master \in Nat /\ c.tcpNextSendIndex <= k
      <4>1. c.tcpNextSendIndex \in Nat /\ master \in Nat
        BY DEF ConnectionType
      <4>. QED
        BY <4>1 DEF toWrite
    <3>1. k \in DOMAIN c.udpReceivedPackets
      <4>. HIDE DEF k
      <4>. QED
        BY <2>1, <3>0 DEF ReceivedKeptIn
    <3>2. p.from \in Nat /\ p.to \in Nat
      BY <3>1 DEF ConnectionType, ReceivedPacket
    <3>. HIDE DEF p
    <3>. QED
      BY <3>2
  <2>3. /\ DOMAIN R = DOMAIN c.udpReceivedPackets
        /\ \A i \in DOMAIN R : SameEnd(R[i], c.udpReceivedPackets[i])
    BY DEF SameEnd
  <2>4. next = IF p.from + size = p.to THEN k + 1 ELSE k
    BY DEF nextToWrite
  <2>. HIDE DEF size
  <2>. DEFINE X == c.ev \cup (IF next < master THEN E ELSE {})
              d == [c EXCEPT !.tcpNextSendIndex = next, !.udpReceivedPackets = R,
                             !.tcpWritten = w, !.ev = X]
  <2>5. r = d
    <3>1. wrote = [c EXCEPT !.tcpNextSendIndex = next, !.udpReceivedPackets = R,
                            !.tcpWritten = w, !.ev = c.ev]
      BY <1>0 DEF HasFields, Fields
    <3>2. wrote.ev = c.ev
      BY <1>0 DEF HasFields, Fields
    <3>3. enable(wrote, E) = [wrote EXCEPT !.ev = wrote.ev \cup E]
      BY DEF enable
    <3>. HIDE DEF next, R, w, E
    <3>4. [wrote EXCEPT !.ev = c.ev \cup E] =
             [c EXCEPT !.tcpNextSendIndex = next, !.udpReceivedPackets = R,
                       !.tcpWritten = w, !.ev = c.ev \cup E]
      BY <1>0 DEF HasFields, Fields
    <3>. QED
      BY <1>1, <1>5, <3>1, <3>2, <3>3, <3>4
  <2>. HIDE DEF R, w, X, next
  <2>6. Idle(c, d) /\ SameSocket(c, d) /\ Sends(c, d)
    BY <1>0, <2>3 DEF Idle, SameEnd, SameSocket, Has, Sends, Missing, Queued, HasFields, Fields
  <2>7. SameLog(c, d)
    BY <1>0 DEF SameLog, HasFields, Fields
  <2>8. d.tcpConnected /\ d.tcpNextSendIndex = next /\ d.udpReceivedPackets = R
        /\ d.tcpWritten = w
    BY <1>0, <1>5 DEF HasFields, Fields
  <2>. HIDE DEF d
  <2>9. Writes(c, d, size)
    BY <1>5, <2>1, <2>2, <2>4, <2>6, <2>7, <2>8 DEF Writes, Advances, R, w
  <2>. QED
    BY <2>2, <2>5, <2>9 DEF r
<1>. QED
  BY <1>2, <1>3, <1>4, <1>5

\* The same of a connection whose event has just been raised.
LEMMA WritesAfterRaise ==
  ASSUME NEW c, HasFields(c), NEW d, Alike(c, d), NEW e, NEW n,
         \/ e = d \/ Skips(d, e) \/ Ends(d, e)
         \/ \E size \in Int : size <= n /\ Writes(d, e, size)
  PROVE  \/ Silent(c, e) \/ Skips(c, e) \/ Ends(c, e)
         \/ \E size \in Int : size <= n /\ Writes(c, e, size)
<1>1. Silent(c, d)
  BY AlikeIsSilent
<1>2. toWrite(d) = toWrite(c)
  BY DEF Alike, toWrite
<1>3. Advances(d, e) => Advances(c, e)
  BY <1>1, IdleChains, SendsChain, SocketChains, LogChains DEF Advances, Silent, Stays, Alike, SameSocket
<1>4. CASE e = d
  BY <1>1, <1>4
<1>5. CASE Skips(d, e)
  BY <1>2, <1>3, <1>5 DEF Skips, Alike
<1>6. CASE Ends(d, e)
  <2>1. Stays(c, e) /\ c.tcpConnected /\ ~e.tcpConnected
    BY <1>1, <1>6, StaysChains DEF Ends, Silent, Alike
  <2>2. ASSUME IsLogged(c)
        PROVE  Continues(c, e) /\ e.tcpReceivedData.to = c.tcpReceivedData.to
    <3>1. d.tcpReceivedData = c.tcpReceivedData
      BY DEF Alike
    <3>2. c.tcpReceivedData \in Chunk
      BY <2>2 DEF IsLogged, Logged, PacketLog
    <3>3. Continues(c, d)
      BY <1>1, <3>1, <3>2, SilentContinues DEF Silent, Stays
    <3>4. IsLogged(d)
      BY <2>2, <3>3, LoggedOn
    <3>. QED
      BY <1>6, <3>1, <3>3, <3>4, ContinuesChain DEF Ends
  <2>3. toWrite(c) < c.udpReceivedMasterIndex /\ c.udpReceivedPackets[toWrite(c)].type \in FinalTypes
    BY <1>2, <1>6 DEF Ends, Alike
  <2>. QED
    BY <2>1, <2>2, <2>3 DEF Ends
<1>7. CASE \E size \in Int : size <= n /\ Writes(d, e, size)
  <2>1. PICK size \in Int : size <= n /\ Writes(d, e, size)
    BY <1>7
  <2>2. Writes(c, e, size)
    BY <1>2, <1>3, <2>1 DEF Writes, Alike
  <2>. QED
    BY <2>1, <2>2
<1>. QED
  BY <1>4, <1>5, <1>6, <1>7

\* eventTcpWrite.
LEMMA RaisedTcpWriteWrites ==
  ASSUME NEW c, LocalInv(c), NEW n \in Nat
  PROVE  LET r == tcpWrite(raise(c, "TcpWrite"), n)
         IN  \/ Silent(c, r) \/ Skips(c, r) \/ Ends(c, r)
             \/ \E size \in Int : size <= n /\ Writes(c, r, size)
<1>. DEFINE e == "TcpWrite"
            d == raise(c, e)
            r == tcpWrite(d, n)
<1>0. HasFields(c)
  BY TypedHasFields DEF LocalInv, Base
<1>1. ConnectionType(d) /\ ReceivedKeptIn(d) /\ LeftoverIsPartialIn(d)
  BY RaiseKeeps DEF Base
<1>2. Alike(c, d)
  BY <1>0 DEF Alike, raise, disable, HasFields, Fields
<1>. HIDE DEF d
<1>3. r = d \/ Skips(d, r) \/ Ends(d, r) \/ (\E size \in Int : size <= n /\ Writes(d, r, size))
  BY <1>1, TcpWriteWrites
<1>. HIDE DEF r
<1>4. Silent(c, r) \/ Skips(c, r) \/ Ends(c, r) \/ \E size \in Int : size <= n /\ Writes(c, r, size)
  BY <1>0, <1>2, <1>3, WritesAfterRaise
<1>. QED
  BY <1>4 DEF r, d

-----------------------------------------------------------------------------
(* The handlers, each as the event loop calls it: raise, then the method.   *)

\* eventTcpRead.
LEMMA RaisedTcpRead ==
  ASSUME NEW c, LocalInv(c), NEW n \in 0 .. udpSendPacketSize
  PROVE  LocalInv(tcpRead(raise(c, "TcpRead"), n))
<1>. DEFINE d == raise(c, "TcpRead")
<1>1. Base(d) /\ LeftoverIsPartialIn(d) /\ WakeUpTo(d, {"TcpRead"})
  BY RaiseKeeps
<1>. HIDE DEF d
<1>2. LET r == tcpRead(d, n) IN Base(r) /\ LeftoverIsPartialIn(r) /\ WakeUpTo(r, {})
  BY <1>1, TcpReadKeeps
<1>3. LocalInv(tcpRead(d, n))
  BY <1>2, InvFromWakeUp
<1>. QED
  BY <1>3 DEF d

\* closeRead commutes with raise, so the end of file is a read of a closed
\* socket.
LEMMA RaisedTcpReadEof ==
  ASSUME NEW c, LocalInv(c)
  PROVE  LocalInv(tcpRead(closeRead(raise(c, "TcpRead")), 0))
<1>. DEFINE d == raise(closeRead(c), "TcpRead")
<1>1. closeRead(raise(c, "TcpRead")) = d
  BY DEF closeRead, raise, disable, LocalInv, Base, ConnectionType
<1>2. LocalInv(closeRead(c))
  BY CloseReadKeeps
<1>3. 0 \in 0 .. udpSendPacketSize
  BY PacketSizeAssumption
<1>4. LocalInv(tcpRead(d, 0))
  BY <1>2, <1>3, RaisedTcpRead
<1>. HIDE DEF d
<1>. QED
  BY <1>1, <1>4

\* eventTcpWrite.
LEMMA RaisedTcpWrite ==
  ASSUME NEW c, LocalInv(c), NEW n \in 0 .. udpSendPacketSize
  PROVE  LocalInv(tcpWrite(raise(c, "TcpWrite"), n))
<1>. DEFINE d == raise(c, "TcpWrite")
<1>1. Base(d) /\ LeftoverIsPartialIn(d) /\ WakeUpTo(d, {"TcpWrite"})
  BY RaiseKeeps
<1>2. n \in Nat
  BY PacketSizeAssumption
<1>. HIDE DEF d
<1>3. LET r == tcpWrite(d, n) IN Base(r) /\ LeftoverIsPartialIn(r) /\ WakeUpTo(r, {})
  BY <1>1, <1>2, TcpWriteKeeps
<1>4. LocalInv(tcpWrite(d, n))
  BY <1>3, InvFromWakeUp
<1>. QED
  BY <1>4 DEF d

\* eventUdpResend, whichever packets have expired.
LEMMA RaisedUdpResend ==
  ASSUME NEW c, LocalInv(c), NEW expired,
         expired \subseteq DOMAIN c.udpSentPackets \ unsent(c)
  PROVE  LocalInv(udpResend(raise(c, "UdpResend"), expired))
<1>. DEFINE d == raise(c, "UdpResend")
<1>1. Base(d) /\ LeftoverIsPartialIn(d) /\ WakeUpTo(d, {"UdpResend"})
  BY RaiseKeeps
<1>2. d.udpSentPackets = c.udpSentPackets /\ unsent(d) = unsent(c)
  <2>1. d = [c EXCEPT !.ev = c.ev \ {"UdpResend"}]
    BY RaiseKeeps
  <2>. HIDE DEF d
  <2>. QED
    BY <2>1 DEF LocalInv, Base, ConnectionType, unsent
<1>. HIDE DEF d
<1>3. LET r == udpResend(d, expired)
      IN  Base(r) /\ LeftoverIsPartialIn(r) /\ WakeUpTo(r, {})
  BY <1>1, <1>2, UdpResendKeeps
<1>4. LocalInv(udpResend(d, expired))
  BY <1>3, InvFromWakeUp
<1>. QED
  BY <1>4 DEF d

\* An event that nothing waits for in NoLostWakeup: whether it is enabled
\* makes no difference.
LEMMA UnneededEvent ==
  ASSUME NEW c, Base(c), NEW e \in {"TcpClose", "UdpClose", "UdpCloseWait"}, WakeUpTo(c, {e})
  PROVE  WakeUpTo(c, {})
BY DEF WakeUpTo, NoLostWakeupIn, Base, ConnectionType, unsent

\* Connection::handle for the events that read no input.
LEMMA HandleKeeps ==
  ASSUME NEW c, LocalInv(c), NEW e \in LocalEvents \cup {"TcpClose"}
  PROVE  LocalInv(handle(c, e))
<1>. DEFINE d == raise(c, e)
            r == handle(c, e)
<1>1. Base(d) /\ LeftoverIsPartialIn(d) /\ WakeUpTo(d, {e})
  BY RaiseKeeps
<1>2. /\ e = "TcpClose" => r = tcpClose(d, c.socketError)
      /\ e = "UdpWrite" => r = udpWrite(d)
      /\ e = "UdpClose" => r = udpClose(d)
      /\ e = "BuildUdpPackets" => r = buildUdpPackets(d, TRUE)
      /\ e = "BuildConfirmations" => r = buildConfirmations(d)
      /\ e = "BuildByeBye" => r = buildByeBye(d)
      /\ e = "UdpCloseWait" => r = finish(d)
  BY DEF handle
<1>. HIDE DEF d, r
<1>3. Base(r) /\ LeftoverIsPartialIn(r) /\ WakeUpTo(r, {})
  <2>1. CASE e = "TcpClose"
    <3>1. WakeUpTo(d, {})
      BY <1>1, <2>1, UnneededEvent
    <3>2. /\ Base(r) /\ LeftoverIsPartialIn(r)
          /\ WakeUpTo(r, {} \ {"TcpRead", "TcpWrite"})
      BY <1>1, <1>2, <2>1, <3>1, TcpCloseKeeps
    <3>3. {} \ {"TcpRead", "TcpWrite"} = {}
      OBVIOUS
    <3>. QED
      BY <3>2, <3>3
  <2>2. CASE e = "UdpWrite"
    BY <1>1, <1>2, <2>2, UdpWriteKeeps
  <2>3. CASE e = "UdpClose"
    <3>1. WakeUpTo(d, {})
      BY <1>1, <2>3, UnneededEvent
    <3>2. /\ Base(r) /\ LeftoverIsPartialIn(r)
          /\ WakeUpTo(r, {} \cap {"TcpWrite", "Close"})
      BY <1>1, <1>2, <2>3, <3>1, UdpCloseKeeps
    <3>3. {} \cap {"TcpWrite", "Close"} = {}
      OBVIOUS
    <3>. QED
      BY <3>2, <3>3
  <2>4. CASE e = "BuildUdpPackets"
    <3>1. /\ d.tcpReceivedData.from <= d.tcpReceivedData.to
          /\ d.tcpReceivedData.to - d.tcpReceivedData.from
               < udpSendPacketSize + udpSendPacketSize
      BY <1>1, PartialIsSmall DEF Base
    <3>2. LET q == buildUdpPackets(d, TRUE)
          IN  /\ Base(q) /\ WakeUpTo(q, {e} \ {"BuildUdpPackets"})
              /\ c.udpConnected \/ LeftoverIsPartialIn(d) => LeftoverIsPartialIn(q)
      BY <1>1, <3>1, BuildUdpPacketsKeeps
    <3>3. {e} \ {"BuildUdpPackets"} = {}
      BY <2>4
    <3>. QED
      BY <1>1, <1>2, <2>4, <3>2, <3>3
  <2>5. CASE e = "BuildConfirmations"
    BY <1>1, <1>2, <2>5, BuildConfirmationsKeeps
  <2>6. CASE e = "BuildByeBye"
    BY <1>1, <1>2, <2>6, BuildByeByeKeeps
  <2>7. CASE e = "UdpCloseWait"
    <3>1. WakeUpTo(d, {})
      BY <1>1, <2>7, UnneededEvent
    <3>. QED
      BY <1>1, <1>2, <2>7, <3>1, FinishKeeps
  <2>. QED
    BY <2>1, <2>2, <2>3, <2>4, <2>5, <2>6, <2>7 DEF LocalEvents
<1>4. LocalInv(r)
  BY <1>3, InvFromWakeUp
<1>. QED
  BY <1>4 DEF r

-----------------------------------------------------------------------------
(* What the handlers that read from the TCP socket or resend leave alone.   *)

\* eventTcpRead.
LEMMA RaisedTcpReadStays ==
  ASSUME NEW c, HasFields(c), NEW n
  PROVE  Stays(c, tcpRead(raise(c, "TcpRead"), n))
<1>. DEFINE e == "TcpRead"
            d == raise(c, e)
            r == tcpRead(d, n)
<1>1. Stays(c, d) /\ HasFields(d)
  BY RaiseStays, SilentHasFields DEF Silent
<1>. HIDE DEF d
<1>2. Stays(d, r)
  BY <1>1, TcpReadStays
<1>. HIDE DEF r
<1>3. Stays(c, r)
  BY <1>1, <1>2, StaysChains
<1>. QED
  BY <1>3 DEF r, d

\* eventTcpRead at the end of the TCP host's stream.
LEMMA RaisedTcpReadEofStays ==
  ASSUME NEW c, HasFields(c)
  PROVE  Stays(c, tcpRead(closeRead(raise(c, "TcpRead")), 0))
<1>. DEFINE e == "TcpRead"
            z == 0
            d == raise(c, e)
            f == closeRead(d)
            r == tcpRead(f, z)
<1>1. Stays(c, d) /\ HasFields(d)
  BY RaiseStays, SilentHasFields DEF Silent
<1>. HIDE DEF d, z
<1>2. Stays(d, f) /\ HasFields(f)
  BY <1>1, CloseReadStays, SilentHasFields DEF Silent
<1>. HIDE DEF f
<1>3. Stays(f, r)
  BY <1>2, TcpReadStays
<1>. HIDE DEF r
<1>4. Stays(c, r)
  BY <1>1, <1>2, <1>3, StaysChains
<1>. QED
  BY <1>4 DEF r, f, d, z

\* eventUdpResend.
LEMMA RaisedUdpResendStays ==
  ASSUME NEW c, LocalInv(c), NEW expired
  PROVE  LET r == udpResend(raise(c, "UdpResend"), expired)
         IN  Silent(c, r) \/ (c.udpConnected /\ Closes(c, r))
<1>. DEFINE e == "UdpResend"
            d == raise(c, e)
            r == udpResend(d, expired)
<1>0. HasFields(c)
  BY TypedHasFields DEF LocalInv, Base
<1>1. Silent(c, d) /\ ConnectionType(d) /\ d.udpConnected = c.udpConnected
  <2>1. Silent(c, d)
    BY <1>0, RaiseStays
  <2>2. Base(d)
    BY RaiseKeeps
  <2>. HIDE DEF d
  <2>. QED
    BY <2>1, <2>2 DEF Base, Silent, Stays, Sends
<1>. HIDE DEF d
<1>2. Silent(d, r) \/ (d.udpConnected /\ Closes(d, r))
  BY <1>1, UdpResendStays
<1>. HIDE DEF r
<1>3. Silent(c, r) \/ (c.udpConnected /\ Closes(c, r))
  BY <1>1, <1>2, SilentChains, ClosesChains
<1>. QED
  BY <1>3 DEF r, d


-----------------------------------------------------------------------------
(* What each handler does to the packets of its own end.                    *)

\* Event::raise.
LEMMA RaiseContinues ==
  ASSUME NEW c, LocalInv(c), IsLogged(c), NEW e
  PROVE  LET d == raise(c, e)
         IN  /\ HasFields(d) /\ LeftoverIsPartialIn(d) /\ IsLogged(d)
             /\ Continues(c, d)
             /\ d.tcpConnected = c.tcpConnected /\ d.udpConnected = c.udpConnected
             /\ d.tcpReceivedData = c.tcpReceivedData
<1>. DEFINE d == raise(c, e)
<1>1. HasFields(c) /\ c.tcpReceivedData \in Chunk
  BY TypedHasFields DEF LocalInv, Base, ConnectionType
<1>2. Silent(c, d) /\ HasFields(d)
  BY <1>1, RaiseStays, SilentHasFields
<1>3. LeftoverIsPartialIn(d)
  BY RaiseKeeps
<1>4. d.udpConnected = c.udpConnected /\ d.tcpReceivedData = c.tcpReceivedData
  BY <1>1 DEF raise, disable, HasFields, Fields
<1>. HIDE DEF d
<1>5. Continues(c, d)
  BY <1>1, <1>2, <1>4, SilentContinues DEF Silent, Stays
<1>6. IsLogged(d) /\ d.tcpConnected = c.tcpConnected
  BY <1>2, <1>5, LoggedOn DEF Silent
<1>. QED
  BY <1>2, <1>3, <1>4, <1>5, <1>6 DEF d

\* eventTcpRead.
LEMMA RaisedTcpReadContinues ==
  ASSUME NEW c, LocalInv(c), IsLogged(c), NEW n \in Nat
  PROVE  LET r == tcpRead(raise(c, "TcpRead"), n)
         IN  /\ Continues(c, r)
             /\ r.tcpConnected = c.tcpConnected /\ r.udpConnected = c.udpConnected
             /\ r.tcpReceivedData.to \in {c.tcpReceivedData.to, c.tcpReceivedData.to + n}
             /\ ~c.tcpConnected => r.tcpReceivedData.to = c.tcpReceivedData.to
<1>. DEFINE e == "TcpRead"
            d == raise(c, e)
            r == tcpRead(d, n)
<1>. HIDE DEF e
<1>1. /\ HasFields(d) /\ IsLogged(d) /\ Continues(c, d)
      /\ d.tcpConnected = c.tcpConnected /\ d.udpConnected = c.udpConnected
      /\ d.tcpReceivedData = c.tcpReceivedData
  BY RaiseContinues
<1>. HIDE DEF d
<1>2. /\ Continues(d, r)
      /\ r.tcpConnected = d.tcpConnected /\ r.udpConnected = d.udpConnected
      /\ r.tcpReceivedData.to \in {d.tcpReceivedData.to, d.tcpReceivedData.to + n}
      /\ ~d.tcpConnected => r = d
  BY <1>1, TcpReadContinues
<1>. HIDE DEF r
<1>3. Continues(c, r)
  BY <1>1, <1>2, ContinuesChain
<1>. QED
  BY <1>1, <1>2, <1>3 DEF r, d, e

\* eventTcpRead at the end of the TCP host's stream.
LEMMA RaisedTcpReadEofContinues ==
  ASSUME NEW c, LocalInv(c), IsLogged(c)
  PROVE  LET r == tcpRead(closeRead(raise(c, "TcpRead")), 0)
         IN  /\ Continues(c, r)
             /\ r.tcpConnected = c.tcpConnected /\ r.udpConnected = c.udpConnected
             /\ r.tcpReceivedData.to = c.tcpReceivedData.to
<1>. DEFINE e == "TcpRead"
            d == raise(c, e)
            x == closeRead(d)
            z == 0
            r == tcpRead(x, z)
<1>. HIDE DEF e
<1>1. /\ HasFields(d) /\ IsLogged(d) /\ Continues(c, d)
      /\ d.tcpConnected = c.tcpConnected /\ d.udpConnected = c.udpConnected
      /\ d.tcpReceivedData = c.tcpReceivedData
      /\ c.tcpReceivedData \in Chunk
  BY RaiseContinues DEF LocalInv, Base, ConnectionType
<1>. HIDE DEF d
<1>2. Silent(d, x) /\ HasFields(x)
  BY <1>1, CloseReadStays, SilentHasFields
<1>3. /\ x.tcpReceivedData = d.tcpReceivedData
      /\ x.tcpConnected = d.tcpConnected /\ x.udpConnected = d.udpConnected
  BY <1>1 DEF closeRead, HasFields, Fields
<1>. HIDE DEF x
<1>4. Continues(d, x) /\ IsLogged(x)
  <2>1. Continues(d, x)
    BY <1>1, <1>2, <1>3, SilentContinues DEF Silent, Stays
  <2>. QED
    BY <1>1, <2>1, LoggedOn
<1>5. z \in Nat /\ x.tcpReceivedData.to \in Nat /\ x.tcpReceivedData.to + z = x.tcpReceivedData.to
  BY <1>1, <1>3 DEF Chunk
<1>. HIDE DEF z
<1>6. /\ Continues(x, r)
      /\ r.tcpConnected = x.tcpConnected /\ r.udpConnected = x.udpConnected
      /\ r.tcpReceivedData.to \in {x.tcpReceivedData.to, x.tcpReceivedData.to + z}
  BY <1>2, <1>4, <1>5, TcpReadContinues
<1>. HIDE DEF r
<1>7. Continues(c, r)
  BY <1>1, <1>4, <1>6, ContinuesChain
<1>. QED
  BY <1>1, <1>3, <1>5, <1>6, <1>7 DEF r, d, e, x, z

\* eventUdpResend.
LEMMA RaisedUdpResendContinues ==
  ASSUME NEW c, LocalInv(c), NEW expired,
         expired \subseteq DOMAIN c.udpSentPackets \ unsent(c)
  PROVE  LET r == udpResend(raise(c, "UdpResend"), expired)
         IN  Continues(c, r) /\ r.tcpReceivedData.to = c.tcpReceivedData.to
<1>. DEFINE r == udpResend(raise(c, "UdpResend"), expired)
<1>1. r.tcpReceivedData \in Chunk
  BY RaisedUdpResend DEF LocalInv, Base, ConnectionType
<1>2. Idle(c, r) /\ SameLog(c, r)
  BY RaisedUdpResendStays DEF Silent, Stays, Closes
<1>. HIDE DEF r
<1>3. Continues(c, r) /\ r.tcpReceivedData.to = c.tcpReceivedData.to
  BY <1>1, <1>2, SilentContinues DEF SameLog
<1>. QED
  BY <1>3 DEF r

\* The events that read no input.
LEMMA HandleContinues ==
  ASSUME NEW c, LocalInv(c), IsLogged(c), NEW e \in LocalEvents \cup {"TcpClose"}
  PROVE  LET r == handle(c, e)
         IN  /\ Continues(c, r)
             /\ r.tcpReceivedData.to = c.tcpReceivedData.to
             /\ e = "BuildUdpPackets" => r.tcpConnected = c.tcpConnected
             /\ e \in {"BuildUdpPackets", "TcpClose"} => r.udpConnected = c.udpConnected
             /\ e = "TcpClose" => ~r.tcpConnected
<1>. DEFINE d == raise(c, e)
            r == handle(c, e)
            T == TRUE
<1>1. /\ HasFields(d) /\ LeftoverIsPartialIn(d) /\ IsLogged(d) /\ Continues(c, d)
      /\ d.tcpConnected = c.tcpConnected /\ d.udpConnected = c.udpConnected
      /\ d.tcpReceivedData = c.tcpReceivedData
  BY RaiseContinues
<1>2. /\ e = "TcpClose" => r = tcpClose(d, c.socketError)
      /\ e = "BuildUdpPackets" => r = buildUdpPackets(d, T)
  BY DEF handle
<1>3. r.tcpReceivedData \in Chunk
  BY HandleKeeps DEF LocalInv, Base, ConnectionType
<1>. HIDE DEF d, T
<1>4. CASE e = "TcpClose"
  <2>. DEFINE error == c.socketError
              x == tcpClose(d, error)
  <2>. HIDE DEF error
  <2>1. /\ Continues(d, x) /\ x.tcpReceivedData.to = d.tcpReceivedData.to
        /\ x.udpConnected = d.udpConnected
    BY <1>1, TcpCloseContinues
  <2>2. ~x.tcpConnected
    BY <1>1, TcpCloseCloses
  <2>3. r = x
    BY <1>2, <1>4 DEF error
  <2>. HIDE DEF r, x
  <2>4. Continues(c, r)
    BY <1>1, <2>1, <2>3, ContinuesChain
  <2>. QED
    BY <1>1, <1>4, <2>1, <2>2, <2>3, <2>4 DEF r
<1>5. CASE e = "BuildUdpPackets"
  <2>. DEFINE x == buildUdpPackets(d, T)
  <2>1. /\ Continues(d, x) /\ x.tcpReceivedData.to = d.tcpReceivedData.to
        /\ x.udpConnected = d.udpConnected /\ x.tcpConnected = d.tcpConnected
    BY <1>1, BuildUdpPacketsContinues
  <2>2. r = x
    BY <1>2, <1>5
  <2>. HIDE DEF r, x
  <2>3. Continues(c, r)
    BY <1>1, <2>1, <2>2, ContinuesChain
  <2>. QED
    BY <1>1, <1>5, <2>1, <2>2, <2>3 DEF r
<1>6. CASE e \notin {"TcpClose", "BuildUdpPackets"}
  <2>1. Silent(c, r) \/ Closes(c, r)
    BY <1>6, HandleStays DEF LocalEvents, Finishes
  <2>. HIDE DEF r
  <2>2. Idle(c, r) /\ SameLog(c, r)
    BY <2>1 DEF Silent, Stays, Closes
  <2>3. Continues(c, r) /\ r.tcpReceivedData.to = c.tcpReceivedData.to
    BY <1>3, <2>2, SilentContinues DEF SameLog
  <2>. QED
    BY <1>6, <2>3 DEF r
<1>. QED
  BY <1>4, <1>5, <1>6

\* What Socket::Group::poll reports.
LEMMA PolledContinues ==
  ASSUME NEW c, LocalInv(c), NEW error, NEW readable
  PROVE  LET r == polled(c, error, readable)
         IN  Continues(c, r) /\ r.tcpReceivedData.to = c.tcpReceivedData.to
<1>. DEFINE r == polled(c, error, readable)
<1>1. HasFields(c) /\ c.tcpReceivedData \in Chunk
  BY TypedHasFields DEF LocalInv, Base, ConnectionType
<1>2. Idle(c, r) /\ SameLog(c, r)
  BY <1>1, PolledStays
<1>3. r.tcpReceivedData = c.tcpReceivedData
  BY <1>1 DEF polled, closeRead, closeWrite, HasFields, Fields
<1>. HIDE DEF r
<1>4. Continues(c, r) /\ r.tcpReceivedData.to = c.tcpReceivedData.to
  BY <1>1, <1>2, <1>3, SilentContinues
<1>. QED
  BY <1>4 DEF r

\* tcpWrite.
LEMMA RaisedTcpWriteContinues ==
  ASSUME NEW c, LocalInv(c), IsLogged(c), NEW n \in 0 .. udpSendPacketSize
  PROVE  LET r == tcpWrite(raise(c, "TcpWrite"), n)
         IN  Continues(c, r) /\ r.tcpReceivedData.to = c.tcpReceivedData.to
<1>. DEFINE r == tcpWrite(raise(c, "TcpWrite"), n)
<1>1. r.tcpReceivedData \in Chunk
  BY RaisedTcpWrite DEF LocalInv, Base, ConnectionType
<1>2. n \in Nat
  BY PacketSizeAssumption
<1>3. \/ Silent(c, r) \/ Skips(c, r) \/ Ends(c, r)
      \/ \E size \in Int : size <= n /\ Writes(c, r, size)
  BY <1>2, RaisedTcpWriteWrites
<1>. HIDE DEF r
<1>4. CASE Ends(c, r)
  BY <1>4 DEF Ends, r
<1>5. CASE ~Ends(c, r)
  <2>1. Idle(c, r) /\ SameLog(c, r)
    BY <1>3, <1>5 DEF Silent, Stays, Skips, Writes, Advances
  <2>2. Continues(c, r) /\ r.tcpReceivedData.to = c.tcpReceivedData.to
    BY <1>1, <2>1, SilentContinues DEF SameLog
  <2>. QED
    BY <2>2 DEF r
<1>. QED
  BY <1>4, <1>5

\* A datagram of the peer changes nothing of what this end sends, except that
\* the packets it confirms are erased.
LEMMA UdpReadContinues ==
  ASSUME NEW c, LocalInv(c), FinalIsMasterIn(c), NEW m \in Datagram
  PROVE  LET r == udpRead(c, m)
         IN  Continues(c, r) /\ r.tcpReceivedData.to = c.tcpReceivedData.to
<1>. DEFINE r == udpRead(c, m)
<1>1. /\ r.tcpReceivedData \in Chunk /\ c.tcpReceivedData \in Chunk
  BY UdpReadKeeps DEF LocalInv, Base, ConnectionType
<1>2. PICK d : /\ HasFields(d)
               /\ \/ Silent(c, d)
                  \/ c.udpConnected /\ isConfirmation(m) /\ Hears(c, d, m)
                  \/ c.udpConnected /\ Stores(c, d, m)
               /\ r = d \/ Finishes(d, r)
  BY UdpReadReads
<1>. HIDE DEF r
<1>3. SameLog(d, r) /\ Idle(d, r)
  BY <1>2, SelfStays DEF Finishes, Closes, Silent, Stays
<1>4. HasFields(r)
  BY <1>3 DEF Idle
<1>5. SameLog(c, d) /\ (finalReceived(c) => finalReceived(d))
  BY <1>2 DEF Silent, Stays, Hears, Idle, Stores, SameLog, finalReceived
<1>6. SameLog(c, r) /\ (finalReceived(c) => finalReceived(r))
  BY <1>3, <1>5, LogChains DEF Idle, finalReceived
<1>7. Continues(c, r) /\ r.tcpReceivedData.to = c.tcpReceivedData.to
  BY <1>1, <1>4, <1>6, SameLogContinues DEF SameLog
<1>. QED
  BY <1>7 DEF r

\* The Hello of a new connection, wherever the stream of its TCP host starts.
LEMMA NewConnectionIsLogged ==
  ASSUME NEW b \in Nat
  PROVE  LET c == [newConnection EXCEPT !.tcpReceivedData = [from |-> b, to |-> b]]
         IN  \E P : Logged(c, P, b)
<1>. DEFINE P == [i \in {0} |-> Hello]
            c == [newConnection EXCEPT !.tcpReceivedData = [from |-> b, to |-> b]]
<1>1. /\ c.udpNextSendIndex = 1 /\ c.tcpReceivedData = [from |-> b, to |-> b]
      /\ DOMAIN c.udpSentPackets = {0}
      /\ SamePacket(c.udpSentPackets[0], Hello)
      /\ c.tcpConnected /\ c.udpConnected
  BY DEF newConnection, addPacket, onUdpSentBufferChanged, enable, disable, emptyMap, SamePacket, Hello
<1>2. P[0] = Hello /\ P \in [0 .. (1 - 1) -> ReceivedPacket] /\ Hello.type \notin FinalTypes
  BY DEF Hello, ReceivedPacket, DataTypes, FinalTypes
<1>. HIDE DEF P, c
<1>3. PacketLog(c, P, b)
  BY <1>1, <1>2 DEF PacketLog, Chunk, endOf
<1>4. Logged(c, P, b)
  BY <1>1, <1>3 DEF Logged, NothingWaits
<1>. QED
  BY <1>4 DEF c

=============================================================================
