--------------------------- MODULE Confirmations ---------------------------
(***************************************************************************)
(* How the received indices travel: the loop of buildConfirmations that    *)
(* packs them as pairs (gap, length of run) into as many Confirmation      *)
(* packets as needed, and the loop of udpRead that unpacks one packet.     *)
(* Module Connection has the set of indices in their place.  The packets   *)
(* are read in any order, and each may be lost.                            *)
(***************************************************************************)
EXTENDS PacketCodec, FiniteSets

CONSTANTS
  MaxIndex,   \* bound on the indices; udpRead takes none above INT_MAX - 1
  Sizes       \* the values of udpSendPacketSize

ASSUME IndexAssumption == MaxIndex \in 0 .. pow2[IntBits - 1] - 2
ASSUME SizesAssumption == Sizes \subseteq Nat

VARIABLES
  master,        \* udpReceivedMasterIndex, in every packet
  received,      \* the domain of udpReceivedPackets
  capacity,      \* confirmationData.size()
  rest,          \* indices that are still to be packed
  prevIndex,     \* the end of the last run
  data,          \* what is packed for the current packet
  packets,       \* udpConfirmationPackets
  building,      \* buildConfirmations has not ended
  failed,        \* it has logged "cannot encode confirmation"
  unread,        \* packets that udpRead has not begun to read
  bytes,         \* what is left of the packet that udpRead reads
  currentIndex,
  confirmed,     \* the indices that the sender has taken for confirmed
  warned         \* it has logged "confirmation packet in wrong format"

sender   == <<rest, prevIndex, data, packets, building, failed>>
receiver == <<unread, bytes, currentIndex, confirmed, warned>>
vars     == <<master, received, capacity, sender, receiver>>

\* What the packets have to say: the map from lower_bound(master) on.
toConfirm == {i \in received : i >= master}

Init ==
  /\ master \in 0 .. MaxIndex + 1
  /\ \E late \in SUBSET (master + 1 .. MaxIndex) :
       received = (0 .. master - 1) \cup late
  /\ capacity \in Sizes
  /\ rest = toConfirm
  /\ prevIndex = master
  /\ data = <<>>
  /\ packets = <<>>
  /\ building = TRUE
  /\ failed = FALSE
  /\ unread = {} /\ bytes = <<>> /\ currentIndex = master
  /\ confirmed = {} /\ warned = FALSE

-----------------------------------------------------------------------------
(* buildConfirmations.                                                     *)

\* The first run of rest is begin .. end - 1.
begin == Min(rest)
end   == Min({i \in begin .. MaxIndex + 1 : i \notin rest})

\* The first gap in a new packet counts from the master index again.
gapAfterSplitFromLast == begin - prevIndex

gapAfterSplit == begin - master

\* Room for the pair is left in the current packet.
PackRun ==
  LET p == packIntPair(begin - prevIndex, end - begin, capacity - Len(data))
  IN  /\ building /\ rest # {}
      /\ p # <<>>
      /\ data' = data \o p
      /\ prevIndex' = end
      /\ rest' = rest \ (begin .. end - 1)
      /\ UNCHANGED <<master, received, capacity, packets, building, failed, receiver>>

\* No room: the packet is queued and the run begins the next one.
NoRoom ==
  /\ building /\ rest # {}
  /\ packIntPair(begin - prevIndex, end - begin, capacity - Len(data)) = <<>>

Split ==
  LET p == packIntPair(gapAfterSplit, end - begin, capacity)
  IN  /\ NoRoom
      /\ p # <<>>
      /\ packets' = Append(packets, data)
      /\ data' = p
      /\ prevIndex' = end
      /\ rest' = rest \ (begin .. end - 1)
      /\ UNCHANGED <<master, received, capacity, building, failed, receiver>>

\* The run does not even fit into a packet of its own: the loop ends.
CannotEncode ==
  /\ NoRoom
  /\ packIntPair(gapAfterSplit, end - begin, capacity) = <<>>
  /\ packets' = Append(packets, data)
  /\ data' = <<>>
  /\ rest' = {}
  /\ failed' = TRUE
  /\ UNCHANGED <<master, received, capacity, prevIndex, building, receiver>>

\* The last packet is queued, empty or not.
Queue ==
  /\ building /\ rest = {}
  /\ packets' = Append(packets, data)
  /\ building' = FALSE
  /\ unread' = 1 .. Len(packets')
  /\ UNCHANGED <<master, received, capacity, rest, prevIndex, data, failed,
                 bytes, currentIndex, confirmed, warned>>

-----------------------------------------------------------------------------
(* udpRead of the peer.                                                    *)

Receive(n) ==
  /\ n \in unread
  /\ bytes = <<>>
  /\ unread' = unread \ {n}
  /\ bytes' = packets[n]
  /\ currentIndex' = master
  /\ UNCHANGED <<master, received, capacity, sender, confirmed, warned>>

Unpack ==
  LET p == unpackIntPair(bytes)
      next == wrap(currentIndex + p.a + p.b)
  IN  /\ bytes # <<>>
      /\ IF p.size = 0
           THEN /\ bytes' = <<>>
                /\ warned' = TRUE
                /\ UNCHANGED <<currentIndex, confirmed>>
           ELSE /\ bytes' = SubSeq(bytes, p.size + 1, Len(bytes))
                /\ currentIndex' = next
                /\ confirmed' = confirmed \cup (next - p.b .. next - 1)
                /\ UNCHANGED warned
      /\ UNCHANGED <<master, received, capacity, sender, unread>>

\* Everything is read.
Finished == ~building /\ unread = {} /\ bytes = <<>>

Next ==
  \/ PackRun \/ Split \/ CannotEncode \/ Queue
  \/ (\E n \in unread : Receive(n)) \/ Unpack
  \/ (Finished /\ UNCHANGED vars)

Spec == Init /\ [][Next]_vars

-----------------------------------------------------------------------------
(* Properties.                                                             *)

\* Packets hold bytes, no more than udpSendPacketSize of them, and the index
\* that udpRead computes stays an index.
TypeOK ==
  /\ \A p \in {data} \cup Range(packets) : p \in Seq(Byte) /\ Len(p) <= capacity
  /\ rest \subseteq toConfirm
  /\ {prevIndex, currentIndex} \subseteq master .. MaxIndex + 1
  /\ unread \subseteq DOMAIN packets
  /\ building \in BOOLEAN /\ failed \in BOOLEAN /\ warned \in BOOLEAN

\* Each packet stands for itself: whichever of the packets that
\* buildConfirmations has split arrive, and in whatever order, udpRead takes
\* only indices for confirmed that were received.
ConfirmsOnlyReceived == confirmed \subseteq toConfirm

\* Splitting loses nothing: when every packet has been read, every received
\* index from the master index on is confirmed, unless one run alone did not
\* fit into a packet and buildConfirmations has said so.
AllConfirmed == Finished /\ ~failed => confirmed = toConfirm

\* udpRead never takes a packet of buildConfirmations for a malformed one, up
\* to the largest int.
NeverMalformed == ~warned

=============================================================================
