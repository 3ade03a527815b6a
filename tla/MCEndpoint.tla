----------------------------- MODULE MCEndpoint -----------------------------
(* Endpoint for TLC: the packets a peer with a short stream could send, and *)
(* confirmations of any of the first packets.                               *)
EXTENDS Endpoint

CONSTANT MaxIndex    \* the largest index a datagram carries

MCPackets ==
  {datagram("Hello", 0, 0, 0, {})}
  \cup {datagram("Data", i, 0, udpSendPacketSize, {}) : i \in 1 .. MaxIndex}
  \cup {datagram("Bye", i, 0, 0, {}) : i \in 1 .. MaxIndex}
  \cup {datagram("ByeBye", i, 0, 0, {}) : i \in 1 .. MaxIndex + 1}

\* A Confirmation with every set of confirmed packets up to MaxIndex, each
\* written the one way in which the master index is the first that is missing.
MCConfirmations(last) ==
  UNION {{datagram("Confirmation", i, 0, 0, a) : a \in SUBSET (i + 1 .. last)} :
           i \in 0 .. MaxIndex + 1}

MCDatagrams == MCPackets \cup MCConfirmations(MaxIndex)

\* Without selective confirmations.
MCFewDatagrams == MCPackets \cup MCConfirmations(-1)

=============================================================================
