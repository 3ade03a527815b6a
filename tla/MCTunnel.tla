------------------------------ MODULE MCTunnel ------------------------------
(* Tunnel for TLC: how many bytes each TCP host sends.                      *)
EXTENDS Tunnel, FiniteSets

CONSTANTS ClientBytes, ServerBytes

MCStreamLen == [s \in Side |-> IF s = "client" THEN ClientBytes ELSE ServerBytes]

\* Bound on the datagrams that are sent: a whole transfer of two bytes takes
\* four packets and, at least, two confirmations.
MaxDatagrams == 6

FewDatagrams == Cardinality(net["client"]) + Cardinality(net["server"]) <= MaxDatagrams

=============================================================================
