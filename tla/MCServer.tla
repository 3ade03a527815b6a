------------------------------ MODULE MCServer ------------------------------
(* Server for TLC.  Ids are interchangeable; of the addresses, Remote is not. *)
EXTENDS Server, TLC

CONSTANTS t1, t2, u1, u2, u3, c1, c2, c3, a1, a2

MCSymmetry ==
  Permutations(TcpIds) \cup Permutations(UdpIds) \cup Permutations(ConnectionIds)

=============================================================================
