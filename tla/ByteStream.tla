----------------------------- MODULE ByteStream -----------------------------
(***************************************************************************)
(* What a tunnel promises to the two TCP hosts it joins, as if they were   *)
(* joined directly: each gets the bytes of the other in order and once, and*)
(* sees the end of the stream only behind the last byte, unless its end of *)
(* the tunnel is lost.  No packets, no timers, no network.                 *)
(***************************************************************************)
EXTENDS Integers, Sequences

CONSTANTS
  Side,        \* the two ends
  Peer(_),     \* the other end
  MaxChunk     \* bound on the bytes that are taken or given at once

VARIABLES
  sent,    \* sent[s]: how many bytes were taken from the host of s
  got,     \* got[s]: the bytes given to the host of s, by their positions
  open,    \* open[s]: the host of s is connected
  lost     \* lost[s]: the host of s hung up or failed, or s gave its peer up

vars == <<sent, got, open, lost>>

Init ==
  /\ sent = [s \in Side |-> 0]
  /\ got = [s \in Side |-> <<>>]
  /\ open = [s \in Side |-> TRUE]
  /\ lost = [s \in Side |-> FALSE]

Take(s) ==
  /\ open[s]
  /\ \E n \in 1 .. MaxChunk : sent' = [sent EXCEPT ![s] = @ + n]
  /\ UNCHANGED <<got, open, lost>>

\* The next bytes of the peer's host.
Give(s) ==
  /\ open[s]
  /\ \E n \in 1 .. MaxChunk :
       /\ Len(got[s]) + n <= sent[Peer(s)]
       /\ got' = [got EXCEPT ![s] = @ \o [j \in 1 .. n |-> Len(got[s]) + j - 1]]
  /\ UNCHANGED <<sent, open, lost>>

\* The end of the stream: the peer's host is gone and has sent nothing more.
Finish(s) ==
  /\ open[s]
  /\ ~open[Peer(s)]
  /\ Len(got[s]) = sent[Peer(s)]
  /\ open' = [open EXCEPT ![s] = FALSE]
  /\ UNCHANGED <<sent, got, lost>>

\* The end is lost, and its host is disconnected then, later or never.
Lose(s) ==
  /\ lost' = [lost EXCEPT ![s] = TRUE]
  /\ open' \in {open, [open EXCEPT ![s] = FALSE]}
  /\ UNCHANGED <<sent, got>>

Next == \E s \in Side : Take(s) \/ Give(s) \/ Finish(s) \/ Lose(s)

Spec == Init /\ [][Next]_vars

-----------------------------------------------------------------------------
(* What follows from it.                                                   *)

\* Each host has got a prefix of what the other sent.
Prefix ==
  \A s \in Side :
    /\ Len(got[s]) <= sent[Peer(s)]
    /\ \A k \in 1 .. Len(got[s]) : got[s][k] = k - 1

\* A host that is disconnected although its end is not lost has got everything
\* that the other host sent and will ever send.
Complete ==
  \A s \in Side :
    ~open[s] /\ ~lost[s] => ~open[Peer(s)] /\ Len(got[s]) = sent[Peer(s)]

=============================================================================
