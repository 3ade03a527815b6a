---------------------------- MODULE SpeedControl ----------------------------
(***************************************************************************)
(* The speed control of a connection: Measure (connection.h), onUdpSent    *)
(* and onUdpDelivered (connection.cpp) with the calls that udpWrite,       *)
(* udpResend and udpRead make of them, and the initial interval that the   *)
(* server gives a new connection.                                          *)
(*                                                                         *)
(* The double arithmetic of onUdpDelivered is exact here, on fractions     *)
(* <<numerator, denominator>>.  Time is kept only where it counts: as the  *)
(* length of each measure.                                                 *)
(***************************************************************************)
EXTENDS Integers, Sequences, SequencesExt

CONSTANTS
  udpInitialSendIntervalUs, udpResendUs, udpResendCount,
  udpMaxSendLossPercent, udpMaxSentMeasureSize, udpMaxSentMeasureUs,
  Others,       \* the intervals of the server's other busy connections: choices
  Delays,       \* microseconds between two packets; negative: the clock is set back
  Sizes,        \* payload sizes of a packet after the Hello
  MaxPackets    \* bound on the packets of the connection

ASSUME SettingsAssumption ==
  /\ udpInitialSendIntervalUs \in Nat \ {0}
  /\ udpResendUs \in Nat /\ udpResendUs >= 3
  /\ udpResendCount \in Nat
  /\ udpMaxSendLossPercent \in 0 .. 99
  /\ udpMaxSentMeasureSize \in Nat \ {0}
  /\ udpMaxSentMeasureUs \in Nat
ASSUME InputsAssumption ==
  /\ Others \subseteq Seq(Nat)
  /\ Delays \subseteq Int
  /\ Sizes \subseteq Nat
  /\ MaxPackets \in Nat \ {0}

VARIABLES
  udpConnected,
  udpSendIntervalUs,
  udpSendMeasureIndex,
  udpSendMeasures,     \* index -> Measure
  udpSentPackets,      \* the packets sent at least once and not confirmed
  udpNextSendIndex,
  others,              \* the intervals of the other connections
  evaluations,         \* history: the measures that set the interval, in order
  twice                \* history: measures with a packet that failed and arrived

vars == <<udpConnected, udpSendIntervalUs, udpSendMeasureIndex, udpSendMeasures,
          udpSentPackets, udpNextSendIndex, others, evaluations, twice>>

-----------------------------------------------------------------------------
(* Fractions.                                                              *)

Fraction == Nat \X Nat
less(a, b)  == a[1] * b[2] < b[1] * a[2]
over(a, b)  == <<a[1] * b[2], a[2] * b[1]>>
round(a)    == (2 * a[1] + a[2]) \div (2 * a[2])
ceil(a)     == (a[1] + a[2] - 1) \div a[2]
clamp(low, high) ==
  [a \in Fraction |-> IF less(a, low) THEN low ELSE IF less(high, a) THEN high ELSE a]

-----------------------------------------------------------------------------
(* The interval.                                                           *)

maxIntervalUs == udpResendUs \div 3

\* Server::getUdpInitialIntervalUs: the share of one more connection.  Speeds
\* are added up as fractions; the other connections are the busy ones.
summarySpeed(intervals) ==
  LET sum[n \in 0 .. Len(intervals)] ==
        IF n = 0 THEN <<0, 1>>
        ELSE LET us == Max({10, intervals[n]})
             IN  <<sum[n - 1][1] * us + sum[n - 1][2], sum[n - 1][2] * us>>
  IN  sum[Len(intervals)]

getUdpInitialIntervalUs(intervals) ==
  LET least == <<1, 4 * udpInitialSendIntervalUs>>
      sum   == summarySpeed(intervals)
      speed == IF less(sum, least) THEN least ELSE sum
      share == Min({ceil(over(<<Len(intervals) + 1, 1>>, speed)), maxIntervalUs})
  IN  IF intervals = <<>> THEN udpInitialSendIntervalUs
      ELSE Max({share, udpInitialSendIntervalUs \div 2})

\* How much faster a measure allows to send.  A measure that lasted more than
\* twice as long as its intervals ask for allows nothing.
isIdleNever(m) == FALSE           \* mutant: an idle connection speeds up

isIdle(m) == m.durationUs > 2 * (m.summaryIntervalUs + m.count)

successPartOfLosses(m) == <<m.failSize, m.size>>   \* mutant: the part that was lost

successPart(m) == <<m.successSize, m.size>>

speedAmplifier(m) ==
  LET a == IF m.failSize <= 0 THEN <<2, 1>>
           ELSE over(successPart(m), <<100 - udpMaxSendLossPercent, 100>>)
  IN  IF less(<<1, 1>>, a) /\ isIdle(m) THEN <<1, 1>>
      ELSE clamp(<<1, 2>>, <<2, 1>>)[a]

\* The speed 1/maxIntervalUs is added, to balance connections.
withAddedSpeed[f \in Fraction] ==
  <<f[1] * maxIntervalUs, f[2] * maxIntervalUs + f[1]>>

\* The interval after measure m: its mean interval, amplified.
intervalAfter(m) ==
  LET f == over(<<m.summaryIntervalUs, m.count>>, speedAmplifier(m))
  IN  round(clamp(<<1, 10>>, <<maxIntervalUs, 1>>)[withAddedSpeed[f]])

-----------------------------------------------------------------------------
(* Measures.                                                               *)

\* durationUs is the time since beginUs, and from the end on endUs - beginUs.
Measure == [durationUs : Int, ended : BOOLEAN, count : Nat, size : Nat,
            successSize : Nat, failSize : Nat, summaryIntervalUs : Nat]

newMeasure == [durationUs |-> 0, ended |-> FALSE, count |-> 0, size |-> 0,
               successSize |-> 0, failSize |-> 0, summaryIntervalUs |-> 0]

\* onUdpSent: the packet counts for the current measure, which it may end.
sentIn(m, size, delay) ==
  LET n == [m EXCEPT !.count = @ + 1, !.size = @ + size,
                     !.summaryIntervalUs = @ + udpSendIntervalUs,
                     !.durationUs = @ + delay]
  IN  [n EXCEPT !.ended = \/ n.size >= udpMaxSentMeasureSize
                          \/ n.durationUs >= udpMaxSentMeasureUs]

onUdpSent(size, delay) ==
  LET i == udpSendMeasureIndex
      m == sentIn(udpSendMeasures[i], size, delay)
  IN  IF i \notin DOMAIN udpSendMeasures
        THEN UNCHANGED <<udpSendMeasureIndex, udpSendMeasures>>
      ELSE IF m.ended
        THEN /\ udpSendMeasureIndex' = i + 1
             /\ udpSendMeasures' = [j \in DOMAIN udpSendMeasures \cup {i + 1} |->
                  IF j = i THEN m ELSE IF j = i + 1 THEN newMeasure ELSE udpSendMeasures[j]]
        ELSE /\ udpSendMeasures' = [udpSendMeasures EXCEPT ![i] = m]
             /\ UNCHANGED udpSendMeasureIndex

\* Every byte of the measure is answered for.
isCompleteEarly(m) ==             \* mutant: the first answer counts for all
  m.ended /\ m.durationUs >= 0 /\ m.count > 0 /\ m.successSize + m.failSize > 0

isCompleteOnSuccess(m) ==         \* mutant: losses are not taken for answers
  m.ended /\ m.durationUs >= 0 /\ m.count > 0 /\ m.successSize >= m.size

isComplete(m) ==
  m.ended /\ m.durationUs >= 0 /\ m.count > 0 /\ m.successSize + m.failSize >= m.size

\* The measures that stay when measure i is done with: those after it.
measuresAfterNone(i) == {}        \* mutant: the current measure goes as well

measuresAfterOthers(i) == {j \in DOMAIN udpSendMeasures : j # i}   \* mutant

measuresAfter(i) == {j \in DOMAIN udpSendMeasures : j > i}

\* onUdpDelivered for packet p: the measure may be gone already.
onUdpDelivered(success, p) ==
  LET i == p.measureIndex
      m == IF success THEN [udpSendMeasures[i] EXCEPT !.successSize = @ + p.size]
                      ELSE [udpSendMeasures[i] EXCEPT !.failSize = @ + p.size]
  IN  IF i \in DOMAIN udpSendMeasures /\ isComplete(m)
        THEN /\ udpSendIntervalUs' = intervalAfter(m)
             /\ udpSendMeasures' =
                  [j \in measuresAfter(i) |-> udpSendMeasures[j]]
             /\ evaluations' = Append(evaluations,
                  [index |-> i, measure |-> m, interval |-> udpSendIntervalUs'])
        ELSE /\ udpSendMeasures' = IF i \in DOMAIN udpSendMeasures
                  THEN [udpSendMeasures EXCEPT ![i] = m] ELSE udpSendMeasures
             /\ UNCHANGED <<udpSendIntervalUs, evaluations>>

-----------------------------------------------------------------------------
(* The calls.                                                              *)

noPackets == [i \in {} |-> 0]
waiting == {i \in DOMAIN udpSentPackets : ~udpSentPackets[i].sent}

\* udpWrite: the first packet that is not sent, one to be sent again or else a
\* new one; the first of all is the Hello, without payload.  The packet belongs
\* to the measure that was current before onUdpSent.
nextPackets ==
  LET i == IF waiting # {} THEN Min(waiting) ELSE udpNextSendIndex
  IN  IF i \in waiting THEN {<<i, udpSentPackets[i]>>}
      ELSE {<<i, [size |-> size, sent |-> FALSE, measureIndex |-> 0,
                  remainResendCount |-> udpResendCount]>> :
              size \in IF i = 0 THEN {0} ELSE IF i < MaxPackets THEN Sizes ELSE {}}

measureOfSentLate == udpSendMeasureIndex'   \* mutant: taken after onUdpSent

measureOfSent == udpSendMeasureIndex

UdpWrite(i, p, delay) ==
  /\ udpConnected
  /\ onUdpSent(p.size, delay)
  /\ udpSentPackets' = [j \in DOMAIN udpSentPackets \cup {i} |->
       IF j = i THEN [p EXCEPT !.sent = TRUE, !.measureIndex = measureOfSent]
                ELSE udpSentPackets[j]]
  /\ udpNextSendIndex' = Max({udpNextSendIndex, i + 1})
  /\ UNCHANGED <<udpConnected, udpSendIntervalUs, others, evaluations, twice>>

\* udpResend: a packet whose time has run out is to be sent again; if it has no
\* resends left the UDP side is closed and all packets are dropped.  Several
\* packets that one call finds expired, and several that one Confirmation
\* confirms below, are taken one after another: no other handler of the
\* connection touches the measures or the packets in a way that would tell.
UdpResend(i) ==
  LET p == udpSentPackets[i]
  IN  /\ udpConnected
      /\ IF p.remainResendCount > 0
           THEN /\ onUdpDelivered(FALSE, p)
                /\ udpSentPackets' = [udpSentPackets EXCEPT ![i].sent = FALSE,
                                        ![i].remainResendCount = @ - 1]
                /\ UNCHANGED udpConnected
           ELSE /\ udpConnected' = FALSE
                /\ udpSentPackets' = noPackets
                /\ UNCHANGED <<udpSendIntervalUs, udpSendMeasures, evaluations>>
      /\ UNCHANGED <<udpSendMeasureIndex, udpNextSendIndex, others, twice>>

\* udpRead of a Confirmation.  A packet that waits to be sent again has been
\* counted as failed and is now counted as delivered as well.
UdpReadConfirmation(i) ==
  /\ udpConnected
  /\ onUdpDelivered(TRUE, udpSentPackets[i])
  /\ udpSentPackets' = [j \in DOMAIN udpSentPackets \ {i} |-> udpSentPackets[j]]
  /\ twice' = twice \cup {udpSentPackets[j].measureIndex : j \in {i} \cap waiting}
  /\ UNCHANGED <<udpConnected, udpSendMeasureIndex, udpNextSendIndex, others>>

Init ==
  /\ others \in Others
  /\ udpConnected = TRUE
  /\ udpSendIntervalUs = getUdpInitialIntervalUs(others)
  /\ udpSendMeasureIndex = 0
  /\ udpSendMeasures = [i \in {0} |-> newMeasure]
  /\ udpSentPackets = noPackets
  /\ udpNextSendIndex = 0
  /\ evaluations = <<>>
  /\ twice = {}

sentPackets == DOMAIN udpSentPackets \ waiting

\* Nothing is left to be sent or answered, or the peer was given up.
Quiet ==
  /\ ~udpConnected \/ (udpNextSendIndex = MaxPackets /\ DOMAIN udpSentPackets = {})
  /\ UNCHANGED vars

Next ==
  \/ \E next \in nextPackets, delay \in Delays : UdpWrite(next[1], next[2], delay)
  \/ \E i \in sentPackets : UdpResend(i)
  \/ \E i \in DOMAIN udpSentPackets : UdpReadConfirmation(i)
  \/ Quiet

Spec == Init /\ [][Next]_vars

\* A packet that stays unconfirmed expires.
FairSpec == Spec /\ WF_vars(\E i \in sentPackets : UdpResend(i))

-----------------------------------------------------------------------------
(* Properties.                                                             *)

\* The fields have their types, and the measure that udpWrite counts for is
\* there: onUdpDelivered only erases measures that have ended.
TypeOK ==
  /\ udpConnected \in BOOLEAN
  /\ udpSendIntervalUs \in 0 .. Max({maxIntervalUs, udpInitialSendIntervalUs})
  /\ udpSendMeasureIndex \in DOMAIN udpSendMeasures
  /\ \A i \in DOMAIN udpSendMeasures :
       /\ udpSendMeasures[i] \in Measure
       /\ udpSendMeasures[i].ended <=> i # udpSendMeasureIndex
  /\ \A i \in DOMAIN udpSentPackets :
       udpSentPackets[i] \in [size : Nat, sent : BOOLEAN, remainResendCount : Nat,
                              measureIndex : 0 .. udpSendMeasureIndex]
  /\ udpNextSendIndex \in 0 .. MaxPackets
  /\ others \in Others
  /\ twice \subseteq 0 .. udpSendMeasureIndex

\* A measure never has more bytes delivered, or more bytes lost, than were sent
\* in it: the part that onUdpDelivered computes from them is at most 1, and it
\* is not 0/0 when the lost bytes make it count.
AnsweredWereSent ==
  \A i \in DOMAIN udpSendMeasures :
    LET m == udpSendMeasures[i] IN m.successSize <= m.size /\ m.failSize <= m.size

\* The send interval, by which onUdpSentBufferChanged divides, is 0 only after a
\* measure without losses, or with fewer than udpMaxSendLossPercent allows, whose
\* packets were sent within 6 microseconds each.
ZeroOnlyIfFast ==
  udpSendIntervalUs = 0 =>
    \E k \in 1 .. Len(evaluations) :
      LET m == evaluations[k].measure
      IN  /\ \/ m.failSize = 0
             \/ 100 * m.successSize > (100 - udpMaxSendLossPercent) * m.size
          /\ m.durationUs < 6 * m.count

\* Measures set the interval in the order in which they were sent, although
\* their answers come in any order: no old result replaces a newer one.
EvaluatedInOrder ==
  \A k \in 1 .. Len(evaluations) - 1 : evaluations[k].index < evaluations[k + 1].index

\* When a measure sets the interval every packet with payload that was sent in
\* it has been answered, unless one of them was counted twice: as lost when its
\* time ran out and as delivered when its confirmation came before the resend.
EvaluatedIsAnswered ==
  \A k \in 1 .. Len(evaluations) : evaluations[k].index \notin twice =>
    \A i \in sentPackets :
      udpSentPackets[i].measureIndex = evaluations[k].index => udpSentPackets[i].size = 0

\* A measure with more losses than udpMaxSendLossPercent allows never amplifies
\* the speed: the connection gets no faster than the mean of the measure and
\* the constant speed that every evaluation adds.
LossNeverAmplifies ==
  \A k \in 1 .. Len(evaluations) :
    LET m == evaluations[k].measure
    IN  /\ m.failSize > 0
        /\ 100 * m.successSize < (100 - udpMaxSendLossPercent) * m.size
        => evaluations[k].interval >= round(withAddedSpeed[<<m.summaryIntervalUs, m.count>>])

\* A measure that has ended sets the interval, or is dropped with an older one,
\* unless the peer is given up or the clock was set back meanwhile.
MeasureIsEvaluated ==
  \A i \in 0 .. MaxPackets :
    i \in DOMAIN udpSendMeasures /\ udpSendMeasures[i].ended /\ udpSendMeasures[i].durationUs >= 0
      ~> i \notin DOMAIN udpSendMeasures \/ ~udpConnected

=============================================================================
