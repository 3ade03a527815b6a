---------------------------- MODULE SocketProofs ----------------------------
(***************************************************************************)
(* Proofs for Socket: with edge-triggered reports no readiness is lost,    *)
(* and what has arrived is read before the socket closes for reading, for  *)
(* every size of the kernel's buffers.                                     *)
(***************************************************************************)
EXTENDS Socket, TLAPS

\* What a socket is does not change, and only a stream can connect or die.
KindInv ==
  /\ socket.connected = (type = "stream")
  /\ type # "stream" => kernel.state = "open" /\ ~kernel.fin

\* A socket that was closed for reading by the end of its stream receives
\* nothing more.
EndedInv ==
  socket.open /\ socket.sourceCloseRead /\ ~dropped
    => kernel.fin \/ kernel.state = "dead"

\* A writer that was told to wait has left a note with the kernel.
WaiterInv ==
  /\ socket.open /\ ~socket.sourceCloseWrite
  /\ type # "listener" /\ kernel.state = "open" /\ kernel.space < MinSpace
  => socket.sourceWrite \/ kernel.pending \/ kernel.noSpace

SocketType ==
  [open : BOOLEAN, connected : BOOLEAN, error : BOOLEAN,
   sourceRead : BOOLEAN, sourceWrite : BOOLEAN,
   sourceCloseRead : BOOLEAN, sourceCloseWrite : BOOLEAN, sourceClose : BOOLEAN]

\* The sources of a socket agree (the part of TypeOK about them).
Agrees(s) ==
  /\ s \in SocketType
  /\ s.sourceClose = (s.sourceCloseRead /\ s.sourceCloseWrite)
  /\ s.sourceClose = ~s.open
  /\ s.sourceCloseRead => ~s.sourceRead
  /\ s.sourceCloseWrite => ~s.sourceWrite

-----------------------------------------------------------------------------
(* The operations of the object.                                           *)

\* close closes the socket both ways.
LEMMA CloseCloses ==
  ASSUME NEW s, Agrees(s), NEW e \in BOOLEAN
  PROVE  LET r == close(s, e)
         IN  /\ Agrees(r)
             /\ r.connected = s.connected
             /\ ~r.open /\ r.sourceCloseRead /\ r.sourceCloseWrite
BY DEF close, Agrees, SocketType

\* closeRead ends reading, and leaves writing as it is or closes the socket.
LEMMA CloseReadCloses ==
  ASSUME NEW s, Agrees(s), NEW e \in BOOLEAN
  PROVE  LET r == closeRead(s, e)
         IN  /\ Agrees(r)
             /\ r.connected = s.connected
             /\ r.sourceCloseRead
             /\ r.sourceCloseWrite = s.sourceCloseWrite
             /\ r.sourceWrite = s.sourceWrite
             /\ r.open => s.open
BY DEF closeRead, close, Agrees, SocketType

\* closeWrite ends writing, and leaves reading as it is or closes the socket.
LEMMA CloseWriteCloses ==
  ASSUME NEW s, Agrees(s), NEW e \in BOOLEAN
  PROVE  LET r == closeWrite(s, e)
         IN  /\ Agrees(r)
             /\ r.connected = s.connected
             /\ r.sourceCloseWrite
             /\ r.sourceCloseRead = s.sourceCloseRead
             /\ r.sourceRead = s.sourceRead
             /\ r.open => s.open
BY DEF closeWrite, close, Agrees, SocketType

\* poll makes ready what was reported and is not closed, and closes for
\* reading only if nothing can be read.
LEMMA PolledAgrees ==
  ASSUME NEW s, Agrees(s), NEW E
  PROVE  LET r == polled(s, E)
         IN  /\ Agrees(r)
             /\ r.connected = s.connected
             /\ r.sourceRead = (~r.sourceCloseRead /\ "IN" \in E)
             /\ r.sourceWrite = (~r.sourceCloseWrite /\ "OUT" \in E)
             /\ r.sourceCloseRead => s.sourceCloseRead \/ ("IN" \notin E /\ ~r.open)
             /\ r.open => s.open
<1> DEFINE yes == TRUE
           no  == FALSE
           a == IF hangsUp(s, E) THEN closeWrite(s, no) ELSE s
           b == IF "ERR" \in E THEN closeWrite(a, yes) ELSE a
           c == IF endsReading(b, E) THEN closeRead(b, no) ELSE b
           in  == ~c.sourceCloseRead /\ "IN" \in E
           out == ~c.sourceCloseWrite /\ "OUT" \in E
           r == polled(s, E)
<1>1. r = [c EXCEPT !.sourceRead = in, !.sourceWrite = out]
  BY DEF polled
<1>2. yes \in BOOLEAN /\ no \in BOOLEAN
  OBVIOUS
<1> HIDE DEF yes, no
<1>3. /\ Agrees(a)
      /\ a.connected = s.connected
      /\ a.sourceCloseRead = s.sourceCloseRead
      /\ a.open => s.open
  BY <1>2, CloseWriteCloses
<1> HIDE DEF a
<1>4. /\ Agrees(b)
      /\ b.connected = s.connected
      /\ b.sourceCloseRead = s.sourceCloseRead
      /\ b.open => s.open
  BY <1>2, <1>3, CloseWriteCloses
<1> HIDE DEF b
<1>5. /\ Agrees(c)
      /\ c.connected = s.connected
      /\ c.open => s.open
      /\ c.sourceCloseRead => s.sourceCloseRead \/ ("IN" \notin E /\ ~c.open)
  <2>1. CASE endsReading(b, E)
    BY <1>2, <1>4, <2>1, CloseReadCloses DEF endsReading, Agrees
  <2>2. CASE ~endsReading(b, E)
    BY <1>4, <2>2
  <2> QED  BY <2>1, <2>2
<1>6. in \in BOOLEAN /\ out \in BOOLEAN
  OBVIOUS
<1>7. /\ in = (~c.sourceCloseRead /\ "IN" \in E)
      /\ out = (~c.sourceCloseWrite /\ "OUT" \in E)
  OBVIOUS
<1> HIDE DEF c, in, out, r
<1>8. /\ r \in SocketType
      /\ r.sourceRead = in /\ r.sourceWrite = out
      /\ r.open = c.open /\ r.connected = c.connected
      /\ r.sourceCloseRead = c.sourceCloseRead
      /\ r.sourceCloseWrite = c.sourceCloseWrite
      /\ r.sourceClose = c.sourceClose
  BY <1>1, <1>5, <1>6 DEF Agrees, SocketType
<1>9. Agrees(r)
  BY <1>5, <1>7, <1>8 DEF Agrees
<1>10. /\ r.sourceRead = (~r.sourceCloseRead /\ "IN" \in E)
       /\ r.sourceWrite = (~r.sourceCloseWrite /\ "OUT" \in E)
  BY <1>7, <1>8, Zenon
<1> QED  BY <1>5, <1>8, <1>9, <1>10, Zenon DEF r

-----------------------------------------------------------------------------
(* The invariant.                                                          *)

KernelType ==
  [state : {"connecting", "open", "dead"}, queue : 0 .. MaxQueue,
   fin : BOOLEAN, err : BOOLEAN, space : 0 .. MaxSpace,
   noSpace : BOOLEAN, pending : BOOLEAN]

IInv ==
  /\ type \in {"stream", "datagram", "listener"}
  /\ Agrees(socket)
  /\ kernel \in KernelType
  /\ dropped \in BOOLEAN
  /\ NoLostReadiness /\ ReadBeforeClosed /\ KindInv /\ EndedInv /\ WaiterInv

\* The types are part of the invariant.
LEMMA InvIsTyped == IInv => TypeOK
BY DEF IInv, TypeOK, Agrees, SocketType, KernelType

\* What the kernel knows of a new socket.
LEMMA NewKernelTyped ==
  ASSUME NEW st \in {"connecting", "open", "dead"}
  PROVE  LET k == newKernel(st)
         IN  /\ k \in KernelType
             /\ k.state = st /\ k.queue = 0 /\ k.pending /\ ~k.fin
<1>1. 0 \in 0 .. MaxQueue /\ MaxSpace \in 0 .. MaxSpace
  BY KernelAssumption
<1> QED  BY <1>1 DEF newKernel, KernelType

\* A new socket has its first report on the way; one that could not be
\* created is closed.
LEMMA InvInit == Init => IInv
<1> SUFFICES ASSUME Init PROVE IInv
  OBVIOUS
<1> DEFINE isStream == type = "stream"
           s == newSocket(isStream)
<1>1. isStream \in BOOLEAN
  OBVIOUS
<1>2. Agrees(s) /\ s.connected = isStream /\ ~s.sourceCloseRead
  BY <1>1 DEF newSocket, Agrees, SocketType
<1>3. Agrees(close(s, TRUE)) /\ close(s, TRUE).connected = s.connected
      /\ ~close(s, TRUE).open
  <2> HIDE DEF s
  <2> QED  BY <1>2 DEF close, Agrees, SocketType
<1>4. /\ Agrees(socket) /\ socket.connected = isStream
      /\ socket.open => ~socket.sourceCloseRead
  <2>1. socket = s \/ socket = close(s, TRUE)
    BY DEF Init
  <2> HIDE DEF s
  <2> QED  BY <1>2, <1>3, <2>1
<1>5. /\ kernel \in KernelType /\ kernel.queue = 0 /\ kernel.pending
      /\ type # "stream" => kernel.state = "open" /\ ~kernel.fin
  <2>1. \/ kernel = newKernel("open")
        \/ type = "stream" /\ kernel = newKernel("connecting")
    BY Zenon DEF Init
  <2> HIDE DEF s, isStream
  <2>2. CASE kernel = newKernel("open")
    BY <2>2, NewKernelTyped
  <2>3. CASE type = "stream" /\ kernel = newKernel("connecting")
    BY <2>3, NewKernelTyped
  <2> QED  BY <2>1, <2>2, <2>3
<1>6. NoLostReadiness /\ WaiterInv
  BY <1>5, Zenon DEF NoLostReadiness, WaiterInv
<1>7. EndedInv
  BY <1>4 DEF EndedInv
<1>8. KindInv
  BY <1>4, <1>5 DEF KindInv
<1>9. ReadBeforeClosed
  BY <1>5 DEF ReadBeforeClosed
<1> QED  BY <1>4, <1>5, <1>6, <1>7, <1>8, <1>9 DEF Init, IInv

\* The kernel's steps leave the socket alone and take note of themselves.
LEMMA KernelKeepsInv == IInv /\ Kernel => IInv'
<1> SUFFICES ASSUME IInv, Kernel PROVE IInv'
  OBVIOUS
<1> USE KernelAssumption DEF IInv, NoLostReadiness, ReadBeforeClosed, KindInv, EndedInv,
      WaiterInv, readable, writable, KernelType, Happens
<1>1. CASE Connected    BY <1>1 DEF Connected
<1>2. CASE Arrives
  <2> DEFINE n == kernel.queue + 1
             k == [kernel EXCEPT !.queue = n]
  <2>1. n \in 1 .. MaxQueue
    BY <1>2 DEF Arrives
  <2>2. /\ socket.open /\ kernel' = [k EXCEPT !.pending = TRUE]
        /\ UNCHANGED <<type, socket, dropped>>
    BY <1>2 DEF Arrives
  <2> HIDE DEF n
  <2>3. k \in KernelType /\ k.state = kernel.state /\ k.fin = kernel.fin
    BY <2>1
  <2> HIDE DEF k
  <2>6. /\ kernel' \in KernelType /\ kernel'.pending
        /\ kernel'.state = kernel.state /\ kernel'.fin = kernel.fin
    BY <2>2, <2>3
  <2>4. kernel.state = "open" /\ ~kernel.fin
    BY <1>2 DEF Arrives
  <2>5. ~socket.sourceCloseRead \/ dropped
    BY <2>2, <2>4
  <2> QED  BY <2>2, <2>4, <2>5, <2>6
<1>3. CASE HostCloses   BY <1>3 DEF HostCloses
<1>4. CASE HostResets   BY <1>4 DEF HostResets
<1>5. CASE Fails        BY <1>5 DEF Fails
<1>6. CASE Drains
  <2> DEFINE n == kernel.space + 1
             k == [kernel EXCEPT !.space = n]
  <2>1. /\ n \in 0 .. MaxSpace
        /\ n > kernel.space
        /\ n <= MinSpace \/ kernel.space >= MinSpace
    BY <1>6 DEF Drains
  <2>2. kernel' = IF kernel.noSpace /\ n >= MinSpace
                    THEN [k EXCEPT !.pending = TRUE, !.noSpace = FALSE] ELSE k
    BY <1>6 DEF Drains
  <2> HIDE DEF n
  <2>3. CASE kernel.noSpace /\ n >= MinSpace
    BY <1>6, <2>1, <2>2, <2>3 DEF Drains
  <2>4. CASE ~(kernel.noSpace /\ n >= MinSpace)
    BY <1>6, <2>1, <2>2, <2>4 DEF Drains
  <2> QED  BY <2>3, <2>4
<1> QED  BY <1>1, <1>2, <1>3, <1>4, <1>5, <1>6 DEF Kernel


\* What epoll reports, given what the kernel knows.
LEMMA EventsTell == /\ "IN" \in events <=> readable
                    /\ "OUT" \in events <=> writable
BY DEF events

\* Socket::Group::poll turns the report into readiness, and leaves a note with
\* the kernel where there is none.
LEMMA PollKeepsInv == IInv /\ Poll => IInv'
<1> SUFFICES ASSUME IInv, Poll PROVE IInv'
  OBVIOUS
<1> DEFINE r == polled(socket, events)
<1>1. /\ Agrees(r)
      /\ r.connected = socket.connected
      /\ r.sourceRead = (~r.sourceCloseRead /\ "IN" \in events)
      /\ r.sourceWrite = (~r.sourceCloseWrite /\ "OUT" \in events)
      /\ r.sourceCloseRead => socket.sourceCloseRead \/ ("IN" \notin events /\ ~r.open)
      /\ r.open => socket.open
  BY PolledAgrees DEF IInv
<1>2. /\ socket' = IF events = {} THEN socket ELSE r
      /\ kernel' = [kernel EXCEPT !.pending = FALSE, !.noSpace = @ \/ ~writable]
      /\ type' = type /\ dropped' = dropped
  BY DEF Poll
<1> HIDE DEF r
<1>3. /\ kernel' \in KernelType
      /\ kernel'.state = kernel.state /\ kernel'.queue = kernel.queue
      /\ kernel'.fin = kernel.fin /\ kernel'.space = kernel.space
      /\ ~writable => kernel'.noSpace
  BY <1>2 DEF IInv, KernelType
<1>4. readable' = readable /\ writable' = writable
  BY <1>2, <1>3 DEF readable, writable
<1>5. Agrees(socket') /\ socket'.connected = socket.connected
  BY <1>1, <1>2 DEF IInv
<1>6. /\ readable => socket'.sourceCloseRead \/ socket'.sourceRead
      /\ writable => socket'.sourceCloseWrite \/ socket'.sourceWrite
      /\ socket'.sourceCloseRead =>
           socket.sourceCloseRead \/ (~readable /\ ~socket'.open)
      /\ socket'.open => socket.open
  BY <1>1, <1>2, EventsTell
<1>7. NoLostReadiness'
  BY <1>4, <1>6 DEF NoLostReadiness
<1>8. ReadBeforeClosed'
  <2>1. CASE socket.sourceCloseRead
    BY <1>2, <1>3, <2>1 DEF IInv, ReadBeforeClosed
  <2>2. CASE ~socket'.sourceCloseRead
    BY <2>2 DEF ReadBeforeClosed
  <2>3. CASE ~socket.sourceCloseRead /\ socket'.sourceCloseRead
    <3>1. ~(kernel.queue > 0)
      BY <1>6, <2>3 DEF readable
    <3>2. kernel.queue \in Nat
      BY KernelAssumption DEF IInv, KernelType
    <3> QED  BY <1>3, <3>1, <3>2 DEF ReadBeforeClosed
  <2> QED  BY <2>1, <2>2, <2>3
<1>9. EndedInv'
  BY <1>2, <1>3, <1>6 DEF IInv, EndedInv
<1>10. WaiterInv'
  <2>1. CASE writable
    BY <1>4, <1>6, <2>1 DEF WaiterInv
  <2>2. CASE ~writable
    BY <1>3, <2>2 DEF WaiterInv
  <2> QED  BY <2>1, <2>2
<1>11. KindInv'
  BY <1>2, <1>3, <1>5 DEF IInv, KindInv
<1> QED
  BY <1>2, <1>3, <1>5, <1>7, <1>8, <1>9, <1>10, <1>11 DEF IInv

\* Reading takes from the queue, and leaves it not larger.
LEMMA ReadKeepsInv == IInv /\ Read => IInv'
<1> SUFFICES ASSUME IInv, Read PROVE IInv'
  OBVIOUS
<1>1. PICK n \in 1 .. kernel.queue : kernel' = [kernel EXCEPT !.queue = @ - n]
  BY DEF Read
<1>2. /\ socket' = socket /\ type' = type /\ dropped' = dropped
      /\ socket.open /\ socket.sourceRead
  BY DEF Read, canRead
<1> DEFINE m == kernel.queue - n
<1>3. m \in 0 .. MaxQueue /\ m < kernel.queue /\ kernel.queue > 0
  BY KernelAssumption DEF IInv, KernelType
<1>4. kernel' = [kernel EXCEPT !.queue = m]
  BY <1>1
<1> HIDE DEF m
<1>5. /\ kernel' \in KernelType
      /\ kernel'.state = kernel.state /\ kernel'.queue = m
      /\ kernel'.fin = kernel.fin /\ kernel'.space = kernel.space
      /\ kernel'.noSpace = kernel.noSpace /\ kernel'.pending = kernel.pending
  BY <1>3, <1>4 DEF IInv, KernelType
<1>6. writable' = writable
  BY <1>2, <1>5 DEF writable
<1>7. NoLostReadiness'
  BY <1>2, <1>5, <1>6 DEF IInv, NoLostReadiness
<1>8. ~socket.sourceCloseRead
  BY <1>2 DEF IInv, Agrees
<1>9. /\ ReadBeforeClosed' /\ KindInv' /\ EndedInv' /\ WaiterInv'
  BY <1>2, <1>5, <1>8 DEF IInv, ReadBeforeClosed, KindInv, EndedInv, WaiterInv
<1> QED  BY <1>2, <1>5, <1>7, <1>9 DEF IInv

\* Writing takes space, and only for a socket that stays ready.
LEMMA WriteKeepsInv == IInv /\ Write => IInv'
<1> SUFFICES ASSUME IInv, Write PROVE IInv'
  OBVIOUS
<1>1. PICK n \in 1 .. kernel.space : kernel' = [kernel EXCEPT !.space = @ - n]
  BY DEF Write
<1>2. /\ socket' = socket /\ type' = type /\ dropped' = dropped
      /\ socket.open /\ socket.sourceWrite
  BY DEF Write, canWrite
<1> DEFINE m == kernel.space - n
<1>3. m \in 0 .. MaxSpace
  BY KernelAssumption DEF IInv, KernelType
<1>4. kernel' = [kernel EXCEPT !.space = m]
  BY <1>1
<1> HIDE DEF m
<1>5. /\ kernel' \in KernelType
      /\ kernel'.state = kernel.state /\ kernel'.queue = kernel.queue
      /\ kernel'.fin = kernel.fin
      /\ kernel'.noSpace = kernel.noSpace /\ kernel'.pending = kernel.pending
  BY <1>3, <1>4 DEF IInv, KernelType
<1>6. readable' = readable
  BY <1>2, <1>5 DEF readable
<1>7. NoLostReadiness'
  BY <1>2, <1>5, <1>6 DEF IInv, NoLostReadiness
<1>8. /\ ReadBeforeClosed' /\ KindInv' /\ EndedInv' /\ WaiterInv'
  BY <1>2, <1>5 DEF IInv, ReadBeforeClosed, KindInv, EndedInv, WaiterInv
<1> QED  BY <1>2, <1>5, <1>7, <1>8 DEF IInv

\* The owner may close a socket although something waits.
LEMMA OwnerKeepsInv == IInv /\ (OwnerClosesRead \/ OwnerCloses) => IInv'
<1> SUFFICES ASSUME IInv, OwnerClosesRead \/ OwnerCloses PROVE IInv'
  OBVIOUS
<1> DEFINE no == FALSE
           half == closeRead(socket, no)
           full == close(socket, no)
<1>1. no \in BOOLEAN
  OBVIOUS
<1>2. type' = type /\ kernel' = kernel /\ dropped' \in BOOLEAN
  BY DEF OwnerClosesRead, OwnerCloses
<1>3. readable' = readable /\ writable' = writable
  BY <1>2 DEF readable, writable
<1>4. CASE OwnerClosesRead
  <2>1. socket' = half /\ dropped'
    BY <1>4 DEF OwnerClosesRead
  <2> HIDE DEF no
  <2>2. /\ Agrees(half)
        /\ half.connected = socket.connected
        /\ half.sourceCloseRead
        /\ half.sourceCloseWrite = socket.sourceCloseWrite
        /\ half.sourceWrite = socket.sourceWrite
        /\ half.open => socket.open
    BY <1>1, CloseReadCloses DEF IInv
  <2> HIDE DEF half
  <2>3. NoLostReadiness'
    BY <1>2, <1>3, <2>1, <2>2 DEF IInv, NoLostReadiness
  <2>4. ReadBeforeClosed' /\ EndedInv'
    BY <2>1 DEF ReadBeforeClosed, EndedInv
  <2>5. KindInv' /\ WaiterInv'
    BY <1>2, <2>1, <2>2 DEF IInv, KindInv, WaiterInv
  <2> QED  BY <1>2, <2>1, <2>2, <2>3, <2>4, <2>5 DEF IInv
<1>5. CASE OwnerCloses
  <2>1. socket' = full /\ (dropped \/ ~socket.sourceCloseRead => dropped')
    BY <1>5 DEF OwnerCloses
  <2> HIDE DEF no
  <2>2. Agrees(full) /\ full.connected = socket.connected /\ ~full.open
    BY <1>1, CloseCloses DEF IInv
  <2> HIDE DEF full
  <2>3. NoLostReadiness' /\ EndedInv' /\ WaiterInv'
    BY <2>1, <2>2 DEF NoLostReadiness, EndedInv, WaiterInv
  <2>4. ReadBeforeClosed'
    BY <1>2, <2>1 DEF IInv, ReadBeforeClosed
  <2>5. KindInv'
    BY <1>2, <2>1, <2>2 DEF IInv, KindInv
  <2> QED  BY <1>2, <2>1, <2>2, <2>3, <2>4, <2>5 DEF IInv
<1> QED  BY <1>4, <1>5

\* EAGAIN: a socket with nothing to read, or no space to write, is not ready.
LEMMA AgainKeepsInv == IInv /\ (ReadAgain \/ WriteAgain) => IInv'
<1> SUFFICES ASSUME IInv, ReadAgain \/ WriteAgain PROVE IInv'
  OBVIOUS
<1>1. type' = type /\ dropped' = dropped
  BY DEF ReadAgain, WriteAgain
<1>2. CASE ReadAgain
  <2>1. kernel' = kernel /\ socket' = [socket EXCEPT !.sourceRead = FALSE]
    BY <1>2 DEF ReadAgain, afterError
  <2>2. /\ Agrees(socket') /\ ~socket'.sourceRead
        /\ socket'.open = socket.open /\ socket'.connected = socket.connected
        /\ socket'.sourceCloseRead = socket.sourceCloseRead
        /\ socket'.sourceCloseWrite = socket.sourceCloseWrite
        /\ socket'.sourceWrite = socket.sourceWrite
    BY <2>1 DEF IInv, Agrees, SocketType
  <2>3. readable' = readable /\ writable' = writable
    BY <1>1, <2>1 DEF readable, writable
  <2>4. ~readable
    BY <1>2 DEF ReadAgain, emptyQueue, readable
  <2>5. NoLostReadiness'
    BY <2>1, <2>2, <2>3, <2>4 DEF IInv, NoLostReadiness
  <2>6. ReadBeforeClosed' /\ KindInv' /\ EndedInv' /\ WaiterInv'
    BY <1>1, <2>1, <2>2 DEF IInv, ReadBeforeClosed, KindInv, EndedInv, WaiterInv
  <2> QED  BY <1>1, <2>1, <2>2, <2>5, <2>6 DEF IInv
<1>3. CASE WriteAgain
  <2>1. /\ kernel' = [kernel EXCEPT !.noSpace = TRUE]
        /\ socket' = [socket EXCEPT !.sourceWrite = FALSE]
    BY <1>3 DEF WriteAgain
  <2>2. /\ Agrees(socket') /\ ~socket'.sourceWrite
        /\ socket'.open = socket.open /\ socket'.connected = socket.connected
        /\ socket'.sourceCloseRead = socket.sourceCloseRead
        /\ socket'.sourceCloseWrite = socket.sourceCloseWrite
        /\ socket'.sourceRead = socket.sourceRead
    BY <2>1 DEF IInv, Agrees, SocketType
  <2>3. /\ kernel' \in KernelType /\ kernel'.noSpace
        /\ kernel'.state = kernel.state /\ kernel'.queue = kernel.queue
        /\ kernel'.fin = kernel.fin /\ kernel'.space = kernel.space
        /\ kernel'.pending = kernel.pending
    BY <2>1 DEF IInv, KernelType
  <2>4. readable' = readable /\ writable' = writable
    BY <1>1, <2>3 DEF readable, writable
  <2>5. ~writable
    BY <1>3, KernelAssumption DEF WriteAgain, writable
  <2>6. NoLostReadiness'
    BY <2>2, <2>3, <2>4, <2>5 DEF IInv, NoLostReadiness
  <2>7. ReadBeforeClosed' /\ KindInv' /\ EndedInv' /\ WaiterInv'
    BY <1>1, <2>2, <2>3 DEF IInv, ReadBeforeClosed, KindInv, EndedInv, WaiterInv
  <2> QED  BY <1>1, <2>2, <2>3, <2>6, <2>7 DEF IInv
<1> QED  BY <1>2, <1>3

\* All that the program does, one case per call.
LEMMA ProgramKeepsInv == IInv /\ Program => IInv'
<1> SUFFICES ASSUME IInv, Program PROVE IInv'
  OBVIOUS
<1>1. CASE ReadFails \/ ReadEnd \/ WriteFails
  <2> USE KernelAssumption DEF IInv, NoLostReadiness, ReadBeforeClosed, KindInv,
        EndedInv, WaiterInv, readable, writable, KernelType
  <2>1. CASE ReadFails   BY <2>1 DEF ReadFails, canRead, afterError
  <2>2. CASE ReadEnd
    BY <2>2 DEF ReadEnd, canRead, emptyQueue, closeRead, close, Agrees, SocketType
  <2>3. CASE WriteFails  BY <2>3 DEF WriteFails
  <2> QED  BY <1>1, <2>1, <2>2, <2>3
<1> QED
  BY <1>1, PollKeepsInv, ReadKeepsInv, WriteKeepsInv, AgainKeepsInv, OwnerKeepsInv
     DEF Program

\* Stuttering keeps it.
LEMMA StutterKeepsInv == IInv /\ UNCHANGED vars => IInv'
BY DEF vars, IInv, NoLostReadiness, ReadBeforeClosed, KindInv, EndedInv, WaiterInv,
       readable, writable

\* The inductive invariant holds in every state of a socket.
THEOREM Invariance == Spec => []IInv
<1>1. IInv /\ [Next]_vars => IInv'
  BY KernelKeepsInv, ProgramKeepsInv, StutterKeepsInv DEF Next
<1> QED  BY InvInit, <1>1, PTL DEF Spec

-----------------------------------------------------------------------------
(* The theorems.                                                           *)

\* The sources of a socket agree with each other and with the descriptor that
\* Socket::close gives up, whatever poll reports and the owner does.
THEOREM TypeCorrect == Spec => []TypeOK
BY Invariance, InvIsTyped, PTL

\* Edge-triggered reports are enough: what can be read or written has its source
\* ready, or a report that Socket::Group::poll has yet to fetch.
THEOREM ReadinessIsKept == Spec => []NoLostReadiness
<1>1. IInv => NoLostReadiness
  BY DEF IInv
<1> QED  BY <1>1, Invariance, PTL

\* A hangup or an error seen by Socket::Group::poll never closes a socket for
\* reading before what has arrived is read.
THEOREM ArrivedIsRead == Spec => []ReadBeforeClosed
<1>1. IInv => ReadBeforeClosed
  BY DEF IInv
<1> QED  BY <1>1, Invariance, PTL

=============================================================================
