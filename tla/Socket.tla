------------------------------- MODULE Socket -------------------------------
(***************************************************************************)
(* A socket (class Socket, socket.h and socket.linux.cpp) between its      *)
(* owner and the kernel.  The owner sees five sources: ready for reading,  *)
(* for writing, closed for reading, for writing, closed.  The kernel       *)
(* reports changes through an edge-triggered epoll set: once per change,   *)
(* whatever the owner does with the report.                                *)
(*                                                                         *)
(* A socket is a connected TCP stream, a UDP socket or a TCP listener.     *)
(* What waits in the kernel is counted: bytes, datagrams or connections.   *)
(***************************************************************************)
EXTENDS Integers

CONSTANTS
  MaxQueue,     \* bound on what waits to be read
  MaxSpace,     \* size of the send buffer
  MinSpace      \* free space from which the kernel calls the socket writable

ASSUME KernelAssumption ==
  /\ MaxQueue \in Nat \ {0}
  /\ MaxSpace \in Nat \ {0}
  /\ MinSpace \in 1 .. MaxSpace

VARIABLES
  type,       \* "stream", "datagram", "listener"
  socket,     \* the object: its fd, its flags and its sources
  kernel,     \* what the kernel knows of it
  dropped     \* history: the owner has closed the socket for reading

vars == <<type, socket, kernel, dropped>>

-----------------------------------------------------------------------------
(* The object.                                                             *)

\* The constructor for a socket that could be created and registered.
newSocket(connected) ==
  [open |-> TRUE, connected |-> connected, error |-> FALSE,
   sourceRead |-> FALSE, sourceWrite |-> FALSE,
   sourceCloseRead |-> FALSE, sourceCloseWrite |-> FALSE, sourceClose |-> FALSE]

close(s, error) ==
  [s EXCEPT !.open = FALSE, !.error = @ \/ error,
            !.sourceRead = FALSE, !.sourceWrite = FALSE,
            !.sourceCloseRead = TRUE, !.sourceCloseWrite = TRUE,
            !.sourceClose = TRUE]

closeRead(s, error) ==
  LET t == [s EXCEPT !.error = @ \/ error]
  IN  IF t.sourceCloseRead THEN t
      ELSE IF t.sourceCloseWrite THEN close(t, FALSE)
      ELSE [t EXCEPT !.sourceRead = FALSE, !.sourceCloseRead = TRUE]

closeWriteOnly(s, error) ==       \* mutant: a socket closed both ways stays open
  [s EXCEPT !.error = @ \/ error, !.sourceWrite = FALSE, !.sourceCloseWrite = TRUE]

closeWrite(s, error) ==
  LET t == [s EXCEPT !.error = @ \/ error]
  IN  IF t.sourceCloseWrite THEN t
      ELSE IF t.sourceCloseRead THEN close(t, FALSE)
      ELSE [t EXCEPT !.sourceWrite = FALSE, !.sourceCloseWrite = TRUE]

\* Socket::Group::poll, for one socket and the events reported for it.
hangsUpBothWays(s, events) ==     \* mutant: a host that closes one way is ignored
  s.connected /\ "HUP" \in events

hangsUp(s, events) == s.connected /\ events \cap {"RDHUP", "HUP"} # {}

endsReadingAtOnce(s, events) ==   \* mutant: what waits to be read is forgotten
  s.sourceCloseWrite

endsReading(s, events) == "IN" \notin events /\ s.sourceCloseWrite

polled(s, events) ==
  LET a == IF hangsUp(s, events) THEN closeWrite(s, FALSE) ELSE s
      b == IF "ERR" \in events THEN closeWrite(a, TRUE) ELSE a
      c == IF endsReading(b, events) THEN closeRead(b, FALSE) ELSE b
  IN  [c EXCEPT !.sourceRead = ~c.sourceCloseRead /\ "IN" \in events,
                !.sourceWrite = ~c.sourceCloseWrite /\ "OUT" \in events]

-----------------------------------------------------------------------------
(* The kernel.  A TCP connection that was refused or reset is "dead".  err  *)
(* is the error that the next call or poll reports, pending an entry in the *)
(* ready list of epoll, noSpace the kernel's note to wake writers.          *)

newKernel(state) ==
  [state |-> state, queue |-> 0, fin |-> FALSE, err |-> FALSE,
   space |-> MaxSpace, noSpace |-> FALSE, pending |-> TRUE]

readable == kernel.queue > 0 \/ kernel.fin \/ kernel.state = "dead"

writable ==
  \/ kernel.state = "open" /\ type # "listener" /\ kernel.space >= MinSpace
  \/ kernel.state = "dead"

events ==
  (IF readable THEN {"IN"} ELSE {})
  \cup (IF writable THEN {"OUT"} ELSE {})
  \cup (IF kernel.fin \/ kernel.state = "dead" THEN {"RDHUP"} ELSE {})
  \cup (IF kernel.state = "dead" THEN {"HUP"} ELSE {})
  \cup (IF kernel.err THEN {"ERR"} ELSE {})

\* Something happens to the socket, and epoll takes note of it.
Happens(k) ==
  /\ socket.open
  /\ kernel' = [k EXCEPT !.pending = TRUE]
  /\ UNCHANGED <<type, socket, dropped>>

Connected ==
  kernel.state = "connecting" /\ Happens([kernel EXCEPT !.state = "open"])

Arrives ==
  /\ kernel.state = "open" /\ ~kernel.fin /\ kernel.queue < MaxQueue
  /\ Happens([kernel EXCEPT !.queue = @ + 1])

HostCloses ==
  /\ type = "stream" /\ kernel.state = "open" /\ ~kernel.fin
  /\ Happens([kernel EXCEPT !.fin = TRUE])

\* The connection is refused or reset; what has arrived can still be read.
HostResets ==
  /\ type = "stream" /\ kernel.state # "dead"
  /\ Happens([kernel EXCEPT !.state = "dead", !.err = TRUE])

Fails ==
  /\ type # "stream" /\ ~kernel.err
  /\ Happens([kernel EXCEPT !.err = TRUE])

\* Space becomes free; writers are woken if one has found too little.
Drains ==
  /\ kernel.state = "open" /\ kernel.space < MaxSpace /\ socket.open
  /\ LET k == [kernel EXCEPT !.space = @ + 1]
     IN  kernel' = IF k.noSpace /\ k.space >= MinSpace
                     THEN [k EXCEPT !.pending = TRUE, !.noSpace = FALSE] ELSE k
  /\ UNCHANGED <<type, socket, dropped>>

-----------------------------------------------------------------------------
(* The program.                                                            *)

\* Socket::Group::poll.  The kernel clears the entry, and asked for a socket
\* that is not writable it remembers to wake.
Poll ==
  /\ socket.open /\ kernel.pending
  /\ socket' = IF events = {} THEN socket ELSE polled(socket, events)
  /\ kernel' = [kernel EXCEPT !.pending = FALSE, !.noSpace = @ \/ ~writable]
  /\ UNCHANGED <<type, dropped>>

\* read, readfrom and accept, called by a handler of sourceRead.
canRead == socket.open /\ socket.sourceRead
emptyQueue == kernel.queue = 0

\* A stream yields what has arrived before the error of a reset, a UDP socket
\* reports its error first.
Read ==
  /\ canRead /\ ~emptyQueue
  /\ type # "stream" => ~kernel.err
  /\ \E n \in 1 .. kernel.queue :
       /\ type # "stream" => n = 1
       /\ kernel' = [kernel EXCEPT !.queue = @ - n]
  /\ UNCHANGED <<type, socket, dropped>>

\* The call fails, with EAGAIN or with another error.
afterErrorAny(s, again) ==        \* mutant: any error ends the readiness
  [s EXCEPT !.sourceRead = FALSE]

afterError(s, again) == IF again THEN [s EXCEPT !.sourceRead = FALSE] ELSE s

ReadAgain ==
  /\ canRead /\ emptyQueue /\ ~kernel.err /\ ~kernel.fin /\ kernel.state = "open"
  /\ socket' = afterError(socket, TRUE)
  /\ UNCHANGED <<type, kernel, dropped>>

\* The kernel reports its error once.
ReadFails ==
  /\ canRead /\ kernel.err
  /\ type = "stream" => emptyQueue
  /\ socket' = afterError(socket, FALSE)
  /\ kernel' = [kernel EXCEPT !.err = FALSE]
  /\ UNCHANGED <<type, dropped>>

\* recv returns 0.
ReadEnd ==
  /\ canRead /\ type = "stream" /\ emptyQueue /\ ~kernel.err
  /\ kernel.fin \/ kernel.state = "dead"
  /\ socket' = closeRead(socket, FALSE)
  /\ UNCHANGED <<type, kernel, dropped>>

\* write and writeto, called by a handler of sourceWrite.
canWrite == socket.open /\ socket.sourceWrite

Write ==
  /\ canWrite /\ kernel.state = "open" /\ ~kernel.err
  /\ \E n \in 1 .. kernel.space : kernel' = [kernel EXCEPT !.space = @ - n]
  /\ UNCHANGED <<type, socket, dropped>>

WriteAgain ==
  /\ canWrite /\ kernel.state = "open" /\ ~kernel.err /\ kernel.space = 0
  /\ socket' = [socket EXCEPT !.sourceWrite = FALSE]
  /\ kernel' = [kernel EXCEPT !.noSpace = TRUE]
  /\ UNCHANGED <<type, dropped>>

WriteFails ==
  /\ canWrite /\ kernel.err
  /\ kernel' = [kernel EXCEPT !.err = FALSE]
  /\ UNCHANGED <<type, socket, dropped>>

\* Connection::udpClose.
OwnerClosesRead ==
  /\ socket.open /\ type = "stream"
  /\ socket' = closeRead(socket, FALSE)
  /\ dropped' = TRUE
  /\ UNCHANGED <<type, kernel>>

\* Connection::tcpClose, and the destructor.
OwnerCloses ==
  /\ socket' = close(socket, FALSE)
  /\ dropped' = (dropped \/ ~socket.sourceCloseRead)
  /\ UNCHANGED <<type, kernel>>

\* A socket is created by accept or by the constructor, which may fail.
Init ==
  /\ type \in {"stream", "datagram", "listener"}
  /\ LET s == newSocket(type = "stream") IN socket \in {s, close(s, TRUE)}
  /\ \/ kernel = newKernel("open")
     \/ type = "stream" /\ kernel = newKernel("connecting")
  /\ dropped = FALSE

Kernel == Connected \/ Arrives \/ HostCloses \/ HostResets \/ Fails \/ Drains

Program ==
  \/ Poll
  \/ Read \/ ReadAgain \/ ReadFails \/ ReadEnd
  \/ Write \/ WriteAgain \/ WriteFails
  \/ OwnerClosesRead \/ OwnerCloses

Next == Kernel \/ Program

Spec == Init /\ [][Next]_vars

\* The loop polls in every step, and the owner reads what is ready.
FairSpec ==
  /\ Spec
  /\ WF_vars(Poll)
  /\ WF_vars(Read) /\ WF_vars(ReadFails) /\ WF_vars(ReadEnd)

-----------------------------------------------------------------------------
(* Properties.                                                             *)

\* The sources agree: a socket is closed exactly when it is closed both ways,
\* and it is not ready for what it is closed for.
TypeOK ==
  /\ type \in {"stream", "datagram", "listener"}
  /\ socket \in [open : BOOLEAN, connected : BOOLEAN, error : BOOLEAN,
                 sourceRead : BOOLEAN, sourceWrite : BOOLEAN,
                 sourceCloseRead : BOOLEAN, sourceCloseWrite : BOOLEAN,
                 sourceClose : BOOLEAN]
  /\ kernel \in [state : {"connecting", "open", "dead"}, queue : 0 .. MaxQueue,
                 fin : BOOLEAN, err : BOOLEAN, space : 0 .. MaxSpace,
                 noSpace : BOOLEAN, pending : BOOLEAN]
  /\ dropped \in BOOLEAN
  /\ socket.sourceClose = (socket.sourceCloseRead /\ socket.sourceCloseWrite)
  /\ socket.sourceClose = ~socket.open
  /\ socket.sourceCloseRead => ~socket.sourceRead
  /\ socket.sourceCloseWrite => ~socket.sourceWrite

\* Edge-triggered reports are enough: whatever can be read, or written, has its
\* source ready or a report of epoll on the way.
NoLostReadiness ==
  /\ socket.open /\ ~socket.sourceCloseRead /\ readable
       => socket.sourceRead \/ kernel.pending
  /\ socket.open /\ ~socket.sourceCloseWrite /\ writable
       => socket.sourceWrite \/ kernel.pending

\* What has arrived before a hangup or an error is read: unless the owner says
\* so, a socket is not closed for reading while something waits.
ReadBeforeClosed ==
  socket.sourceCloseRead /\ ~dropped => kernel.queue = 0

\* When the host closes or resets a connection and the owner keeps reading, the
\* socket closes and sourceClose tells the owner.
HangupCloses ==
  (kernel.fin \/ kernel.state = "dead") ~> socket.sourceClose

=============================================================================
