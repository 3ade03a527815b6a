------------------------------- MODULE Server -------------------------------
(***************************************************************************)
(* The objects of one process: classes Server, TcpListener and UdpListener *)
(* of server.cpp.  The process has one TCP listener (the client side of a  *)
(* tunnel) and one UDP listener (the server side).  Each connection that   *)
(* the TCP listener accepts gets a UDP listener of its own; the            *)
(* connections of the server side share one and are told apart by the      *)
(* address of the peer.                                                    *)
(*                                                                         *)
(* Objects are created and deleted while others point to them.  They are   *)
(* named by ids, which are used again as memory is.  What a connection     *)
(* does inside is module Connection; here it ends at any moment.           *)
(***************************************************************************)
EXTENDS Naturals, FiniteSets, Functions

CONSTANTS
  TcpIds, UdpIds, ConnectionIds,  \* memory for the objects: a bound on each
  Address,                        \* UDP addresses of peers
  Remote                          \* the address that the TCP listener forwards to

ASSUME AddressAssumption == Remote \in Address
ASSUME IdsAssumption     == TcpIds # {} /\ UdpIds # {}

VARIABLES
  tcpListeners,   \* Server::tcpListeners
  udpListeners,   \* Server::udpListeners
  connections,    \* Server::connections
  stopping        \* the destructor of Server is running

vars == <<tcpListeners, udpListeners, connections, stopping>>

\* The map f with the object x at id, and without id.
put(f, id, x) == [i \in DOMAIN f \cup {id} |-> IF i = id THEN x ELSE f[i]]
remove(f, id) == Restrict(f, DOMAIN f \ {id})

empty == [i \in {} |-> 0]

-----------------------------------------------------------------------------
(* Sockets and the creation of objects.                                    *)

\* The constructor of Socket closes it with an error if the system refuses it.
newSocket(ok) == [read |-> ok, write |-> ok, error |-> ~ok]

closed(s) == ~s.read /\ ~s.write

\* Socket::Group::poll on EPOLLERR.
failedSilently(s, readable) == [s EXCEPT !.write = FALSE, !.read = @ /\ readable]

failed(s, readable) == [s EXCEPT !.write = FALSE, !.error = TRUE,
                                 !.read = @ /\ readable]

newTcpListener(ok) == [socket |-> newSocket(ok), eventClose |-> TRUE]

\* forwards: it has a tcpAddress, and accepts connections from any peer.
newUdpListener(forwards, ok) ==
  [forwards |-> forwards, socket |-> newSocket(ok), eventClose |-> TRUE,
   connections |-> empty]

newConnection(l, a) == [listener |-> l, address |-> a, eventClose |-> FALSE]

\* Server::createConnection enters the connection into both maps.
createConnection(listeners, l, a, c) ==
  /\ a \notin DOMAIN listeners[l].connections
  /\ connections' = put(connections, c, newConnection(l, a))
  /\ udpListeners' =
       [listeners EXCEPT ![l].connections = put(@, a, c)]

-----------------------------------------------------------------------------
(* TcpListener.                                                            *)

\* handle(eventRead): a TCP connection and its own UDP listener.
TcpAccept(t) ==
  /\ tcpListeners[t].socket.read
  /\ \E l \in UdpIds \ DOMAIN udpListeners, ok \in BOOLEAN,
        c \in ConnectionIds \ DOMAIN connections :
       createConnection(put(udpListeners, l, newUdpListener(FALSE, ok)), l, Remote, c)
  /\ UNCHANGED tcpListeners

TcpFails(t) ==
  /\ ~closed(tcpListeners[t].socket)
  /\ \E readable \in BOOLEAN :
       tcpListeners' = [tcpListeners EXCEPT ![t].socket = failed(@, readable)]
  /\ UNCHANGED <<udpListeners, connections>>

\* Server::onTcpListenerClosed: a listener that failed is created again.
tcpListenersAfterForgotten(t, new, ok) == remove(tcpListeners, t)

tcpListenersAfter(t, new, ok) ==
  LET rest == remove(tcpListeners, t)
  IN  IF tcpListeners[t].socket.error THEN put(rest, new, newTcpListener(ok)) ELSE rest

\* handle(eventClose).
TcpListenerClose(t) ==
  /\ closed(tcpListeners[t].socket)
  /\ tcpListeners[t].eventClose
  /\ \E new \in TcpIds \ (DOMAIN tcpListeners \ {t}), ok \in BOOLEAN :
       tcpListeners' = tcpListenersAfter(t, new, ok)
  /\ UNCHANGED <<udpListeners, connections>>

-----------------------------------------------------------------------------
(* UdpListener.                                                            *)

\* handle(eventRead), for a datagram from an address that has no connection
\* yet: the types that carry data open one, if the listener forwards.
UdpAccept(l, a) ==
  /\ udpListeners[l].socket.read
  /\ udpListeners[l].forwards
  /\ \E c \in ConnectionIds \ DOMAIN connections :
       createConnection(udpListeners, l, a, c)
  /\ UNCHANGED tcpListeners

UdpFails(l) ==
  /\ ~closed(udpListeners[l].socket)
  /\ \E readable \in BOOLEAN :
       udpListeners' = [udpListeners EXCEPT ![l].socket = failed(@, readable)]
  /\ UNCHANGED <<tcpListeners, connections>>

\* Server::onUdpListenerClosed, given the other listeners as they are by then.
udpListenersAfter(listeners, l, error, new, ok) ==
  LET rest == remove(listeners, l)
  IN  IF error /\ listeners[l].forwards
        THEN put(rest, new, newUdpListener(TRUE, ok)) ELSE rest

\* A listener that has connections takes no notice of its socket's end.
ignoresCloseNever(l) == FALSE

ignoresClose(l) == DOMAIN udpListeners[l].connections # {}

\* handle(eventClose): the event is disabled when the handler runs.
UdpListenerClose(l) ==
  /\ closed(udpListeners[l].socket)
  /\ udpListeners[l].eventClose
  /\ IF ignoresClose(l)
       THEN udpListeners' = [udpListeners EXCEPT ![l].eventClose = FALSE]
       ELSE \E new \in UdpIds \ (DOMAIN udpListeners \ {l}), ok \in BOOLEAN :
              udpListeners' = udpListenersAfter(udpListeners, l,
                                udpListeners[l].socket.error, new, ok)
  /\ UNCHANGED <<tcpListeners, connections>>

-----------------------------------------------------------------------------
(* Connections.                                                            *)

\* The connection has finished, or its UDP socket was closed under it.
Finish(c) ==
  /\ ~connections[c].eventClose
  /\ connections' = [connections EXCEPT ![c].eventClose = TRUE]
  /\ UNCHANGED <<tcpListeners, udpListeners>>

\* The listeners once connection c has been erased from the map of l.
erase(l, c) ==
  [udpListeners EXCEPT ![l].connections = RestrictValues(@, LAMBDA d : d # c)]

\* The listener of a client's connection goes with it.
deletedWithNever(l) == FALSE

deletedWith(l) == ~udpListeners[l].forwards

\* Server::onConnectionClosed.
onConnectionClosed(c) ==
  LET l == connections[c].listener
  IN  /\ connections' = remove(connections, c)
      /\ udpListeners' = IF deletedWith(l)
                           THEN udpListenersAfter(erase(l, c), l, FALSE, l, TRUE)
                           ELSE erase(l, c)
      /\ UNCHANGED tcpListeners

ConnectionClose(c) == connections[c].eventClose /\ onConnectionClosed(c)

-----------------------------------------------------------------------------
(* The destructor of Server, which deletes what is left, one object after   *)
(* another and connections first, and creates nothing again.                *)

Stop == ~stopping /\ stopping' = TRUE /\ UNCHANGED <<tcpListeners, udpListeners, connections>>

\* What has to be empty before a UDP listener is deleted.
goneBeforeUdpNothing == TRUE      \* mutant: listeners first

goneBeforeUdp == connections = empty /\ tcpListeners = empty

StopConnection(c) == onConnectionClosed(c)

StopTcpListener(t) ==
  /\ connections = empty
  /\ tcpListeners' = remove(tcpListeners, t)
  /\ UNCHANGED <<udpListeners, connections>>

StopUdpListener(l) ==
  /\ goneBeforeUdp
  /\ udpListeners' = udpListenersAfter(udpListeners, l, FALSE, l, TRUE)
  /\ UNCHANGED <<tcpListeners, connections>>

\* The process ends.
Stopped ==
  /\ stopping
  /\ connections = empty /\ tcpListeners = empty /\ udpListeners = empty
  /\ UNCHANGED vars

Init ==
  /\ \E t \in TcpIds : tcpListeners = put(empty, t, newTcpListener(TRUE))
  /\ \E l \in UdpIds : udpListeners = put(empty, l, newUdpListener(TRUE, TRUE))
  /\ connections = empty
  /\ stopping = FALSE

\* A step of Server::run.
Run ==
  \/ \E t \in DOMAIN tcpListeners :
       TcpAccept(t) \/ TcpFails(t) \/ TcpListenerClose(t)
  \/ \E l \in DOMAIN udpListeners :
       \/ UdpFails(l) \/ UdpListenerClose(l)
       \/ \E a \in Address : UdpAccept(l, a)
  \/ \E c \in DOMAIN connections : Finish(c) \/ ConnectionClose(c)

Destroy ==
  \/ \E c \in DOMAIN connections : StopConnection(c)
  \/ \E t \in DOMAIN tcpListeners : StopTcpListener(t)
  \/ \E l \in DOMAIN udpListeners : StopUdpListener(l)

Next ==
  \/ ~stopping /\ Run /\ UNCHANGED stopping
  \/ Stop
  \/ stopping /\ Destroy /\ UNCHANGED stopping
  \/ Stopped

Spec == Init /\ [][Next]_vars

-----------------------------------------------------------------------------
(* Properties.                                                             *)

Socket == [read : BOOLEAN, write : BOOLEAN, error : BOOLEAN]

\* The maps hold objects of their kinds, and what a socket lost it lost by an
\* error: no listener is closed in a way that onTcpListenerClosed and
\* onUdpListenerClosed take for a regular end.
TypeOK ==
  /\ stopping \in BOOLEAN
  /\ DOMAIN tcpListeners \subseteq TcpIds
  /\ \A t \in DOMAIN tcpListeners :
       tcpListeners[t] \in [socket : Socket, eventClose : BOOLEAN]
  /\ DOMAIN udpListeners \subseteq UdpIds
  /\ \A l \in DOMAIN udpListeners :
       /\ udpListeners[l] \in
            [forwards : BOOLEAN, socket : Socket, eventClose : BOOLEAN,
             connections : [DOMAIN udpListeners[l].connections -> ConnectionIds]]
       /\ DOMAIN udpListeners[l].connections \subseteq Address
  /\ connections \in
       [DOMAIN connections -> [listener : UdpIds, address : Address, eventClose : BOOLEAN]]
  /\ DOMAIN connections \subseteq ConnectionIds
  /\ \A s \in {tcpListeners[t].socket : t \in DOMAIN tcpListeners}
           \cup {udpListeners[l].socket : l \in DOMAIN udpListeners} :
       s.error \/ (s.read /\ s.write)

\* No pointer dangles, and datagrams go where they belong: the map of a
\* listener leads from an address to the connection with that address and
\* that listener, and every connection is found there.  It holds between any
\* two deletions of the destructor as well.
Registered ==
  /\ \A l \in DOMAIN udpListeners : \A a \in DOMAIN udpListeners[l].connections :
       LET c == udpListeners[l].connections[a]
       IN  c \in DOMAIN connections /\ connections[c].listener = l
                                    /\ connections[c].address = a
  /\ \A c \in DOMAIN connections :
       LET l == connections[c].listener
           a == connections[c].address
       IN  /\ l \in DOMAIN udpListeners
           /\ a \in DOMAIN udpListeners[l].connections
           /\ udpListeners[l].connections[a] = c

\* No UDP socket leaks: a listener that was created for one TCP connection has
\* exactly that connection as long as it exists.
PrivateListeners ==
  \A l \in DOMAIN udpListeners :
    ~udpListeners[l].forwards => Cardinality(DOMAIN udpListeners[l].connections) = 1

\* Listeners come back: whatever fails and in whatever order objects are
\* deleted, there is a TCP listener and a UDP listener that forwards, and a TCP
\* listener that is closed is going to be created again.  (Not so a UDP listener
\* that was closed while it had connections: it stays, and stays closed.)
ListenersStay == ~stopping =>
  /\ \E t \in DOMAIN tcpListeners :
       closed(tcpListeners[t].socket) => tcpListeners[t].eventClose
  /\ \E l \in DOMAIN udpListeners : udpListeners[l].forwards

=============================================================================
