---------------------------- MODULE ServerProofs ----------------------------
(***************************************************************************)
(* Proofs for Server: no pointer between listeners and connections ever    *)
(* dangles, the listener of a client's connection goes with it, and        *)
(* listeners come back, for any number of objects and addresses.           *)
(***************************************************************************)
EXTENDS Server, FiniteSetTheorems, TLAPS

-----------------------------------------------------------------------------
(* The invariant, as predicates of the maps: most steps build the new maps  *)
(* in several stages.                                                       *)

\* A socket is whole or has failed.
SocketOK(s) == s \in Socket /\ (s.error \/ (s.read /\ s.write))

TcpOK(T) ==
  /\ DOMAIN T \subseteq TcpIds
  /\ \A t \in DOMAIN T :
       T[t] \in [socket : Socket, eventClose : BOOLEAN] /\ SocketOK(T[t].socket)

ListenerType(D) ==
  [forwards : BOOLEAN, socket : Socket, eventClose : BOOLEAN,
   connections : [D -> ConnectionIds]]

ListenerOK(x) ==
  /\ x \in ListenerType(DOMAIN x.connections)
  /\ DOMAIN x.connections \subseteq Address
  /\ SocketOK(x.socket)

UdpOK(L) ==
  DOMAIN L \subseteq UdpIds /\ \A l \in DOMAIN L : ListenerOK(L[l])

ConnectionRecord == [listener : UdpIds, address : Address, eventClose : BOOLEAN]

ConnectionsOK(C) ==
  C \in [DOMAIN C -> ConnectionRecord] /\ DOMAIN C \subseteq ConnectionIds

\* Listener k knows connection c by address a.
Knows(L, k, a, c) ==
  k \in DOMAIN L /\ a \in DOMAIN L[k].connections /\ L[k].connections[a] = c

\* Registered: what listeners know is what connections say.
Agree(L, C) ==
  \A k, a, c :
    Knows(L, k, a, c) <=>
      c \in DOMAIN C /\ C[c].listener = k /\ C[c].address = a

\* PrivateListeners, without counting.
Single(S) == \E a : S = {a}

Private(L) ==
  \A k \in DOMAIN L : ~L[k].forwards => Single(DOMAIN L[k].connections)

IInv ==
  /\ stopping \in BOOLEAN
  /\ TcpOK(tcpListeners) /\ UdpOK(udpListeners) /\ ConnectionsOK(connections)
  /\ Agree(udpListeners, connections)
  /\ Private(udpListeners)
  /\ \A t \in DOMAIN tcpListeners : tcpListeners[t].eventClose
  /\ ~stopping => /\ DOMAIN tcpListeners # {}
                  /\ \E l \in DOMAIN udpListeners : udpListeners[l].forwards

\* The types are part of the invariant.
LEMMA InvIsTyped == IInv => TypeOK
BY DEF IInv, TypeOK, TcpOK, UdpOK, ListenerOK, ListenerType, ConnectionsOK,
       ConnectionRecord, SocketOK

\* Agreement of the maps is Registered.
LEMMA InvIsRegistered == IInv => Registered
BY DEF IInv, Registered, Agree, Knows

\* A set with one element has cardinality 1.
LEMMA InvIsPrivate == IInv => PrivateListeners
BY FS_Singleton DEF IInv, Private, Single, PrivateListeners

\* A TCP listener always listens to its end.
LEMMA InvKeepsListeners == IInv => ListenersStay
BY DEF IInv, ListenersStay

-----------------------------------------------------------------------------
(* The maps.                                                                *)

\* put enters one object.
LEMMA PutFacts ==
  ASSUME NEW f, NEW id, NEW x
  PROVE  /\ DOMAIN put(f, id, x) = DOMAIN f \cup {id}
         /\ put(f, id, x)[id] = x
         /\ \A i \in DOMAIN f : i # id => put(f, id, x)[i] = f[i]
BY DEF put

\* remove takes one out.
LEMMA RemoveFacts ==
  ASSUME NEW f, NEW id
  PROVE  /\ DOMAIN remove(f, id) = DOMAIN f \ {id}
         /\ \A i \in DOMAIN f : i # id => remove(f, id)[i] = f[i]
BY DEF remove, Restrict

\* The constructors of sockets and listeners.
LEMMA NewIsOK ==
  ASSUME NEW ok \in BOOLEAN, NEW forwards \in BOOLEAN
  PROVE  /\ SocketOK(newSocket(ok))
         /\ SocketOK(newTcpListener(ok).socket)
         /\ newTcpListener(ok) \in [socket : Socket, eventClose : BOOLEAN]
         /\ newTcpListener(ok).eventClose
         /\ ListenerOK(newUdpListener(forwards, ok))
         /\ newUdpListener(forwards, ok).forwards = forwards
         /\ DOMAIN newUdpListener(forwards, ok).connections = {}
BY DEF SocketOK, Socket, newSocket, newTcpListener, newUdpListener, ListenerOK,
       ListenerType, empty

\* A socket that fails keeps its invariant, and is not whole any more.
LEMMA FailedIsOK ==
  ASSUME NEW s, SocketOK(s), NEW readable \in BOOLEAN
  PROVE  SocketOK(failed(s, readable)) /\ failed(s, readable).error
BY DEF SocketOK, Socket, failed

\* What is closed was closed by an error.
LEMMA ClosedFailed ==
  ASSUME NEW s, SocketOK(s), closed(s)
  PROVE  s.error
BY DEF SocketOK, Socket, closed

-----------------------------------------------------------------------------
(* Registering.                                                             *)

\* A new listener has no connections yet.
LEMMA AddListenerKeeps ==
  ASSUME NEW L, UdpOK(L), NEW C, Agree(L, C), NEW l \in UdpIds \ DOMAIN L,
         NEW forwards \in BOOLEAN, NEW ok \in BOOLEAN
  PROVE  LET M == put(L, l, newUdpListener(forwards, ok))
         IN  UdpOK(M) /\ Agree(M, C)
<1>. DEFINE x == newUdpListener(forwards, ok)
            M == put(L, l, x)
<1>1. ListenerOK(x) /\ DOMAIN x.connections = {}
  BY NewIsOK
<1>. HIDE DEF x
<1>2. DOMAIN M = DOMAIN L \cup {l} /\ M[l] = x
  BY DEF put
<1>3. \A k \in DOMAIN L : k # l => M[k] = L[k]
  BY DEF put
<1>. HIDE DEF M
<1>4. UdpOK(M)
  BY <1>1, <1>2, <1>3 DEF UdpOK
<1>5. \A k, a, c : Knows(M, k, a, c) <=> Knows(L, k, a, c)
  BY <1>1, <1>2, <1>3 DEF Knows
<1>6. Agree(M, C)
  BY <1>5 DEF Agree
<1>. QED
  BY <1>4, <1>6 DEF M, x

\* A listener without connections is known to none.
LEMMA RemoveListenerKeeps ==
  ASSUME NEW L, UdpOK(L), NEW C, Agree(L, C), NEW l \in DOMAIN L,
         DOMAIN L[l].connections = {}
  PROVE  UdpOK(remove(L, l)) /\ Agree(remove(L, l), C)
<1>. DEFINE M == remove(L, l)
<1>1. /\ DOMAIN M = DOMAIN L \ {l}
      /\ \A k \in DOMAIN L : k # l => M[k] = L[k]
  BY RemoveFacts
<1>. HIDE DEF M
<1>2. UdpOK(M)
  BY <1>1 DEF UdpOK
<1>3. \A k, a, c : Knows(M, k, a, c) <=> Knows(L, k, a, c)
  BY <1>1 DEF Knows
<1>4. Agree(M, C)
  BY <1>3 DEF Agree
<1>. QED
  BY <1>2, <1>4 DEF M

\* What createConnection makes of the maps.
entered(L, l, a, c) == [L EXCEPT ![l].connections = put(@, a, c)]
created(C, l, a, c) == put(C, c, newConnection(l, a))

\* createConnection enters a connection into both maps.
LEMMA CreateKeeps ==
  ASSUME NEW L, UdpOK(L), NEW C, ConnectionsOK(C), Agree(L, C),
         NEW l \in DOMAIN L, NEW a \in Address, a \notin DOMAIN L[l].connections,
         NEW c \in ConnectionIds \ DOMAIN C
  PROVE  LET M == entered(L, l, a, c)
             D == created(C, l, a, c)
         IN  /\ UdpOK(M) /\ ConnectionsOK(D) /\ Agree(M, D)
             /\ DOMAIN M = DOMAIN L
             /\ \A k \in DOMAIN L : k # l => M[k] = L[k]
             /\ M[l].forwards = L[l].forwards
             /\ DOMAIN M[l].connections = DOMAIN L[l].connections \cup {a}
<1>. DEFINE f == put(L[l].connections, a, c)
            x == [L[l] EXCEPT !.connections = f]
            n == newConnection(l, a)
            M == entered(L, l, a, c)
            D == created(C, l, a, c)
<1>0. ListenerOK(L[l]) /\ l \in UdpIds
  BY DEF UdpOK
<1>1. /\ DOMAIN f = DOMAIN L[l].connections \cup {a} /\ f[a] = c
      /\ \A b \in DOMAIN L[l].connections : b # a => f[b] = L[l].connections[b]
      /\ f = [b \in DOMAIN f |-> f[b]]
  BY PutFacts DEF put
<1>2. DOMAIN M = DOMAIN L /\ M[l] = x /\ \A k \in DOMAIN L : k # l => M[k] = L[k]
  BY DEF entered
<1>3. n \in ConnectionRecord /\ n.listener = l /\ n.address = a
  BY <1>0 DEF newConnection, ConnectionRecord
<1>. HIDE DEF n
<1>4. /\ DOMAIN D = DOMAIN C \cup {c} /\ D[c] = n
      /\ \A d \in DOMAIN C : D[d] = C[d]
      /\ D = [d \in DOMAIN D |-> D[d]]
  BY DEF put, created, n
<1>. HIDE DEF M, D, f
<1>5. f \in [DOMAIN f -> ConnectionIds]
  BY <1>0, <1>1 DEF ListenerOK, ListenerType
<1>6. x \in ListenerType(DOMAIN f) /\ x.connections = f
      /\ x.socket = L[l].socket /\ x.forwards = L[l].forwards
  BY <1>0, <1>5 DEF ListenerOK, ListenerType
<1>. HIDE DEF x
<1>7. ListenerOK(x)
  BY <1>0, <1>1, <1>6 DEF ListenerOK
<1>8. UdpOK(M)
  BY <1>2, <1>7 DEF UdpOK
<1>9. ConnectionsOK(D)
  BY <1>3, <1>4 DEF ConnectionsOK
<1>10. \A k, b, d : Knows(M, k, b, d) <=> Knows(L, k, b, d) \/ (k = l /\ b = a /\ d = c)
  BY <1>1, <1>2, <1>6 DEF Knows
<1>11. Agree(M, D)
  BY <1>3, <1>4, <1>10 DEF Agree
<1>. QED
  BY <1>1, <1>2, <1>6, <1>8, <1>9, <1>11 DEF M, D

\* onConnectionClosed takes it out of both.
LEMMA EraseKeeps ==
  ASSUME UdpOK(udpListeners), ConnectionsOK(connections),
         Agree(udpListeners, connections), NEW c \in DOMAIN connections
  PROVE  LET l == connections[c].listener
             M == erase(l, c)
             D == remove(connections, c)
         IN  /\ l \in DOMAIN udpListeners
             /\ UdpOK(M) /\ ConnectionsOK(D) /\ Agree(M, D)
             /\ DOMAIN M = DOMAIN udpListeners
             /\ \A k \in DOMAIN M : k # l => M[k] = udpListeners[k]
             /\ M[l].forwards = udpListeners[l].forwards
             /\ DOMAIN M[l].connections =
                  DOMAIN udpListeners[l].connections \ {connections[c].address}
<1>. DEFINE l == connections[c].listener
            a == connections[c].address
            L == udpListeners
            f == L[l].connections
            g == RestrictValues(f, LAMBDA d : d # c)
            x == [L[l] EXCEPT !.connections = g]
            M == erase(l, c)
            D == remove(connections, c)
<1>1. Knows(L, l, a, c)
  BY DEF Agree
<1>2. l \in DOMAIN L /\ a \in DOMAIN f /\ f[a] = c /\ ListenerOK(L[l])
  BY <1>1 DEF Knows, UdpOK
<1>3. \A b \in DOMAIN f : f[b] = c => b = a
  <2>. SUFFICES ASSUME NEW b \in DOMAIN f, f[b] = c PROVE b = a
    OBVIOUS
  <2>1. Knows(L, l, b, c)
    BY <1>2 DEF Knows
  <2>. QED
    BY <2>1 DEF Agree
<1>4. g = [b \in {b \in DOMAIN f : f[b] # c} |-> f[b]]
  BY DEF RestrictValues, Restrict
<1>5. DOMAIN g = DOMAIN f \ {a} /\ \A b \in DOMAIN g : g[b] = f[b]
  BY <1>2, <1>3, <1>4
<1>6. g \in [DOMAIN g -> ConnectionIds]
  BY <1>2, <1>4 DEF ListenerOK, ListenerType
<1>7. DOMAIN M = DOMAIN L /\ M[l] = x /\ \A k \in DOMAIN L : k # l => M[k] = L[k]
  BY <1>2 DEF erase
<1>8. /\ DOMAIN D = DOMAIN connections \ {c}
      /\ \A d \in DOMAIN connections : d # c => D[d] = connections[d]
      /\ D = [d \in DOMAIN D |-> D[d]]
  BY RemoveFacts DEF remove, Restrict
<1>. HIDE DEF g, M, D
<1>9. x \in ListenerType(DOMAIN g) /\ x.connections = g
      /\ x.socket = L[l].socket /\ x.forwards = L[l].forwards
  BY <1>2, <1>6 DEF ListenerOK, ListenerType
<1>. HIDE DEF x
<1>10. UdpOK(M)
  BY <1>2, <1>5, <1>7, <1>9 DEF UdpOK, ListenerOK
<1>11. ConnectionsOK(D)
  BY <1>8 DEF ConnectionsOK
<1>12. \A k, b, d : Knows(M, k, b, d) <=> Knows(L, k, b, d) /\ ~(k = l /\ b = a)
  BY <1>2, <1>5, <1>7, <1>9 DEF Knows
<1>13. \A k, b, d : Knows(L, k, b, d) /\ ~(k = l /\ b = a) => d # c
  BY DEF Agree
<1>14. Agree(M, D)
  <2>. SUFFICES ASSUME NEW k, NEW b, NEW d
                PROVE  Knows(M, k, b, d) <=>
                         d \in DOMAIN D /\ D[d].listener = k /\ D[d].address = b
    BY DEF Agree
  <2>1. CASE d = c
    BY <1>8, <1>12, <1>13, <2>1
  <2>2. CASE d # c
    <3>1. Knows(L, k, b, d) => ~(k = l /\ b = a)
      BY <1>1, <2>2 DEF Knows
    <3>2. Knows(M, k, b, d) <=> Knows(L, k, b, d)
      BY <1>12, <3>1
    <3>. QED
      BY <1>8, <2>2, <3>2 DEF Agree
  <2>. QED
    BY <2>1, <2>2
<1>. QED
  BY <1>2, <1>5, <1>7, <1>9, <1>10, <1>11, <1>14 DEF M, D

-----------------------------------------------------------------------------
(* The steps.                                                               *)

\* A TCP connection is accepted: its listener is new and forwards nothing.
LEMMA TcpAcceptKeeps ==
  ASSUME IInv, NEW t \in DOMAIN tcpListeners, TcpAccept(t), UNCHANGED stopping
  PROVE  IInv'
<1>. DEFINE F == FALSE
<1>1. PICK l \in UdpIds \ DOMAIN udpListeners, ok \in BOOLEAN,
           c \in ConnectionIds \ DOMAIN connections :
        createConnection(put(udpListeners, l, newUdpListener(F, ok)), l, Remote, c)
  BY DEF TcpAccept
<1>. DEFINE x == newUdpListener(F, ok)
            L == put(udpListeners, l, x)
            M == entered(L, l, Remote, c)
            D == created(connections, l, Remote, c)
<1>2. udpListeners' = M /\ connections' = D /\ UNCHANGED tcpListeners
  BY <1>1 DEF entered, created, createConnection, TcpAccept
<1>3. F \in BOOLEAN /\ ~F
  OBVIOUS
<1>. HIDE DEF F
<1>4. UdpOK(L) /\ Agree(L, connections)
  BY <1>3, AddListenerKeeps DEF IInv
<1>5. DOMAIN x.connections = {} /\ x.forwards = F
  BY <1>3, NewIsOK
<1>. HIDE DEF x
<1>6. /\ DOMAIN L = DOMAIN udpListeners \cup {l} /\ L[l] = x
      /\ \A k \in DOMAIN udpListeners : k # l => L[k] = udpListeners[k]
  BY DEF put
<1>. HIDE DEF L
<1>7. Remote \in Address /\ Remote \notin DOMAIN L[l].connections /\ l \in DOMAIN L
  BY <1>5, <1>6, AddressAssumption
<1>8. /\ UdpOK(M) /\ ConnectionsOK(D) /\ Agree(M, D)
      /\ DOMAIN M = DOMAIN L
      /\ \A k \in DOMAIN L : k # l => M[k] = L[k]
      /\ M[l].forwards = L[l].forwards
      /\ DOMAIN M[l].connections = DOMAIN L[l].connections \cup {Remote}
  <2>1. ConnectionsOK(connections)
    BY DEF IInv
  <2>. QED
    BY <1>4, <1>7, <2>1, CreateKeeps
<1>. HIDE DEF M, D
<1>9. Single(DOMAIN M[l].connections)
  BY <1>5, <1>6, <1>8 DEF Single
<1>10. Private(M)
  BY <1>6, <1>8, <1>9 DEF IInv, Private
<1>11. (\E k \in DOMAIN udpListeners : udpListeners[k].forwards)
         => \E k \in DOMAIN M : M[k].forwards
  BY <1>6, <1>8
<1>. QED
  BY <1>2, <1>8, <1>10, <1>11 DEF IInv

\* A datagram of an unknown address opens a connection of a listener that
\* forwards.
LEMMA UdpAcceptKeeps ==
  ASSUME IInv, NEW l \in DOMAIN udpListeners, NEW a \in Address, UdpAccept(l, a),
         UNCHANGED stopping
  PROVE  IInv'
<1>1. PICK c \in ConnectionIds \ DOMAIN connections :
        createConnection(udpListeners, l, a, c)
  BY DEF UdpAccept
<1>. DEFINE L == udpListeners
            M == entered(L, l, a, c)
            D == created(connections, l, a, c)
<1>2. /\ udpListeners' = M /\ connections' = D /\ UNCHANGED tcpListeners
      /\ udpListeners[l].forwards /\ a \notin DOMAIN udpListeners[l].connections
  BY <1>1 DEF entered, created, createConnection, UdpAccept
<1>3. /\ UdpOK(M) /\ ConnectionsOK(D) /\ Agree(M, D)
      /\ DOMAIN M = DOMAIN L
      /\ \A k \in DOMAIN L : k # l => M[k] = L[k]
      /\ M[l].forwards = L[l].forwards
      /\ DOMAIN M[l].connections = DOMAIN L[l].connections \cup {a}
  <2>1. UdpOK(L) /\ ConnectionsOK(connections) /\ Agree(L, connections)
    BY DEF IInv
  <2>2. a \notin DOMAIN L[l].connections /\ l \in DOMAIN L
    BY <1>2
  <2>. HIDE DEF L
  <2>. QED
    BY <2>1, <2>2, CreateKeeps
<1>. HIDE DEF M, D
<1>. QED
  BY <1>2, <1>3 DEF IInv, Private

\* A TCP listener's socket fails.
LEMMA TcpFailsKeeps ==
  ASSUME IInv, NEW t \in DOMAIN tcpListeners, TcpFails(t), UNCHANGED stopping
  PROVE  IInv'
<1>1. PICK readable \in BOOLEAN :
        tcpListeners' = [tcpListeners EXCEPT ![t].socket = failed(@, readable)]
  BY DEF TcpFails
<1>. DEFINE q == failed(tcpListeners[t].socket, readable)
<1>2. SocketOK(q)
  BY FailedIsOK DEF IInv, TcpOK
<1>3. tcpListeners' = [tcpListeners EXCEPT ![t].socket = q]
  BY <1>1
<1>. HIDE DEF q
<1>4. TcpOK(tcpListeners') /\ \A u \in DOMAIN tcpListeners' : tcpListeners'[u].eventClose
  BY <1>2, <1>3 DEF IInv, TcpOK, SocketOK
<1>. QED
  BY <1>3, <1>4 DEF IInv, TcpFails

\* A UDP listener's socket fails, or its owner takes no notice of the end.
LEMMA ListenerChangeKeeps ==
  ASSUME IInv, NEW l \in DOMAIN udpListeners, NEW q, SocketOK(q), NEW e \in BOOLEAN,
         udpListeners' = [udpListeners EXCEPT ![l].socket = q, ![l].eventClose = e],
         UNCHANGED <<tcpListeners, connections, stopping>>
  PROVE  IInv'
<1>. DEFINE L == udpListeners
            x == [L[l] EXCEPT !.socket = q, !.eventClose = e]
            M == [L EXCEPT ![l].socket = q, ![l].eventClose = e]
<1>1. DOMAIN M = DOMAIN L /\ M[l] = x /\ \A k \in DOMAIN L : k # l => M[k] = L[k]
  OBVIOUS
<1>2. ListenerOK(L[l])
  BY DEF IInv, UdpOK
<1>3. x \in ListenerType(DOMAIN L[l].connections)
      /\ x.connections = L[l].connections /\ x.forwards = L[l].forwards /\ x.socket = q
  BY <1>2 DEF ListenerOK, ListenerType, SocketOK
<1>4. udpListeners' = M
  OBVIOUS
<1>. HIDE DEF M, x
<1>5. UdpOK(M)
  BY <1>1, <1>2, <1>3 DEF IInv, UdpOK, ListenerOK
<1>6. \A k, a, c : Knows(M, k, a, c) <=> Knows(L, k, a, c)
  BY <1>1, <1>3 DEF Knows
<1>7. Agree(M, connections)
  BY <1>6 DEF IInv, Agree
<1>8. Private(M)
  BY <1>1, <1>3 DEF IInv, Private
<1>9. (\E k \in DOMAIN L : L[k].forwards) => \E k \in DOMAIN M : M[k].forwards
  BY <1>1, <1>3
<1>. QED
  BY <1>4, <1>5, <1>7, <1>8, <1>9 DEF IInv

\* A UDP listener's socket fails.
LEMMA UdpFailsKeeps ==
  ASSUME IInv, NEW l \in DOMAIN udpListeners, UdpFails(l), UNCHANGED stopping
  PROVE  IInv'
<1>1. PICK readable \in BOOLEAN :
        udpListeners' = [udpListeners EXCEPT ![l].socket = failed(@, readable)]
  BY DEF UdpFails
<1>. DEFINE q == failed(udpListeners[l].socket, readable)
            e == udpListeners[l].eventClose
<1>0. ListenerOK(udpListeners[l]) /\ e \in BOOLEAN
  BY DEF IInv, UdpOK, ListenerOK, ListenerType
<1>2. SocketOK(q)
  BY <1>0, FailedIsOK DEF ListenerOK
<1>3. udpListeners' = [udpListeners EXCEPT ![l].socket = q]
  BY <1>1
<1>. HIDE DEF q
<1>4. udpListeners' = [udpListeners EXCEPT ![l].socket = q, ![l].eventClose = e]
  BY <1>0, <1>3 DEF ListenerOK, ListenerType
<1>5. UNCHANGED <<tcpListeners, connections, stopping>>
  BY DEF UdpFails
<1>. HIDE DEF e
<1>. QED
  BY <1>0, <1>2, <1>4, <1>5, ListenerChangeKeeps

\* onTcpListenerClosed: what is closed has failed, and is created again.
LEMMA TcpListenerCloseKeeps ==
  ASSUME IInv, NEW t \in DOMAIN tcpListeners, TcpListenerClose(t), UNCHANGED stopping
  PROVE  IInv'
<1>1. PICK new \in TcpIds \ (DOMAIN tcpListeners \ {t}), ok \in BOOLEAN :
        tcpListeners' = tcpListenersAfter(t, new, ok)
  BY DEF TcpListenerClose
<1>. DEFINE rest == remove(tcpListeners, t)
            x    == newTcpListener(ok)
            T    == put(rest, new, x)
<1>2. tcpListeners[t].socket.error
  BY ClosedFailed DEF IInv, TcpOK, TcpListenerClose
<1>3. tcpListeners' = T
  BY <1>1, <1>2 DEF tcpListenersAfter
<1>4. SocketOK(x.socket) /\ x \in [socket : Socket, eventClose : BOOLEAN] /\ x.eventClose
  BY NewIsOK
<1>5. /\ DOMAIN rest = DOMAIN tcpListeners \ {t}
      /\ \A u \in DOMAIN tcpListeners : u # t => rest[u] = tcpListeners[u]
  BY DEF remove, Restrict
<1>. HIDE DEF rest, x
<1>6. /\ DOMAIN T = DOMAIN rest \cup {new} /\ T[new] = x
      /\ \A u \in DOMAIN rest : u # new => T[u] = rest[u]
  BY DEF put
<1>. HIDE DEF T
<1>7. TcpOK(T) /\ (\A u \in DOMAIN T : T[u].eventClose) /\ DOMAIN T # {}
  BY <1>4, <1>5, <1>6 DEF IInv, TcpOK
<1>. QED
  BY <1>3, <1>7 DEF IInv, TcpListenerClose

\* onUdpListenerClosed: a listener without connections forwards, has failed
\* and is created again.
LEMMA UdpListenerCloseKeeps ==
  ASSUME IInv, NEW l \in DOMAIN udpListeners, UdpListenerClose(l), UNCHANGED stopping
  PROVE  IInv'
<1>. DEFINE L == udpListeners
            T == TRUE
            F == FALSE
<1>0. ListenerOK(L[l]) /\ UNCHANGED <<tcpListeners, connections, stopping>>
  BY DEF IInv, UdpOK, UdpListenerClose
<1>1. CASE ignoresClose(l)
  <2>. DEFINE q == L[l].socket
  <2>1. udpListeners' = [L EXCEPT ![l].eventClose = F]
    BY <1>1 DEF UdpListenerClose
  <2>2. udpListeners' = [L EXCEPT ![l].socket = q, ![l].eventClose = F]
    BY <1>0, <2>1 DEF ListenerOK, ListenerType
  <2>3. SocketOK(q) /\ F \in BOOLEAN
    BY <1>0 DEF ListenerOK
  <2>. HIDE DEF q, F
  <2>. QED
    BY <1>0, <2>2, <2>3, ListenerChangeKeeps
<1>2. CASE ~ignoresClose(l)
  <2>1. PICK new \in UdpIds \ (DOMAIN L \ {l}), ok \in BOOLEAN :
          udpListeners' = udpListenersAfter(L, l, L[l].socket.error, new, ok)
    BY <1>2 DEF UdpListenerClose
  <2>2. L[l].socket.error
    BY <1>0, ClosedFailed DEF ListenerOK, UdpListenerClose
  <2>3. DOMAIN L[l].connections = {}
    BY <1>2 DEF ignoresClose
  <2>4. L[l].forwards
    BY <2>3 DEF IInv, Private, Single
  <2>. DEFINE rest == remove(L, l)
              x == newUdpListener(T, ok)
              M == put(rest, new, x)
  <2>5. udpListeners' = M
    BY <2>1, <2>2, <2>4 DEF udpListenersAfter
  <2>6. T \in BOOLEAN /\ T
    OBVIOUS
  <2>. HIDE DEF T
  <2>7. UdpOK(rest) /\ Agree(rest, connections)
    BY <2>3, RemoveListenerKeeps DEF IInv
  <2>8. /\ DOMAIN rest = DOMAIN L \ {l}
        /\ \A k \in DOMAIN L : k # l => rest[k] = L[k]
    BY DEF remove, Restrict
  <2>. HIDE DEF rest
  <2>9. new \in UdpIds \ DOMAIN rest
    BY <2>8
  <2>10. UdpOK(M) /\ Agree(M, connections)
    BY <2>6, <2>7, <2>9, AddListenerKeeps
  <2>11. x.forwards
    BY <2>6, NewIsOK
  <2>. HIDE DEF x
  <2>12. /\ DOMAIN M = DOMAIN rest \cup {new} /\ M[new] = x
         /\ \A k \in DOMAIN rest : k # new => M[k] = rest[k]
    BY DEF put
  <2>. HIDE DEF M
  <2>13. Private(M) /\ \E k \in DOMAIN M : M[k].forwards
    BY <2>8, <2>9, <2>11, <2>12 DEF IInv, Private
  <2>. QED
    BY <1>0, <2>5, <2>10, <2>13 DEF IInv
<1>. QED
  BY <1>1, <1>2

\* A connection has finished and waits to be deleted.
LEMMA FinishKeeps ==
  ASSUME IInv, NEW c \in DOMAIN connections, Finish(c), UNCHANGED stopping
  PROVE  IInv'
<1>. DEFINE C == connections
            D == [C EXCEPT ![c].eventClose = TRUE]
<1>1. connections' = D /\ UNCHANGED <<tcpListeners, udpListeners>>
  BY DEF Finish
<1>2. C[c] \in ConnectionRecord
  BY DEF IInv, ConnectionsOK
<1>3. /\ DOMAIN D = DOMAIN C
      /\ \A d \in DOMAIN C : D[d] \in ConnectionRecord
           /\ D[d].listener = C[d].listener /\ D[d].address = C[d].address
  BY <1>2 DEF IInv, ConnectionsOK, ConnectionRecord
<1>4. ConnectionsOK(D)
  BY <1>3 DEF IInv, ConnectionsOK
<1>. HIDE DEF D
<1>5. Agree(udpListeners, D)
  BY <1>3 DEF IInv, Agree
<1>. QED
  BY <1>1, <1>4, <1>5 DEF IInv

\* onConnectionClosed: the listener of a client's connection had no other.
LEMMA ConnectionCloseKeeps ==
  ASSUME IInv, NEW c \in DOMAIN connections, onConnectionClosed(c), UNCHANGED stopping
  PROVE  IInv'
<1>. DEFINE L == udpListeners
            l == connections[c].listener
            a == connections[c].address
            M == erase(l, c)
            D == remove(connections, c)
            F == FALSE
            T == TRUE
<1>1. /\ connections' = D /\ UNCHANGED tcpListeners
      /\ udpListeners' = IF deletedWith(l) THEN udpListenersAfter(M, l, F, l, T) ELSE M
  BY DEF onConnectionClosed
<1>2. /\ l \in DOMAIN L
      /\ UdpOK(M) /\ ConnectionsOK(D) /\ Agree(M, D)
      /\ DOMAIN M = DOMAIN L
      /\ \A k \in DOMAIN M : k # l => M[k] = L[k]
      /\ M[l].forwards = L[l].forwards
      /\ DOMAIN M[l].connections = DOMAIN L[l].connections \ {a}
  BY EraseKeeps DEF IInv
<1>3. a \in DOMAIN L[l].connections
  <2>1. Knows(L, l, a, c)
    BY DEF IInv, Agree
  <2>. QED
    BY <2>1 DEF Knows
<1>4. udpListenersAfter(M, l, F, l, T) = remove(M, l)
  BY DEF udpListenersAfter
<1>. HIDE DEF M, D, F, T
<1>5. CASE deletedWith(l)
  <2>. DEFINE R == remove(M, l)
  <2>1. ~L[l].forwards
    BY <1>5 DEF deletedWith
  <2>2. DOMAIN M[l].connections = {}
    BY <1>2, <1>3, <2>1 DEF IInv, Private, Single
  <2>3. UdpOK(R) /\ Agree(R, D)
    BY <1>2, <2>2, RemoveListenerKeeps
  <2>4. DOMAIN R = DOMAIN M \ {l} /\ \A k \in DOMAIN M : k # l => R[k] = M[k]
    BY DEF remove, Restrict
  <2>5. udpListeners' = R
    BY <1>1, <1>4, <1>5
  <2>. HIDE DEF R
  <2>6. Private(R)
    BY <1>2, <2>4 DEF IInv, Private
  <2>7. (\E k \in DOMAIN L : L[k].forwards) => \E k \in DOMAIN R : R[k].forwards
    BY <1>2, <2>1, <2>4
  <2>. QED
    BY <1>1, <1>2, <2>3, <2>5, <2>6, <2>7 DEF IInv
<1>6. CASE ~deletedWith(l)
  <2>1. L[l].forwards
    BY <1>6 DEF deletedWith
  <2>2. Private(M)
    BY <1>2, <2>1 DEF IInv, Private
  <2>3. \E k \in DOMAIN M : M[k].forwards
    BY <1>2, <2>1
  <2>. QED
    BY <1>1, <1>2, <1>6, <2>2, <2>3 DEF IInv
<1>. QED
  BY <1>5, <1>6

\* The destructor deletes a TCP listener.
LEMMA StopTcpKeeps ==
  ASSUME IInv, stopping, NEW t \in DOMAIN tcpListeners, StopTcpListener(t),
         UNCHANGED stopping
  PROVE  IInv'
<1>. DEFINE T == remove(tcpListeners, t)
<1>1. tcpListeners' = T /\ UNCHANGED <<udpListeners, connections>>
  BY DEF StopTcpListener
<1>2. /\ DOMAIN T = DOMAIN tcpListeners \ {t}
      /\ \A u \in DOMAIN tcpListeners : u # t => T[u] = tcpListeners[u]
  BY DEF remove, Restrict
<1>. HIDE DEF T
<1>3. TcpOK(T) /\ \A u \in DOMAIN T : T[u].eventClose
  BY <1>2 DEF IInv, TcpOK
<1>. QED
  BY <1>1, <1>3 DEF IInv

\* The destructor deletes a UDP listener, when no connection points to it.
LEMMA StopUdpKeeps ==
  ASSUME IInv, stopping, NEW l \in DOMAIN udpListeners, StopUdpListener(l),
         UNCHANGED stopping
  PROVE  IInv'
<1>. DEFINE L == udpListeners
            R == remove(L, l)
<1>1. udpListeners' = R /\ UNCHANGED <<tcpListeners, connections>>
  BY DEF StopUdpListener, udpListenersAfter
<1>2. DOMAIN connections = {}
  BY DEF StopUdpListener, goneBeforeUdp, empty
<1>3. DOMAIN L[l].connections = {}
  <2>. SUFFICES ASSUME NEW a \in DOMAIN L[l].connections PROVE FALSE
    OBVIOUS
  <2>1. Knows(L, l, a, L[l].connections[a])
    BY DEF Knows
  <2>. QED
    BY <1>2, <2>1 DEF IInv, Agree
<1>4. UdpOK(R) /\ Agree(R, connections)
  BY <1>3, RemoveListenerKeeps DEF IInv
<1>5. DOMAIN R = DOMAIN L \ {l} /\ \A k \in DOMAIN L : k # l => R[k] = L[k]
  BY DEF remove, Restrict
<1>. HIDE DEF R
<1>6. Private(R)
  BY <1>5 DEF IInv, Private
<1>. QED
  BY <1>1, <1>4, <1>6 DEF IInv

-----------------------------------------------------------------------------
(* The theorems.                                                            *)

\* The constructor of the process: one listener of each kind.
LEMMA InitInv == Init => IInv
<1>. SUFFICES ASSUME Init PROVE IInv
  OBVIOUS
<1>. DEFINE T == TRUE
<1>1. PICK t \in TcpIds : tcpListeners = put(empty, t, newTcpListener(T))
  BY DEF Init
<1>2. PICK l \in UdpIds : udpListeners = put(empty, l, newUdpListener(T, T))
  BY DEF Init
<1>3. T \in BOOLEAN /\ T
  OBVIOUS
<1>. DEFINE x == newTcpListener(T)
            y == newUdpListener(T, T)
<1>. HIDE DEF T
<1>4. /\ SocketOK(x.socket) /\ x \in [socket : Socket, eventClose : BOOLEAN]
      /\ x.eventClose
  BY <1>3, NewIsOK
<1>5. ListenerOK(y) /\ y.forwards /\ DOMAIN y.connections = {}
  BY <1>3, NewIsOK
<1>. HIDE DEF x, y
<1>6. DOMAIN tcpListeners = {t} /\ tcpListeners[t] = x
  BY <1>1 DEF put, empty, x
<1>7. DOMAIN udpListeners = {l} /\ udpListeners[l] = y
  BY <1>2 DEF put, empty, y
<1>8. DOMAIN connections = {} /\ ConnectionsOK(connections) /\ ~stopping
      /\ stopping \in BOOLEAN
  BY DEF Init, empty, ConnectionsOK
<1>9. TcpOK(tcpListeners) /\ UdpOK(udpListeners)
  BY <1>4, <1>5, <1>6, <1>7 DEF TcpOK, UdpOK
<1>10. Agree(udpListeners, connections) /\ Private(udpListeners)
  BY <1>5, <1>7, <1>8 DEF Agree, Knows, Private
<1>. QED
  BY <1>4, <1>5, <1>6, <1>7, <1>8, <1>9, <1>10 DEF IInv

\* Every step of the process and of its destructor keeps the invariant.
LEMMA NextInv == IInv /\ [Next]_vars => IInv'
<1>. SUFFICES ASSUME IInv, [Next]_vars PROVE IInv'
  OBVIOUS
<1>1. CASE Run /\ UNCHANGED stopping
  <2>1. ASSUME NEW t \in DOMAIN tcpListeners,
               TcpAccept(t) \/ TcpFails(t) \/ TcpListenerClose(t)
        PROVE  IInv'
    BY <1>1, <2>1, TcpAcceptKeeps, TcpFailsKeeps, TcpListenerCloseKeeps
  <2>2. ASSUME NEW l \in DOMAIN udpListeners,
               \/ UdpFails(l) \/ UdpListenerClose(l)
               \/ \E a \in Address : UdpAccept(l, a)
        PROVE  IInv'
    BY <1>1, <2>2, UdpFailsKeeps, UdpListenerCloseKeeps, UdpAcceptKeeps
  <2>3. ASSUME NEW c \in DOMAIN connections, Finish(c) \/ ConnectionClose(c)
        PROVE  IInv'
    BY <1>1, <2>3, FinishKeeps, ConnectionCloseKeeps DEF ConnectionClose
  <2>. QED
    BY <1>1, <2>1, <2>2, <2>3 DEF Run
<1>2. CASE stopping /\ Destroy /\ UNCHANGED stopping
  <2>1. ASSUME NEW c \in DOMAIN connections, StopConnection(c) PROVE IInv'
    BY <1>2, <2>1, ConnectionCloseKeeps DEF StopConnection
  <2>2. ASSUME NEW t \in DOMAIN tcpListeners, StopTcpListener(t) PROVE IInv'
    BY <1>2, <2>2, StopTcpKeeps
  <2>3. ASSUME NEW l \in DOMAIN udpListeners, StopUdpListener(l) PROVE IInv'
    BY <1>2, <2>3, StopUdpKeeps
  <2>. QED
    BY <1>2, <2>1, <2>2, <2>3 DEF Destroy
<1>3. CASE Stop
  BY <1>3 DEF IInv, Stop
<1>4. CASE UNCHANGED vars
  BY <1>4 DEF IInv, vars
<1>. QED
  BY <1>1, <1>2, <1>3, <1>4 DEF Next, Stopped

\* The maps of the process agree in every state it can reach.
THEOREM ServerInvariance == Spec => []IInv
<1>. QED
  BY InitInv, NextInv, PTL DEF Spec

\* The maps hold objects of their kinds, and no listener is closed but by an
\* error, so that onTcpListenerClosed and onUdpListenerClosed create it again.
THEOREM ServerTypes == Spec => []TypeOK
<1>. QED
  BY ServerInvariance, InvIsTyped, PTL

\* No pointer between listeners and connections dangles, whatever is created,
\* closed and deleted in whatever order, the destructor of Server included.
THEOREM PointersAreGood == Spec => []Registered
<1>. QED
  BY ServerInvariance, InvIsRegistered, PTL

\* The UDP listener that TcpListener::handle creates for a TCP connection has
\* exactly that connection as long as it exists: onConnectionClosed deletes both.
THEOREM ListenersArePrivate == Spec => []PrivateListeners
<1>. QED
  BY ServerInvariance, InvIsPrivate, PTL

\* While Server::run runs there is a TCP listener that comes back when its
\* socket is closed, and a UDP listener that forwards.
THEOREM ListenersComeBack == Spec => []ListenersStay
<1>. QED
  BY ServerInvariance, InvKeepsListeners, PTL

=============================================================================
