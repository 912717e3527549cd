------------------------ MODULE BT4Handshake_proofs ------------------------
(***************************************************************************)
(* What holds of active confirmation for any number of radios, epochs and  *)
(* connections: the entries the listener leaves for the main thread are    *)
(* processed once, and the keys a secret is made of are those the two      *)
(* sides sent each other.                                                  *)
(*                                                                         *)
(* The invariants follow a connection through its threads: types first,    *)
(* then who holds the lock and where the drain loop is, then which key is  *)
(* where, and from these the three properties.                             *)
(***************************************************************************)
EXTENDS BT4Handshake, FiniteSetTheorems, TLAPS

-----------------------------------------------------------------------------
(***************************************************************************)
(* Sequences of connections: replacing one keeps the others.               *)
(***************************************************************************)
LEMMA SetConn ==
    ASSUME conns \in Seq(Connection), NEW c \in DOMAIN conns, NEW r \in Connection,
           conns' = [conns EXCEPT ![c] = r]
    PROVE  /\ conns' \in Seq(Connection) /\ Len(conns') = Len(conns)
           /\ DOMAIN conns' = DOMAIN conns
           /\ conns'[c] = r
           /\ \A d \in DOMAIN conns : d # c => conns'[d] = conns[d]
  OBVIOUS

LEMMA ConnType ==
    ASSUME conns \in Seq(Connection), NEW c \in DOMAIN conns
    PROVE  conns[c] \in Connection
  OBVIOUS

\* The next connection gets the next number.
LEMMA AddConn ==
    ASSUME conns \in Seq(Connection), NEW r \in Connection, conns' = Append(conns, r)
    PROVE  /\ conns' \in Seq(Connection) /\ Len(conns') = Len(conns) + 1
           /\ DOMAIN conns' = DOMAIN conns \cup {Len(conns) + 1}
           /\ Len(conns) + 1 \notin DOMAIN conns
           /\ conns'[Len(conns) + 1] = r
           /\ \A d \in DOMAIN conns : conns'[d] = conns[d]
  OBVIOUS

\* What is done to one connection yields a connection, and changes the
\* fields it names.
LEMMA ConnFields ==
    ASSUME NEW r \in Connection, NEW k \in Key, NEW s \in Secret \cup {NULL}
    PROVE  /\ [r EXCEPT !.request = k] \in Connection
           /\ [r EXCEPT !.reply = k] \in Connection
           /\ [r EXCEPT !.open = FALSE] \in Connection
           /\ [r EXCEPT !.accepted = TRUE] \in Connection
           /\ [r EXCEPT !.stored = TRUE] \in Connection
           /\ [r EXCEPT !.atConnector = s] \in Connection
           /\ [r EXCEPT !.processed = @ + 1, !.atListener = s] \in Connection
  <1>1. r.processed + 1 \in Nat
    BY DEF Connection
  <1>2. \A p \in Nat : [r EXCEPT !.processed = p, !.atListener = s] \in Connection
    BY DEF Connection
  <1>3. [r EXCEPT !.processed = @ + 1, !.atListener = s] \in Connection
    BY <1>1, <1>2
  <1>4. /\ [r EXCEPT !.request = k] \in Connection
        /\ [r EXCEPT !.reply = k] \in Connection
        /\ [r EXCEPT !.open = FALSE] \in Connection
    BY DEF Connection
  <1>5. /\ [r EXCEPT !.accepted = TRUE] \in Connection
        /\ [r EXCEPT !.stored = TRUE] \in Connection
        /\ [r EXCEPT !.atConnector = s] \in Connection
    BY DEF Connection
  <1> QED BY <1>3, <1>4, <1>5

-----------------------------------------------------------------------------
(***************************************************************************)
(* Who holds listenAdvertsMutex_, and where the drain loop is.             *)
(***************************************************************************)
LockInv ==
    \A n \in Node :
        /\ lock[n] = "main" <=> pc[n] \in {"drain", "clear"}
        /\ lock[n] = "listener" <=> lpc[n] = "wait"

LoopInv ==
    \A n \in Node :
        /\ next[n] \in 1 .. Len(listenAdverts[n]) + 1
        /\ pc[n] \notin {"drain", "clear"} => next[n] = 1
        /\ pc[n] = "clear" => next[n] = Len(listenAdverts[n]) + 1

(***************************************************************************)
(* Where a thread is, it has what it works with.                           *)
(***************************************************************************)
SocketInv ==
    \A n \in Node : pc[n] \in {"send", "recv", "close"} =>
        /\ socket[n] \in DOMAIN conns /\ conns[socket[n]].from = n
        /\ pc[n] = "send" => conns[socket[n]].request = NULL
        /\ pc[n] = "recv" => conns[socket[n]].request = dhExchange[n]

ClientInv ==
    \A n \in Node : lpc[n] # "accept" =>
        /\ client[n] \in DOMAIN conns
        /\ conns[client[n]].to = n /\ conns[client[n]].accepted
        /\ dhExchangeCopy[n] \in Key /\ dhExchangeCopy[n] <= dhExchange[n]
        /\ lpc[n] \in {"recv", "send"} =>
              conns[client[n]].reply = NULL /\ ~conns[client[n]].stored
        /\ lpc[n] \in {"send", "store"} =>
              remoteMessage[n] # NULL /\ remoteMessage[n] = conns[client[n]].request
        /\ lpc[n] = "store" =>
              conns[client[n]].reply = dhExchangeCopy[n] /\ ~conns[client[n]].stored

\* An entry holds the key of its connection, which has been answered.
EntryInv ==
    \A n \in Node : \A i \in 1 .. Len(listenAdverts[n]) :
        /\ listenAdverts[n][i].conn \in DOMAIN conns
        /\ conns[listenAdverts[n][i].conn].to = n
        /\ listenAdverts[n][i].key = conns[listenAdverts[n][i].conn].request
        /\ conns[listenAdverts[n][i].conn].reply \in Key
        /\ conns[listenAdverts[n][i].conn].reply <= dhExchange[n]

\* A secret is of a connection whose two keys are known, and neither changes.
SecretInv ==
    \A c \in DOMAIN conns :
        /\ ~conns[c].accepted => conns[c].reply = NULL /\ ~conns[c].stored
        /\ conns[c].atConnector # NULL =>
              /\ conns[c].request # NULL /\ conns[c].reply # NULL
              /\ conns[c].atConnector =
                    [connector |-> conns[c].request, listener |-> conns[c].reply]
        /\ conns[c].atListener # NULL =>
              /\ conns[c].request # NULL /\ conns[c].reply # NULL
              /\ conns[c].atListener.connector = conns[c].request
              /\ conns[c].atListener.listener >= conns[c].reply

KeysInv == SocketInv /\ ClientInv /\ EntryInv /\ SecretInv

IInv == HandshakeTypeOK /\ LockInv /\ LoopInv /\ KeysInv

-----------------------------------------------------------------------------
LEMMA InitIInv == Init => IInv
  <1> SUFFICES ASSUME Init PROVE IInv
    OBVIOUS
  <1>1. HandshakeTypeOK
    <2>1. MaxEpochs \in Nat /\ MaxConnections \in Nat
      BY HandshakeAssumption
    <2> QED BY <2>1 DEF Init, HandshakeTypeOK, Key
  <1>2. LockInv /\ LoopInv
    BY DEF Init, LockInv, LoopInv
  <1>3. KeysInv
    BY DEF Init, KeysInv, SocketInv, ClientInv, EntryInv, SecretInv
  <1> QED BY <1>1, <1>2, <1>3 DEF IInv

(***************************************************************************)
(* The steps that change one connection, each with the record it becomes.  *)
(***************************************************************************)
Becomes(c, r) ==
    c \in DOMAIN conns /\ r \in Connection /\ conns' = [conns EXCEPT ![c] = r]

LEMMA BecomesKeeps ==
    ASSUME IInv, NEW c, NEW r, Becomes(c, r)
    PROVE  /\ conns' \in Seq(Connection) /\ Len(conns') = Len(conns)
           /\ DOMAIN conns' = DOMAIN conns /\ c \in DOMAIN conns
           /\ conns[c] \in Connection /\ conns'[c] = r
           /\ \A d \in DOMAIN conns : d # c => conns'[d] = conns[d]
  BY SetConn, ConnType DEF Becomes, IInv, HandshakeTypeOK

\* The entry the drain loop is at.
Entry(n) == listenAdverts[n][next[n]]

EntrySecret(n) == [connector |-> Entry(n).key, listener |-> dhExchange[n]]

\* What processing its entry makes of connection c.
AsProcessed(c, v) == [conns[c] EXCEPT !.processed = @ + 1, !.atListener = v]

LEMMA EntryOfLoop ==
    ASSUME IInv, NEW n \in Node, NEW works \in BOOLEAN, ProcessEntry(n, works)
    PROVE  /\ next[n] \in 1 .. Len(listenAdverts[n])
           /\ Entry(n) \in [conn : ConnID, key : Key]
           /\ Entry(n).conn \in DOMAIN conns /\ conns[Entry(n).conn].to = n
           /\ Entry(n).key = conns[Entry(n).conn].request
           /\ conns[Entry(n).conn].reply \in Key
           /\ conns[Entry(n).conn].reply <= dhExchange[n]
           /\ Becomes(Entry(n).conn,
                      AsProcessed(Entry(n).conn, IF works THEN EntrySecret(n) ELSE NULL))
  <1>1. listenAdverts[n] \in Seq([conn : ConnID, key : Key]) /\ next[n] \in Nat
    BY DEF IInv, HandshakeTypeOK
  <1>2. next[n] \in 1 .. Len(listenAdverts[n])
    <2>1. next[n] \in 1 .. Len(listenAdverts[n]) + 1
      BY DEF IInv, LoopInv
    <2>2. next[n] <= Len(listenAdverts[n])
      BY DEF ProcessEntry
    <2>3. Len(listenAdverts[n]) \in Nat
      BY <1>1
    <2> QED BY ONLY <1>1, <2>1, <2>2, <2>3
  <1>3. Entry(n) \in [conn : ConnID, key : Key]
    <2>1. ASSUME NEW S, NEW seq \in Seq(S), NEW i \in 1 .. Len(seq) PROVE seq[i] \in S
      OBVIOUS
    <2> QED BY <1>1, <1>2, <2>1 DEF Entry
  <1>4. /\ Entry(n).conn \in DOMAIN conns /\ conns[Entry(n).conn].to = n
        /\ Entry(n).key = conns[Entry(n).conn].request
        /\ conns[Entry(n).conn].reply \in Key
        /\ conns[Entry(n).conn].reply <= dhExchange[n]
    BY <1>2 DEF IInv, KeysInv, EntryInv, Entry
  <1>5. EntrySecret(n) \in Secret /\ 0 \in Key
    BY <1>3, HandshakeAssumption DEF EntrySecret, Secret, IInv, HandshakeTypeOK, Key
  <1>6. conns[Entry(n).conn] \in Connection
    BY <1>4, ConnType DEF IInv, HandshakeTypeOK
  <1>7. [conns[Entry(n).conn] EXCEPT !.processed = @ + 1,
                                     !.atListener = IF works THEN EntrySecret(n) ELSE NULL]
           \in Connection
    BY <1>5, <1>6, ConnFields
  <1>8. conns' = [conns EXCEPT
                    ![Entry(n).conn] =
                       [conns[Entry(n).conn] EXCEPT
                          !.processed = @ + 1,
                          !.atListener = IF works THEN EntrySecret(n) ELSE NULL]]
    BY DEF ProcessEntry, Entry, EntrySecret
  <1> QED BY <1>2, <1>3, <1>4, <1>7, <1>8 DEF Becomes, AsProcessed

LEMMA SendSets ==
    ASSUME IInv, NEW n \in Node, Send(n, TRUE)
    PROVE  Becomes(socket[n], [conns[socket[n]] EXCEPT !.request = dhExchange[n]])
  <1>1. socket[n] \in DOMAIN conns
    BY DEF Send, IInv, KeysInv, SocketInv
  <1>2. conns[socket[n]] \in Connection /\ dhExchange[n] \in Key
    BY <1>1, ConnType DEF IInv, HandshakeTypeOK
  <1>3. [conns[socket[n]] EXCEPT !.request = dhExchange[n]] \in Connection
    BY <1>2, ConnFields
  <1> QED BY <1>1, <1>3 DEF Becomes, Send

LEMMA RecvSets ==
    ASSUME IInv, NEW n \in Node, Recv(n)
    PROVE  /\ conns[socket[n]].reply # NULL
           /\ Becomes(socket[n],
                      [conns[socket[n]] EXCEPT
                         !.atConnector = [connector |-> dhExchange[n],
                                          listener  |-> conns[socket[n]].reply]])
  <1>1. socket[n] \in DOMAIN conns
    BY DEF Recv, IInv, KeysInv, SocketInv
  <1>2. conns[socket[n]] \in Connection /\ dhExchange[n] \in Key
    BY <1>1, ConnType DEF IInv, HandshakeTypeOK
  <1>3. conns[socket[n]].reply # NULL
    BY DEF Recv
  <1>4. [connector |-> dhExchange[n], listener |-> conns[socket[n]].reply] \in Secret
    BY <1>2, <1>3 DEF Connection, Secret
  <1>5. [conns[socket[n]] EXCEPT
           !.atConnector = [connector |-> dhExchange[n],
                            listener  |-> conns[socket[n]].reply]] \in Connection
    BY <1>2, <1>4, ConnFields
  <1> QED BY <1>1, <1>3, <1>5 DEF Becomes, Recv

LEMMA CloseSets ==
    ASSUME IInv, NEW n \in Node, CloseSocket(n)
    PROVE  Becomes(socket[n], [conns[socket[n]] EXCEPT !.open = FALSE])
  <1>1. socket[n] \in DOMAIN conns
    BY DEF CloseSocket, IInv, KeysInv, SocketInv
  <1>2. conns[socket[n]] \in Connection /\ dhExchange[n] \in Key
    BY <1>1, ConnType DEF IInv, HandshakeTypeOK
  <1>3. [conns[socket[n]] EXCEPT !.open = FALSE] \in Connection
    BY <1>2, ConnFields
  <1> QED BY <1>1, <1>3 DEF Becomes, CloseSocket

LEMMA AcceptSets ==
    ASSUME IInv, NEW n \in Node, Accept(n)
    PROVE  \E c \in DOMAIN conns :
              /\ conns[c].to = n /\ ~conns[c].accepted
              /\ client' = [client EXCEPT ![n] = c]
              /\ Becomes(c, [conns[c] EXCEPT !.accepted = TRUE])
  <1>1. PICK c \in DOMAIN conns :
          /\ conns[c].to = n /\ ~conns[c].accepted
          /\ conns' = [conns EXCEPT ![c].accepted = TRUE]
          /\ client' = [client EXCEPT ![n] = c]
    BY DEF Accept
  <1>2. conns[c] \in Connection /\ dhExchange[n] \in Key
    BY <1>1, ConnType DEF IInv, HandshakeTypeOK
  <1>3. [conns[c] EXCEPT !.accepted = TRUE] \in Connection
    BY <1>2, ConnFields
  <1> QED BY <1>1, <1>3 DEF Becomes

LEMMA ListenSendSets ==
    ASSUME IInv, NEW n \in Node, ListenSend(n)
    PROVE  Becomes(client[n], [conns[client[n]] EXCEPT !.reply = dhExchangeCopy[n]])
  <1>1. client[n] \in DOMAIN conns /\ dhExchangeCopy[n] \in Key
    BY DEF ListenSend, IInv, KeysInv, ClientInv
  <1>2. conns[client[n]] \in Connection
    BY <1>1, ConnType DEF IInv, HandshakeTypeOK
  <1>3. [conns[client[n]] EXCEPT !.reply = dhExchangeCopy[n]] \in Connection
    BY <1>1, <1>2, ConnFields
  <1> QED BY <1>1, <1>3 DEF Becomes, ListenSend

LEMMA StoreSets ==
    ASSUME IInv, NEW n \in Node, Store(n)
    PROVE  /\ [conn |-> client[n], key |-> remoteMessage[n]] \in [conn : ConnID, key : Key]
           /\ Becomes(client[n], [conns[client[n]] EXCEPT !.stored = TRUE])
  <1>1. client[n] \in DOMAIN conns /\ remoteMessage[n] # NULL
    BY DEF Store, IInv, KeysInv, ClientInv
  <1>2. conns[client[n]] \in Connection /\ dhExchange[n] \in Key
    BY <1>1, ConnType DEF IInv, HandshakeTypeOK
  <1>3. [conns[client[n]] EXCEPT !.stored = TRUE] \in Connection
    BY <1>2, ConnFields
  <1>4. client[n] \in ConnID /\ remoteMessage[n] \in Key
    BY <1>1, HandshakeAssumption DEF IInv, HandshakeTypeOK, ConnID
  <1> QED BY <1>1, <1>3, <1>4 DEF Becomes, Store

\* A new connection, and the restart of the listening socket.
LEMMA ConnectAdds ==
    ASSUME IInv, NEW n \in Node, NEW m \in Node, Connect(n, m)
    PROVE  /\ Len(conns) < MaxConnections /\ Len(conns) + 1 \in ConnID
           /\ conns' \in Seq(Connection) /\ Len(conns') = Len(conns) + 1
           /\ DOMAIN conns' = DOMAIN conns \cup {Len(conns) + 1}
           /\ Len(conns) + 1 \notin DOMAIN conns
           /\ conns'[Len(conns) + 1] = NewConnection(n, m)
           /\ \A d \in DOMAIN conns : conns'[d] = conns[d]
  <1>1. NewConnection(n, m) \in Connection
    BY DEF NewConnection, Connection
  <1>2. conns \in Seq(Connection) /\ Len(conns) \in Nat
    BY DEF IInv, HandshakeTypeOK
  <1>3. Len(conns) < MaxConnections /\ conns' = Append(conns, NewConnection(n, m))
    BY DEF Connect
  <1> QED BY <1>1, <1>2, <1>3, AddConn, HandshakeAssumption DEF ConnID

LEMMA AcceptFailsSets ==
    ASSUME IInv, NEW n \in Node, AcceptFails(n)
    PROVE  /\ conns' \in Seq(Connection) /\ Len(conns') = Len(conns)
           /\ DOMAIN conns' = DOMAIN conns
           /\ \A c \in DOMAIN conns :
                conns'[c] = IF conns[c].to = n THEN [conns[c] EXCEPT !.accepted = TRUE]
                                               ELSE conns[c]
  <1> DEFINE r(c) == IF conns[c].to = n THEN [conns[c] EXCEPT !.accepted = TRUE]
                                         ELSE conns[c]
  <1>1. /\ conns \in Seq(Connection) /\ Len(conns) \in Nat
        /\ DOMAIN conns = 1 .. Len(conns)
    BY DEF IInv, HandshakeTypeOK
  <1>2. \A c \in 1 .. Len(conns) : r(c) \in Connection
    <2>1. \A c \in 1 .. Len(conns) : conns[c] \in Connection
      BY <1>1
    <2>2. \A o \in Connection : [o EXCEPT !.accepted = TRUE] \in Connection
      BY DEF Connection
    <2> QED BY <2>1, <2>2
  <1>3. conns' = [c \in 1 .. Len(conns) |-> r(c)]
    BY <1>1 DEF AcceptFails
  <1> HIDE DEF r
  <1>4. conns' \in Seq(Connection) /\ Len(conns') = Len(conns) /\ DOMAIN conns' = DOMAIN conns
    BY <1>1, <1>2, <1>3
  <1>5. \A c \in DOMAIN conns : conns'[c] = r(c)
    BY <1>1, <1>3
  <1> QED BY <1>4, <1>5 DEF r

-----------------------------------------------------------------------------
\* Every step keeps the types.
LEMMA StepTypeOK == ASSUME IInv, [Next]_vars PROVE HandshakeTypeOK'
  <1> USE HandshakeAssumption DEF HandshakeTypeOK
  <1>0. /\ HandshakeTypeOK /\ Len(conns) \in Nat /\ DOMAIN conns = 1 .. Len(conns)
    <2>1. HandshakeTypeOK
      BY DEF IInv
    <2>2. ASSUME NEW S, NEW seq \in Seq(S)
          PROVE  Len(seq) \in Nat /\ DOMAIN seq = 1 .. Len(seq)
      BY ONLY <2>2
    <2> QED BY <2>1, <2>2
  <1>1. ASSUME NEW n \in Node, ChangeEpoch(n) PROVE HandshakeTypeOK'
    <2>1. dhExchange[n] + 1 \in Key
      BY <1>0, <1>1 DEF ChangeEpoch, Key
    <2> QED BY <1>0, <1>1, <2>1 DEF ChangeEpoch, mainVars, listenerVars
  <1>2. ASSUME NEW n \in Node, NEW m \in Node, DoneWithDevice(n, m) PROVE HandshakeTypeOK'
    BY <1>0, <1>2 DEF DoneWithDevice, mainVars, listenerVars
  <1>3. ASSUME NEW n \in Node, StartHandshake(n) PROVE HandshakeTypeOK'
    <2>1. PICK peers \in SUBSET Node : toHandshake' = [toHandshake EXCEPT ![n] = peers]
      BY <1>3 DEF StartHandshake
    <2> QED BY <1>0, <1>3, <2>1 DEF StartHandshake, listenerVars
  <1>4. ASSUME NEW n \in Node, LockListenAdverts(n) PROVE HandshakeTypeOK'
    BY <1>0, <1>4 DEF LockListenAdverts, listenerVars
  <1>5. ASSUME NEW n \in Node, NEW works \in BOOLEAN, ProcessEntry(n, works)
        PROVE  HandshakeTypeOK'
    <2>1. conns' \in Seq(Connection) /\ Len(conns') = Len(conns)
      <3>1. \E c, r : Becomes(c, r)
        <4>1. Becomes(Entry(n).conn,
                      AsProcessed(Entry(n).conn, IF works THEN EntrySecret(n) ELSE NULL))
          BY <1>5, EntryOfLoop
        <4> QED BY ONLY <4>1
      <3> QED BY <3>1, BecomesKeeps
    <2>2. confirmed' \in [Node -> SUBSET Node]
      <3>1. conns[Entry(n).conn].from \in Node
        <4>1. Entry(n).conn \in DOMAIN conns
          BY <1>5, EntryOfLoop
        <4>2. conns[Entry(n).conn] \in Connection
          BY <1>0, <4>1, ConnType
        <4> QED BY ONLY <4>2 DEF Connection
      <3>2. confirmed' = [confirmed EXCEPT
                            ![n] = IF works THEN @ \cup {conns[Entry(n).conn].from} ELSE @]
        BY <1>5 DEF ProcessEntry, Entry
      <3> QED BY <1>0, <3>1, <3>2
    <2>3. next' \in [Node -> Nat]
      <3>1. next' = [next EXCEPT ![n] = @ + 1]
        BY <1>5 DEF ProcessEntry
      <3>2. next \in [Node -> Nat]
        BY <1>0
      <3> QED BY ONLY <3>1, <3>2
    <2> QED BY <1>0, <1>5, <2>1, <2>2, <2>3 DEF ProcessEntry, mainVars, listenerVars
  <1>6. ASSUME NEW n \in Node, NEW works \in BOOLEAN, Send(n, works) PROVE HandshakeTypeOK'
    <2>1. conns' \in Seq(Connection) /\ Len(conns') = Len(conns)
      <3>1. CASE works
        BY <1>6, <3>1, SendSets, BecomesKeeps
      <3>2. CASE ~works
        BY <1>0, <1>6, <3>2 DEF Send
      <3> QED BY <3>1, <3>2
    <2> QED BY <1>0, <1>6, <2>1 DEF Send, listenerVars
  <1>7. ASSUME NEW n \in Node, FinishEntries(n) PROVE HandshakeTypeOK'
    BY <1>0, <1>7 DEF FinishEntries, listenerVars
  <1>8. ASSUME NEW n \in Node, ClearListenAdverts(n) PROVE HandshakeTypeOK'
    <2>1. listenAdverts' \in [Node -> Seq([conn : ConnID, key : Key])]
      <3>1. listenAdverts' = [listenAdverts EXCEPT ![n] = <<>>]
        BY <1>8 DEF ClearListenAdverts
      <3>2. <<>> \in Seq([conn : ConnID, key : Key])
        OBVIOUS
      <3> QED BY <1>0, <3>1, <3>2
    <2> QED BY <1>0, <1>8, <2>1 DEF ClearListenAdverts, listenerVars
  <1>9. ASSUME NEW n \in Node, NEW m \in Node, PassDevice(n, m) PROVE HandshakeTypeOK'
    BY <1>0, <1>9 DEF PassDevice, listenerVars
  <1>10. ASSUME NEW n \in Node, NEW m \in Node, Connect(n, m) PROVE HandshakeTypeOK'
    <2>1. /\ conns' \in Seq(Connection) /\ Len(conns') <= MaxConnections
          /\ Len(conns) + 1 \in ConnID
      BY <1>0, <1>10, ConnectAdds
    <2> QED BY <1>0, <1>10, <2>1 DEF Connect, listenerVars
  <1>11. ASSUME NEW n \in Node, Recv(n) PROVE HandshakeTypeOK'
    <2>1. /\ conns' \in Seq(Connection) /\ Len(conns') = Len(conns)
          /\ conns[socket[n]] \in Connection
      BY <1>11, RecvSets, BecomesKeeps
    <2>2. confirmed' = [confirmed EXCEPT ![n] = @ \cup {conns[socket[n]].to}]
      BY <1>11 DEF Recv
    <2>3. confirmed' \in [Node -> SUBSET Node]
      BY <1>0, <2>1, <2>2 DEF Connection
    <2> QED BY <1>0, <1>11, <2>1, <2>3 DEF Recv, listenerVars
  <1>12. ASSUME NEW n \in Node, RecvFails(n) PROVE HandshakeTypeOK'
    BY <1>0, <1>12 DEF RecvFails, listenerVars
  <1>13. ASSUME NEW n \in Node, CloseSocket(n) PROVE HandshakeTypeOK'
    <2>1. /\ conns' \in Seq(Connection) /\ Len(conns') = Len(conns)
      BY <1>13, CloseSets, BecomesKeeps
    <2> QED BY <1>0, <1>13, <2>1 DEF CloseSocket, listenerVars
  <1>14. ASSUME NEW n \in Node, FinishHandshake(n) PROVE HandshakeTypeOK'
    BY <1>0, <1>14 DEF FinishHandshake, listenerVars
  <1>15. ASSUME NEW n \in Node, Accept(n) PROVE HandshakeTypeOK'
    <2>1. PICK c \in DOMAIN conns :
            /\ client' = [client EXCEPT ![n] = c]
            /\ Becomes(c, [conns[c] EXCEPT !.accepted = TRUE])
      BY <1>15, AcceptSets
    <2>2. conns' \in Seq(Connection) /\ Len(conns') = Len(conns)
      BY <2>1, BecomesKeeps
    <2>3. c \in ConnID
      BY <1>0 DEF ConnID
    <2> QED BY <1>0, <1>15, <2>1, <2>2, <2>3 DEF Accept, GoTo, mainVars
  <1>16. ASSUME NEW n \in Node, AcceptFails(n) PROVE HandshakeTypeOK'
    <2>1. conns' \in Seq(Connection) /\ Len(conns') = Len(conns)
      BY <1>16, AcceptFailsSets
    <2> QED BY <1>0, <1>16, <2>1 DEF AcceptFails, mainVars, listenerVars
  <1>17. ASSUME NEW n \in Node, ListenRecv(n) PROVE HandshakeTypeOK'
    <2>1. conns[client[n]].request \in Key
      <3>1. client[n] \in DOMAIN conns
        BY <1>17 DEF ListenRecv, IInv, KeysInv, ClientInv
      <3> QED BY <1>0, <1>17, <3>1, ConnType DEF ListenRecv, Connection
    <2> QED BY <1>0, <1>17, <2>1 DEF ListenRecv, GoTo, mainVars
  <1>18. ASSUME NEW n \in Node, ListenSend(n) PROVE HandshakeTypeOK'
    <2>1. conns' \in Seq(Connection) /\ Len(conns') = Len(conns)
      BY <1>18, ListenSendSets, BecomesKeeps
    <2> QED BY <1>0, <1>18, <2>1 DEF ListenSend, GoTo, mainVars
  <1>19. ASSUME NEW n \in Node, ListenFails(n) PROVE HandshakeTypeOK'
    BY <1>0, <1>19 DEF ListenFails, GoTo, mainVars
  <1>20. ASSUME NEW n \in Node, Store(n) PROVE HandshakeTypeOK'
    <2> DEFINE e == [conn |-> client[n], key |-> remoteMessage[n]]
    <2>1. /\ conns' \in Seq(Connection) /\ Len(conns') = Len(conns)
          /\ e \in [conn : ConnID, key : Key]
      BY <1>20, StoreSets, BecomesKeeps
    <2>2. listenAdverts' = [listenAdverts EXCEPT ![n] = Append(@, e)]
      BY <1>20 DEF Store
    <2> HIDE DEF e
    <2>3. listenAdverts' \in [Node -> Seq([conn : ConnID, key : Key])]
      <3>1. ASSUME NEW S, NEW seq \in Seq(S), NEW x \in S PROVE Append(seq, x) \in Seq(S)
        OBVIOUS
      <3>2. Append(listenAdverts[n], e) \in Seq([conn : ConnID, key : Key])
        BY <1>0, <2>1, <3>1
      <3> QED BY <1>0, <2>2, <3>2
    <2> QED BY <1>0, <1>20, <2>1, <2>3 DEF Store, GoTo, mainVars
  <1>21. ASSUME NEW n \in Node, WaitClose(n) PROVE HandshakeTypeOK'
    BY <1>0, <1>21 DEF WaitClose, GoTo, mainVars
  <1>22. ASSUME NEW n \in Node, CloseClient(n) PROVE HandshakeTypeOK'
    BY <1>0, <1>22 DEF CloseClient, GoTo, mainVars
  <1>23. CASE UNCHANGED vars
    BY <1>0, <1>23 DEF vars, mainVars, listenerVars
  <1> QED BY <1>1, <1>2, <1>3, <1>4, <1>5, <1>6, <1>7, <1>8, <1>9, <1>10, <1>11, <1>12,
             <1>13, <1>14, <1>15, <1>16, <1>17, <1>18, <1>19, <1>20, <1>21, <1>22, <1>23
          DEF Next, Main, Listener

(***************************************************************************)
(* The lock and the loop.  The listener adds an entry only under the lock, *)
(* which the main thread holds from the first entry to clear().            *)
(***************************************************************************)
LEMMA StepLockInv == ASSUME IInv, [Next]_vars PROVE LockInv'
  <1> USE DEF LockInv
  <1>0. /\ LockInv
        /\ pc \in [Node -> {"idle", "lock", "drain", "clear", "next", "send", "recv", "close"}]
        /\ lpc \in [Node -> {"accept", "recv", "send", "store", "wait", "close"}]
        /\ lock \in [Node -> {"free", "main", "listener"}]
    BY DEF IInv, HandshakeTypeOK
  <1>1. ASSUME NEW n \in Node, Main(n) PROVE LockInv'
    <2>1. CASE LockListenAdverts(n) \/ ClearListenAdverts(n)
      BY <1>0, <2>1 DEF LockListenAdverts, ClearListenAdverts, listenerVars
    <2>2. CASE StartHandshake(n) \/ FinishEntries(n)
      BY <1>0, <2>2 DEF StartHandshake, FinishEntries, listenerVars
    <2>4. ASSUME NEW works \in BOOLEAN, ProcessEntry(n, works) \/ Send(n, works) PROVE LockInv'
      BY <1>0, <2>4 DEF ProcessEntry, Send, mainVars, listenerVars
    <2>5. ASSUME NEW m \in Node, PassDevice(n, m) \/ Connect(n, m) PROVE LockInv'
      BY <1>0, <2>5 DEF PassDevice, Connect, listenerVars
    <2>3. CASE Recv(n) \/ RecvFails(n) \/ CloseSocket(n) \/ FinishHandshake(n)
      BY <1>0, <2>3 DEF Recv, RecvFails, CloseSocket, FinishHandshake, listenerVars
    <2> QED BY <1>1, <2>1, <2>2, <2>3, <2>4, <2>5 DEF Main
  <1>2. ASSUME NEW n \in Node, Listener(n) PROVE LockInv'
    <2>1. CASE Store(n) \/ WaitClose(n)
      BY <1>0, <2>1 DEF Store, WaitClose, GoTo, mainVars
    <2>2. CASE \/ Accept(n) \/ AcceptFails(n) \/ ListenRecv(n) \/ ListenSend(n)
               \/ ListenFails(n) \/ CloseClient(n)
      BY <1>0, <2>2 DEF Accept, AcceptFails, ListenRecv, ListenSend, ListenFails,
                        CloseClient, GoTo, mainVars, listenerVars
    <2> QED BY <1>2, <2>1, <2>2 DEF Listener
  <1>3. CASE \E n \in Node : ChangeEpoch(n) \/ \E m \in Node : DoneWithDevice(n, m)
    BY <1>0, <1>3 DEF ChangeEpoch, DoneWithDevice, mainVars, listenerVars
  <1>4. CASE UNCHANGED vars
    BY <1>0, <1>4 DEF vars, mainVars, listenerVars
  <1> QED BY <1>1, <1>2, <1>3, <1>4 DEF Next

LEMMA StepLoopInv == ASSUME IInv, [Next]_vars PROVE LoopInv'
  <1> USE DEF LoopInv
  <1>0. /\ LockInv /\ LoopInv
        /\ pc \in [Node -> {"idle", "lock", "drain", "clear", "next", "send", "recv", "close"}]
        /\ next \in [Node -> Nat] /\ \A n \in Node : Len(listenAdverts[n]) \in Nat
        /\ listenAdverts \in [Node -> Seq([conn : ConnID, key : Key])]
    <2>1. listenAdverts \in [Node -> Seq([conn : ConnID, key : Key])]
      BY DEF IInv, HandshakeTypeOK
    <2>2. \A n \in Node : Len(listenAdverts[n]) \in Nat
      BY <2>1
    <2> QED BY <2>1, <2>2 DEF IInv, HandshakeTypeOK
  <1>1. ASSUME NEW n \in Node, LockListenAdverts(n) PROVE LoopInv'
    BY <1>0, <1>1 DEF LockListenAdverts
  <1>2. ASSUME NEW n \in Node, NEW works \in BOOLEAN, ProcessEntry(n, works) PROVE LoopInv'
    BY <1>0, <1>2 DEF ProcessEntry, mainVars
  <1>3. ASSUME NEW n \in Node, FinishEntries(n) PROVE LoopInv'
    BY <1>0, <1>3 DEF FinishEntries
  <1>4. ASSUME NEW n \in Node, ClearListenAdverts(n) PROVE LoopInv'
    BY <1>0, <1>4 DEF ClearListenAdverts
  <1>5. ASSUME NEW n \in Node,
               \/ StartHandshake(n) \/ \E works \in BOOLEAN : Send(n, works)
               \/ \E m \in Node : PassDevice(n, m) \/ Connect(n, m)
               \/ Recv(n) \/ RecvFails(n) \/ CloseSocket(n) \/ FinishHandshake(n)
        PROVE  LoopInv'
    BY <1>0, <1>5 DEF StartHandshake, Send, PassDevice, Connect, Recv, RecvFails,
                      CloseSocket, FinishHandshake
  <1>6. ASSUME NEW n \in Node, Store(n) PROVE LoopInv'
    <2> DEFINE e == [conn |-> client[n], key |-> remoteMessage[n]]
    <2>1. pc[n] \notin {"drain", "clear"}
      BY <1>0, <1>6 DEF Store, LockInv
    <2>2. /\ listenAdverts' = [listenAdverts EXCEPT ![n] = Append(@, e)]
          /\ UNCHANGED <<pc, next>> /\ e \in [conn : ConnID, key : Key]
      BY <1>6, StoreSets DEF Store, mainVars
    <2> HIDE DEF e
    <2>3. Len(listenAdverts'[n]) = Len(listenAdverts[n]) + 1
      BY <1>0, <2>2
    <2>4. \A m \in Node : m # n => listenAdverts'[m] = listenAdverts[m]
      BY <1>0, <2>2
    <2> QED BY <1>0, <2>1, <2>2, <2>3, <2>4
  <1>7. ASSUME NEW n \in Node,
               \/ Accept(n) \/ AcceptFails(n) \/ ListenRecv(n) \/ ListenSend(n)
               \/ ListenFails(n) \/ WaitClose(n) \/ CloseClient(n) \/ ChangeEpoch(n)
               \/ \E m \in Node : DoneWithDevice(n, m)
        PROVE  LoopInv'
    BY <1>0, <1>7 DEF Accept, AcceptFails, ListenRecv, ListenSend, ListenFails, WaitClose,
                      CloseClient, ChangeEpoch, DoneWithDevice, mainVars
  <1>8. CASE UNCHANGED vars
    BY <1>0, <1>8 DEF vars, mainVars
  <1> QED BY <1>1, <1>2, <1>3, <1>4, <1>5, <1>6, <1>7, <1>8 DEF Next, Main, Listener

-----------------------------------------------------------------------------
(***************************************************************************)
(* What a step leaves of the connections there were.                       *)
(***************************************************************************)
KeepsEnds == \A d \in DOMAIN conns :
    conns'[d].from = conns[d].from /\ conns'[d].to = conns[d].to
KeepsRequest   == \A d \in DOMAIN conns : conns'[d].request = conns[d].request
KeepsReply     == \A d \in DOMAIN conns : conns'[d].reply = conns[d].reply
KeepsAccepted  == \A d \in DOMAIN conns : conns'[d].accepted = conns[d].accepted
KeepsStored    == \A d \in DOMAIN conns : conns'[d].stored = conns[d].stored
KeepsProcessed == \A d \in DOMAIN conns : conns'[d].processed = conns[d].processed
KeepsConnector == \A d \in DOMAIN conns : conns'[d].atConnector = conns[d].atConnector
KeepsListener  == \A d \in DOMAIN conns : conns'[d].atListener = conns[d].atListener

LEMMA SetRequest ==
    ASSUME IInv, NEW c, NEW v, Becomes(c, [conns[c] EXCEPT !.request = v])
    PROVE  /\ c \in DOMAIN conns /\ DOMAIN conns' = DOMAIN conns
           /\ KeepsEnds /\ KeepsReply /\ KeepsAccepted /\ KeepsStored /\ KeepsProcessed
           /\ KeepsConnector /\ KeepsListener
           /\ conns'[c].request = v
           /\ \A d \in DOMAIN conns : d # c => conns'[d].request = conns[d].request
  <1> DEFINE r == [conns[c] EXCEPT !.request = v]
  <1>1. /\ DOMAIN conns' = DOMAIN conns /\ c \in DOMAIN conns
        /\ conns[c] \in Connection /\ conns'[c] = r
        /\ \A d \in DOMAIN conns : d # c => conns'[d] = conns[d]
    BY BecomesKeeps
  <1>2. /\ r.from = conns[c].from /\ r.to = conns[c].to /\ r.reply = conns[c].reply
        /\ r.accepted = conns[c].accepted /\ r.stored = conns[c].stored
        /\ r.processed = conns[c].processed /\ r.atConnector = conns[c].atConnector
        /\ r.atListener = conns[c].atListener /\ r.request = v
    BY <1>1 DEF Connection
  <1> HIDE DEF r
  <1> QED BY <1>1, <1>2 DEF KeepsEnds, KeepsReply, KeepsAccepted, KeepsStored,
                            KeepsProcessed, KeepsConnector, KeepsListener

LEMMA SetReply ==
    ASSUME IInv, NEW c, NEW v, Becomes(c, [conns[c] EXCEPT !.reply = v])
    PROVE  /\ c \in DOMAIN conns /\ DOMAIN conns' = DOMAIN conns
           /\ KeepsEnds /\ KeepsRequest /\ KeepsAccepted /\ KeepsStored /\ KeepsProcessed
           /\ KeepsConnector /\ KeepsListener
           /\ conns'[c].reply = v
           /\ \A d \in DOMAIN conns : d # c => conns'[d].reply = conns[d].reply
  <1> DEFINE r == [conns[c] EXCEPT !.reply = v]
  <1>1. /\ DOMAIN conns' = DOMAIN conns /\ c \in DOMAIN conns
        /\ conns[c] \in Connection /\ conns'[c] = r
        /\ \A d \in DOMAIN conns : d # c => conns'[d] = conns[d]
    BY BecomesKeeps
  <1>2. /\ r.from = conns[c].from /\ r.to = conns[c].to /\ r.request = conns[c].request
        /\ r.accepted = conns[c].accepted /\ r.stored = conns[c].stored
        /\ r.processed = conns[c].processed /\ r.atConnector = conns[c].atConnector
        /\ r.atListener = conns[c].atListener /\ r.reply = v
    BY <1>1 DEF Connection
  <1> HIDE DEF r
  <1> QED BY <1>1, <1>2 DEF KeepsEnds, KeepsRequest, KeepsAccepted, KeepsStored,
                            KeepsProcessed, KeepsConnector, KeepsListener

LEMMA SetOpen ==
    ASSUME IInv, NEW c, NEW v, Becomes(c, [conns[c] EXCEPT !.open = v])
    PROVE  /\ c \in DOMAIN conns /\ DOMAIN conns' = DOMAIN conns
           /\ KeepsEnds /\ KeepsRequest /\ KeepsReply /\ KeepsAccepted /\ KeepsStored
           /\ KeepsProcessed /\ KeepsConnector /\ KeepsListener
  <1> DEFINE r == [conns[c] EXCEPT !.open = v]
  <1>1. /\ DOMAIN conns' = DOMAIN conns /\ c \in DOMAIN conns
        /\ conns[c] \in Connection /\ conns'[c] = r
        /\ \A d \in DOMAIN conns : d # c => conns'[d] = conns[d]
    BY BecomesKeeps
  <1>2. /\ r.from = conns[c].from /\ r.to = conns[c].to /\ r.request = conns[c].request
        /\ r.reply = conns[c].reply /\ r.accepted = conns[c].accepted
        /\ r.stored = conns[c].stored /\ r.processed = conns[c].processed
        /\ r.atConnector = conns[c].atConnector /\ r.atListener = conns[c].atListener
    BY <1>1 DEF Connection
  <1> HIDE DEF r
  <1> QED BY <1>1, <1>2 DEF KeepsEnds, KeepsRequest, KeepsReply, KeepsAccepted, KeepsStored,
                            KeepsProcessed, KeepsConnector, KeepsListener

LEMMA SetAccepted ==
    ASSUME IInv, NEW c, NEW v, Becomes(c, [conns[c] EXCEPT !.accepted = v])
    PROVE  /\ c \in DOMAIN conns /\ DOMAIN conns' = DOMAIN conns
           /\ KeepsEnds /\ KeepsRequest /\ KeepsReply /\ KeepsStored /\ KeepsProcessed
           /\ KeepsConnector /\ KeepsListener
           /\ conns'[c].accepted = v
           /\ \A d \in DOMAIN conns : d # c => conns'[d].accepted = conns[d].accepted
  <1> DEFINE r == [conns[c] EXCEPT !.accepted = v]
  <1>1. /\ DOMAIN conns' = DOMAIN conns /\ c \in DOMAIN conns
        /\ conns[c] \in Connection /\ conns'[c] = r
        /\ \A d \in DOMAIN conns : d # c => conns'[d] = conns[d]
    BY BecomesKeeps
  <1>2. /\ r.from = conns[c].from /\ r.to = conns[c].to /\ r.request = conns[c].request
        /\ r.reply = conns[c].reply /\ r.stored = conns[c].stored
        /\ r.processed = conns[c].processed /\ r.atConnector = conns[c].atConnector
        /\ r.atListener = conns[c].atListener /\ r.accepted = v
    BY <1>1 DEF Connection
  <1> HIDE DEF r
  <1> QED BY <1>1, <1>2 DEF KeepsEnds, KeepsRequest, KeepsReply, KeepsStored, KeepsProcessed,
                            KeepsConnector, KeepsListener

LEMMA SetStored ==
    ASSUME IInv, NEW c, NEW v, Becomes(c, [conns[c] EXCEPT !.stored = v])
    PROVE  /\ c \in DOMAIN conns /\ DOMAIN conns' = DOMAIN conns
           /\ KeepsEnds /\ KeepsRequest /\ KeepsReply /\ KeepsAccepted /\ KeepsProcessed
           /\ KeepsConnector /\ KeepsListener
           /\ conns'[c].stored = v
           /\ \A d \in DOMAIN conns : d # c => conns'[d].stored = conns[d].stored
  <1> DEFINE r == [conns[c] EXCEPT !.stored = v]
  <1>1. /\ DOMAIN conns' = DOMAIN conns /\ c \in DOMAIN conns
        /\ conns[c] \in Connection /\ conns'[c] = r
        /\ \A d \in DOMAIN conns : d # c => conns'[d] = conns[d]
    BY BecomesKeeps
  <1>2. /\ r.from = conns[c].from /\ r.to = conns[c].to /\ r.request = conns[c].request
        /\ r.reply = conns[c].reply /\ r.accepted = conns[c].accepted
        /\ r.processed = conns[c].processed /\ r.atConnector = conns[c].atConnector
        /\ r.atListener = conns[c].atListener /\ r.stored = v
    BY <1>1 DEF Connection
  <1> HIDE DEF r
  <1> QED BY <1>1, <1>2 DEF KeepsEnds, KeepsRequest, KeepsReply, KeepsAccepted,
                            KeepsProcessed, KeepsConnector, KeepsListener

LEMMA SetConnector ==
    ASSUME IInv, NEW c, NEW v, Becomes(c, [conns[c] EXCEPT !.atConnector = v])
    PROVE  /\ c \in DOMAIN conns /\ DOMAIN conns' = DOMAIN conns
           /\ KeepsEnds /\ KeepsRequest /\ KeepsReply /\ KeepsAccepted /\ KeepsStored
           /\ KeepsProcessed /\ KeepsListener
           /\ conns'[c].atConnector = v
           /\ \A d \in DOMAIN conns : d # c => conns'[d].atConnector = conns[d].atConnector
  <1> DEFINE r == [conns[c] EXCEPT !.atConnector = v]
  <1>1. /\ DOMAIN conns' = DOMAIN conns /\ c \in DOMAIN conns
        /\ conns[c] \in Connection /\ conns'[c] = r
        /\ \A d \in DOMAIN conns : d # c => conns'[d] = conns[d]
    BY BecomesKeeps
  <1>2. /\ r.from = conns[c].from /\ r.to = conns[c].to /\ r.request = conns[c].request
        /\ r.reply = conns[c].reply /\ r.accepted = conns[c].accepted
        /\ r.stored = conns[c].stored /\ r.processed = conns[c].processed
        /\ r.atListener = conns[c].atListener /\ r.atConnector = v
    BY <1>1 DEF Connection
  <1> HIDE DEF r
  <1> QED BY <1>1, <1>2 DEF KeepsEnds, KeepsRequest, KeepsReply, KeepsAccepted, KeepsStored,
                            KeepsProcessed, KeepsListener

LEMMA SetListener ==
    ASSUME IInv, NEW c, NEW v, Becomes(c, AsProcessed(c, v))
    PROVE  /\ c \in DOMAIN conns /\ DOMAIN conns' = DOMAIN conns
           /\ KeepsEnds /\ KeepsRequest /\ KeepsReply /\ KeepsAccepted /\ KeepsStored
           /\ KeepsConnector
           /\ conns'[c].processed = conns[c].processed + 1
           /\ \A d \in DOMAIN conns : d # c => conns'[d].processed = conns[d].processed
           /\ conns'[c].atListener = v
           /\ \A d \in DOMAIN conns : d # c => conns'[d].atListener = conns[d].atListener
  <1> DEFINE r == AsProcessed(c, v)
  <1>1. /\ DOMAIN conns' = DOMAIN conns /\ c \in DOMAIN conns
        /\ conns[c] \in Connection /\ conns'[c] = r
        /\ \A d \in DOMAIN conns : d # c => conns'[d] = conns[d]
    BY BecomesKeeps
  <1>2. /\ r.from = conns[c].from /\ r.to = conns[c].to /\ r.request = conns[c].request
        /\ r.reply = conns[c].reply /\ r.accepted = conns[c].accepted
        /\ r.stored = conns[c].stored /\ r.atConnector = conns[c].atConnector
        /\ r.processed = conns[c].processed + 1 /\ r.atListener = v
    BY <1>1 DEF AsProcessed, Connection
  <1> HIDE DEF r
  <1> QED BY <1>1, <1>2 DEF KeepsEnds, KeepsRequest, KeepsReply, KeepsAccepted, KeepsStored,
                            KeepsConnector

-----------------------------------------------------------------------------
(***************************************************************************)
(* So what each step keeps of the connections.                             *)
(***************************************************************************)
LEMMA SendKeeps ==
    ASSUME IInv, NEW n \in Node, NEW works \in BOOLEAN, works, Send(n, works)
    PROVE  /\ socket[n] \in DOMAIN conns /\ DOMAIN conns' = DOMAIN conns
           /\ KeepsEnds /\ KeepsReply /\ KeepsAccepted /\ KeepsStored
           /\ KeepsProcessed /\ KeepsConnector /\ KeepsListener
           /\ conns'[socket[n]].request = dhExchange[n]
           /\ \A d \in DOMAIN conns : d # socket[n] => conns'[d].request = conns[d].request
  <1>1. Becomes(socket[n], [conns[socket[n]] EXCEPT !.request = dhExchange[n]])
    <2>1. works = TRUE
      OBVIOUS
    <2> QED BY <2>1, SendSets
  <1> QED BY ONLY IInv, <1>1, SetRequest

LEMMA ListenSendKeeps ==
    ASSUME IInv, NEW n \in Node, ListenSend(n)
    PROVE  /\ client[n] \in DOMAIN conns /\ DOMAIN conns' = DOMAIN conns
           /\ KeepsEnds /\ KeepsRequest /\ KeepsAccepted /\ KeepsStored
           /\ KeepsProcessed /\ KeepsConnector /\ KeepsListener
           /\ conns'[client[n]].reply = dhExchangeCopy[n]
           /\ \A d \in DOMAIN conns : d # client[n] => conns'[d].reply = conns[d].reply
  <1>1. Becomes(client[n], [conns[client[n]] EXCEPT !.reply = dhExchangeCopy[n]])
    BY ListenSendSets
  <1> QED BY ONLY IInv, <1>1, SetReply

LEMMA StoreKeeps ==
    ASSUME IInv, NEW n \in Node, Store(n)
    PROVE  /\ client[n] \in DOMAIN conns /\ DOMAIN conns' = DOMAIN conns
           /\ KeepsEnds /\ KeepsRequest /\ KeepsReply /\ KeepsAccepted
           /\ KeepsProcessed /\ KeepsConnector /\ KeepsListener
           /\ conns'[client[n]].stored = TRUE
           /\ \A d \in DOMAIN conns : d # client[n] => conns'[d].stored = conns[d].stored
  <1>1. Becomes(client[n], [conns[client[n]] EXCEPT !.stored = TRUE])
    BY StoreSets
  <1> QED BY ONLY IInv, <1>1, SetStored

LEMMA RecvKeeps ==
    ASSUME IInv, NEW n \in Node, Recv(n)
    PROVE  /\ socket[n] \in DOMAIN conns /\ DOMAIN conns' = DOMAIN conns
           /\ KeepsEnds /\ KeepsRequest /\ KeepsReply /\ KeepsAccepted /\ KeepsStored
           /\ KeepsProcessed /\ KeepsListener
           /\ conns'[socket[n]].atConnector = [connector |-> dhExchange[n],
                                         listener |-> conns[socket[n]].reply]
           /\ \A d \in DOMAIN conns : d # socket[n] => conns'[d].atConnector = conns[d].atConnector
  <1>1. PICK v :
          /\ v = [connector |-> dhExchange[n], listener |-> conns[socket[n]].reply]
          /\ Becomes(socket[n], [conns[socket[n]] EXCEPT !.atConnector = v])
    BY RecvSets
  <1>2. /\ socket[n] \in DOMAIN conns /\ DOMAIN conns' = DOMAIN conns
        /\ KeepsEnds /\ KeepsRequest /\ KeepsReply /\ KeepsAccepted /\ KeepsStored
        /\ KeepsProcessed /\ KeepsListener
        /\ conns'[socket[n]].atConnector = v
        /\ \A d \in DOMAIN conns : d # socket[n] => conns'[d].atConnector = conns[d].atConnector
    BY ONLY IInv, <1>1, SetConnector
  <1> QED BY ONLY <1>1, <1>2

LEMMA ProcessEntryKeeps ==
    ASSUME IInv, NEW n \in Node, NEW works \in BOOLEAN, ProcessEntry(n, works)
    PROVE  /\ Entry(n).conn \in DOMAIN conns /\ DOMAIN conns' = DOMAIN conns
           /\ KeepsEnds /\ KeepsRequest /\ KeepsReply /\ KeepsAccepted /\ KeepsStored /\ KeepsConnector
           /\ conns'[Entry(n).conn].processed = conns[Entry(n).conn].processed + 1
           /\ \A d \in DOMAIN conns : d # Entry(n).conn => conns'[d].processed = conns[d].processed
           /\ conns'[Entry(n).conn].atListener = (IF works THEN EntrySecret(n) ELSE NULL)
           /\ \A d \in DOMAIN conns : d # Entry(n).conn => conns'[d].atListener = conns[d].atListener
  <1>0. PICK c, v : c = Entry(n).conn /\ v = IF works THEN EntrySecret(n) ELSE NULL
    OBVIOUS
  <1>1. Becomes(c, AsProcessed(c, v))
    BY <1>0, EntryOfLoop
  <1>2. /\ c \in DOMAIN conns /\ DOMAIN conns' = DOMAIN conns
        /\ KeepsEnds /\ KeepsRequest /\ KeepsReply /\ KeepsAccepted /\ KeepsStored /\ KeepsConnector
        /\ conns'[c].processed = conns[c].processed + 1
        /\ \A d \in DOMAIN conns : d # c => conns'[d].processed = conns[d].processed
        /\ conns'[c].atListener = v
        /\ \A d \in DOMAIN conns : d # c => conns'[d].atListener = conns[d].atListener
    BY ONLY IInv, <1>1, SetListener
  <1> QED BY ONLY <1>0, <1>2

KeepsAll ==
    /\ DOMAIN conns \subseteq DOMAIN conns'
    /\ KeepsEnds /\ KeepsRequest /\ KeepsReply /\ KeepsAccepted
    /\ KeepsStored /\ KeepsProcessed /\ KeepsConnector /\ KeepsListener

LEMMA UnchangedKeeps == ASSUME UNCHANGED conns PROVE KeepsAll
  BY DEF KeepsAll, KeepsEnds, KeepsRequest, KeepsReply, KeepsAccepted, KeepsStored,
         KeepsProcessed, KeepsConnector, KeepsListener

LEMMA NewFields ==
    ASSUME NEW n \in Node, NEW m \in Node
    PROVE  /\ NewConnection(n, m).from = n /\ NewConnection(n, m).to = m
           /\ NewConnection(n, m).request = NULL /\ NewConnection(n, m).reply = NULL
           /\ ~NewConnection(n, m).accepted /\ ~NewConnection(n, m).stored
           /\ NewConnection(n, m).processed = 0
           /\ NewConnection(n, m).atConnector = NULL /\ NewConnection(n, m).atListener = NULL
  BY DEF NewConnection

LEMMA ConnectKeeps ==
    ASSUME IInv, NEW n \in Node, NEW m \in Node, Connect(n, m)
    PROVE  KeepsAll
  <1>1. DOMAIN conns \subseteq DOMAIN conns' /\ \A d \in DOMAIN conns : conns'[d] = conns[d]
    BY ConnectAdds
  <1> QED BY <1>1 DEF KeepsAll, KeepsEnds, KeepsRequest, KeepsReply, KeepsAccepted,
                      KeepsStored, KeepsProcessed, KeepsConnector, KeepsListener

LEMMA CloseKeeps == ASSUME IInv, NEW n \in Node, CloseSocket(n) PROVE KeepsAll
  BY CloseSets, SetOpen DEF KeepsAll

LEMMA AcceptFailsKeeps ==
    ASSUME IInv, NEW n \in Node, AcceptFails(n)
    PROVE  /\ DOMAIN conns' = DOMAIN conns
           /\ KeepsEnds /\ KeepsRequest /\ KeepsReply /\ KeepsStored /\ KeepsProcessed
           /\ KeepsConnector /\ KeepsListener
           /\ \A d \in DOMAIN conns : conns[d].accepted => conns'[d].accepted
  <1>1. /\ DOMAIN conns' = DOMAIN conns
        /\ \A d \in DOMAIN conns :
             conns'[d] = IF conns[d].to = n THEN [conns[d] EXCEPT !.accepted = TRUE]
                                            ELSE conns[d]
    BY AcceptFailsSets
  <1>2. \A d \in DOMAIN conns : conns[d] \in Connection
    BY ConnType DEF IInv, HandshakeTypeOK
  <1>3. ASSUME NEW o \in Connection
        PROVE  LET r == [o EXCEPT !.accepted = TRUE]
               IN  /\ r.from = o.from /\ r.to = o.to /\ r.request = o.request
                   /\ r.reply = o.reply /\ r.stored = o.stored /\ r.processed = o.processed
                   /\ r.atConnector = o.atConnector /\ r.atListener = o.atListener
                   /\ r.accepted = TRUE
    BY DEF Connection
  <1>4. ASSUME NEW d \in DOMAIN conns
        PROVE  /\ conns'[d].from = conns[d].from /\ conns'[d].to = conns[d].to
               /\ conns'[d].request = conns[d].request /\ conns'[d].reply = conns[d].reply
               /\ conns'[d].stored = conns[d].stored
               /\ conns'[d].processed = conns[d].processed
               /\ conns'[d].atConnector = conns[d].atConnector
               /\ conns'[d].atListener = conns[d].atListener
               /\ conns[d].accepted => conns'[d].accepted
    <2>1. CASE conns[d].to = n
      <3>1. PICK o \in Connection : o = conns[d]
        BY <1>2
      <3>2. conns'[d] = [o EXCEPT !.accepted = TRUE]
        BY <1>1, <2>1, <3>1
      <3> QED BY ONLY <3>1, <3>2, <1>3
    <2>2. CASE conns[d].to # n
      BY <1>1, <2>2
    <2> QED BY <2>1, <2>2
  <1> QED BY <1>1, <1>4 DEF KeepsEnds, KeepsRequest, KeepsReply, KeepsStored, KeepsProcessed,
                            KeepsConnector, KeepsListener

-----------------------------------------------------------------------------
(***************************************************************************)
(* The connector: the request it sent is of its key, which cannot change   *)
(* while its thread is in handshake().                                     *)
(***************************************************************************)
LEMMA SocketKept ==
    ASSUME IInv, DOMAIN conns \subseteq DOMAIN conns', KeepsEnds, KeepsRequest,
           UNCHANGED <<pc, socket, dhExchange>>
    PROVE  SocketInv'
  BY DEF IInv, KeysInv, SocketInv, KeepsEnds, KeepsRequest

LEMMA StepSocketInv == ASSUME IInv, [Next]_vars PROVE SocketInv'
  <1>0. /\ SocketInv
        /\ pc \in [Node -> {"idle", "lock", "drain", "clear", "next", "send", "recv", "close"}]
        /\ socket \in [Node -> ConnID \cup {NULL}] /\ dhExchange \in [Node -> Key]
    BY DEF IInv, KeysInv, HandshakeTypeOK
  <1>1. ASSUME NEW n \in Node, ChangeEpoch(n) PROVE SocketInv'
    BY <1>0, <1>1 DEF ChangeEpoch, SocketInv, mainVars
  <1>2. ASSUME NEW n \in Node,
               \/ StartHandshake(n) \/ LockListenAdverts(n) \/ FinishEntries(n)
               \/ ClearListenAdverts(n) \/ (\E m \in Node : PassDevice(n, m))
               \/ RecvFails(n) \/ FinishHandshake(n)
        PROVE  SocketInv'
    BY <1>0, <1>2 DEF StartHandshake, LockListenAdverts, FinishEntries, ClearListenAdverts,
                      PassDevice, RecvFails, FinishHandshake, SocketInv
  <1>3. ASSUME NEW n \in Node, NEW works \in BOOLEAN, ProcessEntry(n, works) PROVE SocketInv'
    <2>1. DOMAIN conns \subseteq DOMAIN conns' /\ KeepsEnds /\ KeepsRequest
      BY <1>3, ProcessEntryKeeps
    <2> QED BY <1>3, <2>1, SocketKept DEF ProcessEntry, mainVars
  <1>4. ASSUME NEW n \in Node, NEW works \in BOOLEAN, Send(n, works) PROVE SocketInv'
    <2>1. CASE works
      <3>1. /\ socket[n] \in DOMAIN conns /\ DOMAIN conns' = DOMAIN conns /\ KeepsEnds
            /\ conns'[socket[n]].request = dhExchange[n]
            /\ \A d \in DOMAIN conns : d # socket[n] => conns'[d].request = conns[d].request
        BY <1>4, <2>1, SendKeeps
      <3> QED BY <1>0, <1>4, <2>1, <3>1 DEF Send, SocketInv, KeepsEnds
    <2>2. CASE ~works
      BY <1>0, <1>4, <2>2 DEF Send, SocketInv
    <2> QED BY <2>1, <2>2
  <1>5. ASSUME NEW n \in Node, NEW m \in Node, Connect(n, m) PROVE SocketInv'
    <2>1. /\ DOMAIN conns' = DOMAIN conns \cup {Len(conns) + 1}
          /\ Len(conns) + 1 \notin DOMAIN conns
          /\ conns'[Len(conns) + 1].from = n /\ conns'[Len(conns) + 1].request = NULL
          /\ \A d \in DOMAIN conns : conns'[d] = conns[d]
      <3>1. /\ DOMAIN conns' = DOMAIN conns \cup {Len(conns) + 1}
            /\ Len(conns) + 1 \notin DOMAIN conns
            /\ conns'[Len(conns) + 1] = NewConnection(n, m)
            /\ \A d \in DOMAIN conns : conns'[d] = conns[d]
        BY <1>5, ConnectAdds
      <3>2. NewConnection(n, m).from = n /\ NewConnection(n, m).request = NULL
        BY NewFields
      <3> QED BY <3>1, <3>2
    <2> QED BY <1>0, <1>5, <2>1 DEF Connect, SocketInv
  <1>6. ASSUME NEW n \in Node, Recv(n) PROVE SocketInv'
    <2>1. DOMAIN conns \subseteq DOMAIN conns' /\ KeepsEnds /\ KeepsRequest
      BY <1>6, RecvKeeps
    <2> QED BY <1>0, <1>6, <2>1 DEF Recv, SocketInv, KeepsEnds, KeepsRequest
  <1>7. ASSUME NEW n \in Node, CloseSocket(n) PROVE SocketInv'
    <2>1. DOMAIN conns \subseteq DOMAIN conns' /\ KeepsEnds /\ KeepsRequest
      BY <1>7, CloseKeeps DEF KeepsAll
    <2> QED BY <1>0, <1>7, <2>1 DEF CloseSocket, SocketInv, KeepsEnds, KeepsRequest
  <1>8. ASSUME NEW n \in Node, Listener(n) PROVE SocketInv'
    <2>1. DOMAIN conns \subseteq DOMAIN conns' /\ KeepsEnds /\ KeepsRequest
      <3>1. CASE Accept(n)
        BY <3>1, AcceptSets, SetAccepted
      <3>2. CASE AcceptFails(n)
        BY <3>2, AcceptFailsKeeps
      <3>3. CASE ListenSend(n)
        BY <3>3, ListenSendKeeps
      <3>4. CASE Store(n)
        BY <3>4, StoreKeeps
      <3>5. CASE ListenRecv(n) \/ ListenFails(n) \/ WaitClose(n) \/ CloseClient(n)
        BY <3>5, UnchangedKeeps DEF KeepsAll, ListenRecv, ListenFails, WaitClose, CloseClient
      <3> QED BY <1>8, <3>1, <3>2, <3>3, <3>4, <3>5 DEF Listener
    <2>2. UNCHANGED <<pc, socket, dhExchange>>
      BY <1>8 DEF Listener, Accept, AcceptFails, ListenRecv, ListenSend, ListenFails, Store,
                  WaitClose, CloseClient, mainVars
    <2> QED BY <2>1, <2>2, SocketKept
  <1>9. CASE \/ UNCHANGED vars
             \/ \E n \in Node, m \in Node : DoneWithDevice(n, m)
    <2>1. UNCHANGED <<pc, socket, dhExchange, conns>>
      BY <1>9 DEF vars, mainVars, DoneWithDevice
    <2> QED BY <2>1, UnchangedKeeps, SocketKept DEF KeepsAll
  <1> QED BY <1>1, <1>2, <1>3, <1>4, <1>5, <1>6, <1>7, <1>8, <1>9 DEF Next, Main

(***************************************************************************)
(* The listener: its client is its own, and what it works with is the      *)
(* client's.                                                               *)
(***************************************************************************)
LEMMA ClientKept ==
    ASSUME IInv, DOMAIN conns \subseteq DOMAIN conns',
           KeepsEnds, KeepsRequest, KeepsReply, KeepsStored,
           \A d \in DOMAIN conns : conns[d].accepted => conns'[d].accepted,
           UNCHANGED <<lpc, client, dhExchangeCopy, remoteMessage>>,
           \A n \in Node : dhExchange'[n] \in Nat /\ dhExchange[n] <= dhExchange'[n]
    PROVE  ClientInv'
  <1>1. \A n \in Node : dhExchange[n] \in Nat /\ Key \subseteq Nat
    BY HandshakeAssumption DEF IInv, HandshakeTypeOK, Key
  <1> QED BY <1>1 DEF IInv, KeysInv, ClientInv, KeepsEnds, KeepsRequest, KeepsReply, KeepsStored

LEMMA KeyGrows ==
    ASSUME IInv, [Next]_vars
    PROVE  \A n \in Node : /\ dhExchange[n] \in Nat /\ dhExchange'[n] \in Nat
                           /\ dhExchange[n] <= dhExchange'[n]
  <1>1. dhExchange \in [Node -> Nat]
    BY HandshakeAssumption DEF IInv, HandshakeTypeOK, Key
  <1>2. ASSUME NEW n \in Node, ChangeEpoch(n)
        PROVE  dhExchange' = [dhExchange EXCEPT ![n] = @ + 1]
    BY <1>2 DEF ChangeEpoch
  <1>3. CASE \E n \in Node : ChangeEpoch(n)
    BY <1>1, <1>2, <1>3
  <1>4. CASE UNCHANGED dhExchange
    BY <1>1, <1>4
  <1>5. ASSUME NEW n \in Node, Main(n) PROVE UNCHANGED dhExchange
    BY <1>5 DEF Main, StartHandshake, LockListenAdverts, ProcessEntry, Send, FinishEntries,
                ClearListenAdverts, PassDevice, Connect, Recv, RecvFails, CloseSocket,
                FinishHandshake
  <1>6. ASSUME NEW n \in Node, Listener(n) PROVE UNCHANGED dhExchange
    BY <1>6 DEF Listener, Accept, AcceptFails, ListenRecv, ListenSend, ListenFails, Store,
                WaitClose, CloseClient
  <1>7. CASE UNCHANGED vars \/ \E n \in Node, m \in Node : DoneWithDevice(n, m)
    BY <1>4, <1>7 DEF vars, DoneWithDevice
  <1> QED BY <1>3, <1>4, <1>5, <1>6, <1>7 DEF Next

LEMMA StepClientInv == ASSUME IInv, [Next]_vars PROVE ClientInv'
  <1>0. /\ ClientInv
        /\ lpc \in [Node -> {"accept", "recv", "send", "store", "wait", "close"}]
        /\ client \in [Node -> ConnID \cup {NULL}]
        /\ dhExchangeCopy \in [Node -> Key \cup {NULL}]
        /\ remoteMessage \in [Node -> Key \cup {NULL}]
        /\ dhExchange \in [Node -> Key] /\ Key \subseteq Nat
    BY HandshakeAssumption DEF IInv, KeysInv, HandshakeTypeOK, Key
  <1>00. \A n \in Node : dhExchange'[n] \in Nat /\ dhExchange[n] <= dhExchange'[n]
    BY KeyGrows
  <1>1. ASSUME NEW n \in Node, NEW works \in BOOLEAN, Send(n, works) PROVE ClientInv'
    <2>0. UNCHANGED <<lpc, client, dhExchangeCopy, remoteMessage>>
      BY <1>1 DEF Send, listenerVars
    <2>1. CASE works
      <3>1. /\ socket[n] \in DOMAIN conns /\ DOMAIN conns' = DOMAIN conns /\ KeepsEnds
            /\ KeepsReply /\ KeepsAccepted /\ KeepsStored
            /\ \A d \in DOMAIN conns : d # socket[n] => conns'[d].request = conns[d].request
        BY <1>1, <2>1, SendKeeps
      <3>2. conns[socket[n]].request = NULL
        BY <1>1 DEF Send, IInv, KeysInv, SocketInv
      <3> QED BY <1>0, <1>00, <1>1, <2>0, <3>1, <3>2
              DEF Send, ClientInv, KeepsEnds, KeepsReply, KeepsAccepted, KeepsStored
    <2>2. CASE ~works
      <3>1. KeepsAll
        BY <1>1, <2>2, UnchangedKeeps DEF Send
      <3> QED BY <1>00, <2>0, <3>1, ClientKept DEF KeepsAll, KeepsAccepted
    <2> QED BY <2>1, <2>2
  <1>2. ASSUME NEW n \in Node,
               \/ Main(n) /\ ~(\E works \in BOOLEAN : Send(n, works))
               \/ ChangeEpoch(n) \/ (\E m \in Node : DoneWithDevice(n, m))
        PROVE  ClientInv'
    <2>1. UNCHANGED <<lpc, client, dhExchangeCopy, remoteMessage>>
      BY <1>2 DEF Main, StartHandshake, LockListenAdverts, ProcessEntry, FinishEntries,
                ClearListenAdverts, PassDevice, Connect, Recv, RecvFails, CloseSocket,
                FinishHandshake, ChangeEpoch, DoneWithDevice, listenerVars
    <2>2. /\ DOMAIN conns \subseteq DOMAIN conns'
          /\ KeepsEnds /\ KeepsRequest /\ KeepsReply /\ KeepsAccepted /\ KeepsStored
      <3>1. CASE \E works \in BOOLEAN : ProcessEntry(n, works)
        BY <3>1, ProcessEntryKeeps
      <3>2. CASE \E m \in Node : Connect(n, m)
        BY <3>2, ConnectKeeps DEF KeepsAll
      <3>3. CASE Recv(n)
        BY <3>3, RecvKeeps
      <3>4. CASE CloseSocket(n)
        BY <3>4, CloseKeeps DEF KeepsAll
      <3>5. CASE \/ StartHandshake(n) \/ LockListenAdverts(n) \/ FinishEntries(n)
                 \/ ClearListenAdverts(n) \/ (\E m \in Node : PassDevice(n, m))
                 \/ RecvFails(n) \/ FinishHandshake(n)
                 \/ ChangeEpoch(n) \/ (\E m \in Node : DoneWithDevice(n, m))
        <4>1. UNCHANGED conns
          BY <3>5 DEF StartHandshake, LockListenAdverts, FinishEntries, ClearListenAdverts,
                      PassDevice, RecvFails, FinishHandshake, ChangeEpoch, DoneWithDevice
        <4> QED BY <4>1, UnchangedKeeps DEF KeepsAll
      <3> QED BY <1>2, <3>1, <3>2, <3>3, <3>4, <3>5 DEF Main
    <2> QED BY <1>00, <2>1, <2>2, ClientKept DEF KeepsAccepted
  <1>3. ASSUME NEW n \in Node, Accept(n) PROVE ClientInv'
    <2>1. PICK c \in DOMAIN conns :
            /\ conns[c].to = n /\ ~conns[c].accepted
            /\ client' = [client EXCEPT ![n] = c]
            /\ Becomes(c, [conns[c] EXCEPT !.accepted = TRUE])
      BY <1>3, AcceptSets
    <2>2. /\ DOMAIN conns' = DOMAIN conns
          /\ KeepsEnds /\ KeepsRequest /\ KeepsReply /\ KeepsStored
          /\ conns'[c].accepted
          /\ \A d \in DOMAIN conns : d # c => conns'[d].accepted = conns[d].accepted
      BY <2>1, SetAccepted
    <2>3. conns[c].reply = NULL /\ ~conns[c].stored
      BY <2>1 DEF IInv, KeysInv, SecretInv
    <2>4. /\ lpc' = [lpc EXCEPT ![n] = "recv"]
          /\ dhExchangeCopy' = [dhExchangeCopy EXCEPT ![n] = dhExchange[n]]
          /\ UNCHANGED <<dhExchange, remoteMessage>>
      BY <1>3 DEF Accept, GoTo
    <2>5. dhExchange[n] \in Key /\ dhExchange[n] <= dhExchange[n]
      <3>1. dhExchange[n] \in Key /\ dhExchange[n] \in Nat
        BY <1>0
      <3> QED BY <3>1
    <2> QED BY <1>0, <2>1, <2>2, <2>3, <2>4, <2>5
            DEF ClientInv, KeepsEnds, KeepsRequest, KeepsReply, KeepsStored
  <1>4. ASSUME NEW n \in Node, AcceptFails(n) PROVE ClientInv'
    <2>1. UNCHANGED <<lpc, client, dhExchangeCopy, remoteMessage>>
      BY <1>4 DEF AcceptFails, listenerVars
    <2> QED BY <1>00, <1>4, <2>1, AcceptFailsKeeps, ClientKept
  <1>5. ASSUME NEW n \in Node, ListenRecv(n) \/ ListenFails(n) \/ WaitClose(n) \/ CloseClient(n)
        PROVE  ClientInv'
    BY <1>0, <1>5 DEF ListenRecv, ListenFails, WaitClose, CloseClient, GoTo, ClientInv
  <1>6. ASSUME NEW n \in Node, ListenSend(n) PROVE ClientInv'
    <2>1. /\ client[n] \in DOMAIN conns /\ DOMAIN conns' = DOMAIN conns
          /\ KeepsEnds /\ KeepsRequest /\ KeepsAccepted /\ KeepsStored
          /\ conns'[client[n]].reply = dhExchangeCopy[n]
          /\ \A d \in DOMAIN conns : d # client[n] => conns'[d].reply = conns[d].reply
      BY <1>6, ListenSendKeeps
    <2> QED BY <1>0, <1>6, <2>1
            DEF ListenSend, GoTo, ClientInv, KeepsEnds, KeepsRequest, KeepsAccepted, KeepsStored
  <1>7. ASSUME NEW n \in Node, Store(n) PROVE ClientInv'
    <2>1. /\ client[n] \in DOMAIN conns /\ DOMAIN conns' = DOMAIN conns
          /\ KeepsEnds /\ KeepsRequest /\ KeepsAccepted /\ KeepsReply
          /\ \A d \in DOMAIN conns : d # client[n] => conns'[d].stored = conns[d].stored
      BY <1>7, StoreKeeps
    <2>2. /\ lpc' = [lpc EXCEPT ![n] = "wait"]
          /\ UNCHANGED <<dhExchange, client, dhExchangeCopy, remoteMessage>>
      BY <1>7 DEF Store, GoTo
    <2>3. lpc[n] = "store" /\ lpc'[n] = "wait" /\ \A m \in Node : m # n => lpc'[m] = lpc[m]
      BY <1>0, <1>7, <2>2 DEF Store
    <2>4. ASSUME NEW m \in Node, m # n, lpc[m] # "accept"
          PROVE  client[m] # client[n] /\ client[m] \in DOMAIN conns
      BY <1>0, <2>3, <2>4 DEF ClientInv
    <2> QED BY <1>0, <2>1, <2>2, <2>3, <2>4
            DEF ClientInv, KeepsEnds, KeepsRequest, KeepsAccepted, KeepsReply
  <1>8. CASE UNCHANGED vars
    <2>1. KeepsAll /\ UNCHANGED <<lpc, client, dhExchangeCopy, remoteMessage>>
      BY <1>8, UnchangedKeeps DEF vars, listenerVars
    <2> QED BY <1>00, <2>1, ClientKept DEF KeepsAll, KeepsAccepted
  <1> QED BY <1>1, <1>2, <1>3, <1>4, <1>5, <1>6, <1>7, <1>8 DEF Next, Listener

-----------------------------------------------------------------------------
(***************************************************************************)
(* A request and a reply are sent once: what a connection carries stays.   *)
(***************************************************************************)
ConnsGrow ==
    /\ DOMAIN conns \subseteq DOMAIN conns' /\ KeepsEnds
    /\ \A d \in DOMAIN conns :
         /\ conns[d].request # NULL => conns'[d].request = conns[d].request
         /\ conns[d].reply # NULL => conns'[d].reply = conns[d].reply
         /\ conns[d].accepted => conns'[d].accepted

LEMMA AllKeptGrow == ASSUME KeepsAll PROVE ConnsGrow
  BY DEF KeepsAll, ConnsGrow, KeepsRequest, KeepsReply, KeepsAccepted

LEMMA StepConnsGrow == ASSUME IInv, [Next]_vars PROVE ConnsGrow
  <1> USE DEF ConnsGrow
  <1>1. ASSUME NEW n \in Node, NEW works \in BOOLEAN, ProcessEntry(n, works) PROVE ConnsGrow
    BY <1>1, ProcessEntryKeeps DEF KeepsRequest, KeepsReply, KeepsAccepted
  <1>2. ASSUME NEW n \in Node, NEW works \in BOOLEAN, Send(n, works) PROVE ConnsGrow
    <2>1. CASE works
      <3>1. conns[socket[n]].request = NULL
        BY <1>2 DEF Send, IInv, KeysInv, SocketInv
      <3> QED BY <1>2, <2>1, <3>1, SendKeeps DEF KeepsReply, KeepsAccepted
    <2>2. CASE ~works
      BY <1>2, <2>2, UnchangedKeeps, AllKeptGrow DEF Send
    <2> QED BY <2>1, <2>2
  <1>3. ASSUME NEW n \in Node, Recv(n) PROVE ConnsGrow
    BY <1>3, RecvKeeps DEF KeepsRequest, KeepsReply, KeepsAccepted
  <1>4. ASSUME NEW n \in Node, Accept(n) PROVE ConnsGrow
    <2>1. PICK c \in DOMAIN conns : Becomes(c, [conns[c] EXCEPT !.accepted = TRUE])
      BY <1>4, AcceptSets
    <2> QED BY <2>1, SetAccepted DEF KeepsRequest, KeepsReply
  <1>5. ASSUME NEW n \in Node, ListenSend(n) PROVE ConnsGrow
    <2>1. conns[client[n]].reply = NULL
      BY <1>5 DEF ListenSend, IInv, KeysInv, ClientInv
    <2> QED BY <1>5, <2>1, ListenSendKeeps DEF KeepsRequest, KeepsAccepted
  <1>6. ASSUME NEW n \in Node, Store(n) PROVE ConnsGrow
    BY <1>6, StoreKeeps DEF KeepsRequest, KeepsReply, KeepsAccepted
  <1>7. ASSUME NEW n \in Node,
               AcceptFails(n) \/ CloseSocket(n) \/ (\E m \in Node : Connect(n, m))
        PROVE  ConnsGrow
    BY <1>7, AcceptFailsKeeps, CloseKeeps, ConnectKeeps, AllKeptGrow
       DEF KeepsRequest, KeepsReply
  <1>8. ASSUME UNCHANGED conns PROVE ConnsGrow
    BY <1>8, UnchangedKeeps, AllKeptGrow
  <1>9. ASSUME NEW n \in Node,
               \/ StartHandshake(n) \/ LockListenAdverts(n) \/ FinishEntries(n)
               \/ ClearListenAdverts(n) \/ (\E m \in Node : PassDevice(n, m))
               \/ RecvFails(n) \/ FinishHandshake(n)
               \/ ChangeEpoch(n) \/ (\E m \in Node : DoneWithDevice(n, m))
               \/ ListenRecv(n) \/ ListenFails(n) \/ WaitClose(n) \/ CloseClient(n)
        PROVE  UNCHANGED conns
    BY <1>9 DEF StartHandshake, LockListenAdverts, FinishEntries, ClearListenAdverts,
                PassDevice, RecvFails, FinishHandshake, ChangeEpoch, DoneWithDevice,
                ListenRecv, ListenFails, WaitClose, CloseClient
  <1>10. CASE UNCHANGED vars
    BY <1>8, <1>10 DEF vars
  <1> HIDE DEF ConnsGrow
  <1> QED BY <1>1, <1>2, <1>3, <1>4, <1>5, <1>6, <1>7, <1>8, <1>9, <1>10
          DEF Next, Main, Listener

-----------------------------------------------------------------------------
(***************************************************************************)
(* The entries: each is of a connection that has been answered.            *)
(***************************************************************************)
LEMMA EntryKeys ==
    ASSUME IInv, NEW n \in Node, NEW i \in 1 .. Len(listenAdverts[n])
    PROVE  listenAdverts[n][i].conn \in DOMAIN conns /\ listenAdverts[n][i].key \in Key
  <1>1. listenAdverts[n] \in Seq([conn : ConnID, key : Key])
    BY DEF IInv, HandshakeTypeOK
  <1>2. ASSUME NEW S, NEW seq \in Seq(S), NEW j \in 1 .. Len(seq) PROVE seq[j] \in S
    OBVIOUS
  <1>3. listenAdverts[n][i] \in [conn : ConnID, key : Key]
    BY <1>1, <1>2
  <1> QED BY <1>3 DEF IInv, KeysInv, EntryInv

EntryOK(n, e) ==
    /\ e.conn \in DOMAIN conns
    /\ conns[e.conn].to = n
    /\ e.key = conns[e.conn].request
    /\ conns[e.conn].reply \in Key
    /\ conns[e.conn].reply <= dhExchange[n]

LEMMA EntryStays ==
    ASSUME IInv, ConnsGrow, NEW n \in Node, NEW e, e.key \in Key, EntryOK(n, e),
           dhExchange[n] \in Nat, dhExchange'[n] \in Nat, dhExchange[n] <= dhExchange'[n]
    PROVE  EntryOK(n, e)'
  <1>1. NULL \notin Key /\ Key \subseteq Nat
    BY HandshakeAssumption DEF Key
  <1>2. conns'[e.conn].request = conns[e.conn].request
    BY <1>1 DEF ConnsGrow, EntryOK
  <1>3. conns'[e.conn].reply = conns[e.conn].reply
    BY <1>1 DEF ConnsGrow, EntryOK
  <1>4. conns'[e.conn].to = conns[e.conn].to
    BY DEF ConnsGrow, EntryOK, KeepsEnds
  <1>5. conns[e.conn].reply \in Nat /\ conns[e.conn].reply <= dhExchange'[n]
    <2>1. conns[e.conn].reply \in Nat /\ conns[e.conn].reply <= dhExchange[n]
      BY <1>1 DEF EntryOK
    <2> QED BY <2>1
  <1> QED BY <1>2, <1>3, <1>4, <1>5 DEF EntryOK, ConnsGrow
\* What the list holds after a step was right before it.
LEMMA NextEntryOK ==
    ASSUME IInv, [Next]_vars, NEW n \in Node, NEW i \in 1 .. Len(listenAdverts'[n])
    PROVE  \E e : e = listenAdverts'[n][i] /\ e.key \in Key /\ EntryOK(n, e)
  <1>0. listenAdverts \in [Node -> Seq([conn : ConnID, key : Key])]
    BY DEF IInv, HandshakeTypeOK
  <1>1. CASE listenAdverts'[n] = listenAdverts[n]
    <2>1. listenAdverts[n][i].key \in Key
      BY <1>1, EntryKeys
    <2>2. EntryOK(n, listenAdverts[n][i])
      BY <1>1 DEF IInv, KeysInv, EntryInv, EntryOK
    <2> QED BY <1>1, <2>1, <2>2
  <1>2. CASE \E m \in Node : ClearListenAdverts(m)
    <2>1. PICK m \in Node : ClearListenAdverts(m)
      BY <1>2
    <2>2. listenAdverts'[n] = <<>> \/ listenAdverts'[n] = listenAdverts[n]
      BY <1>0, <2>1 DEF ClearListenAdverts
    <2> QED BY <1>1, <2>2
  <1>3. CASE \E m \in Node : Store(m)
    <2>1. PICK m \in Node : Store(m)
      BY <1>3
    <2> DEFINE e == [conn |-> client[m], key |-> remoteMessage[m]]
    <2>2. e \in [conn : ConnID, key : Key]
      BY <2>1, StoreSets
    <2>3. EntryOK(m, e)
      BY <2>1 DEF Store, IInv, KeysInv, ClientInv, EntryOK
    <2>4. listenAdverts' = [listenAdverts EXCEPT ![m] = Append(@, e)]
      BY <2>1 DEF Store
    <2>5. e.key \in Key
      BY <2>2
    <2> HIDE DEF e
    <2>6. CASE m # n
      BY <1>0, <1>1, <2>4, <2>6
    <2>7. CASE m = n
      <3>1. listenAdverts'[n] = Append(listenAdverts[n], e)
        BY <1>0, <2>4, <2>7
      <3>2. ASSUME NEW S, NEW seq \in Seq(S), NEW x \in S, NEW j \in 1 .. Len(Append(seq, x))
            PROVE  \/ j \in 1 .. Len(seq) /\ Append(seq, x)[j] = seq[j]
                   \/ Append(seq, x)[j] = x
        OBVIOUS
      <3>3. \/ i \in 1 .. Len(listenAdverts[n]) /\ listenAdverts'[n][i] = listenAdverts[n][i]
            \/ listenAdverts'[n][i] = e
        BY <1>0, <2>2, <3>1, <3>2
      <3>4. CASE listenAdverts'[n][i] = e
        BY <2>3, <2>5, <2>7, <3>4
      <3>5. CASE i \in 1 .. Len(listenAdverts[n]) /\ listenAdverts'[n][i] = listenAdverts[n][i]
        <4>1. listenAdverts[n][i].key \in Key
          BY <3>5, EntryKeys
        <4>2. EntryOK(n, listenAdverts[n][i])
          BY <3>5 DEF IInv, KeysInv, EntryInv, EntryOK
        <4> QED BY <3>5, <4>1, <4>2
      <3> QED BY <3>3, <3>4, <3>5
    <2> QED BY <2>6, <2>7
  <1>4. ASSUME NEW m \in Node, Main(m), ~ClearListenAdverts(m) PROVE UNCHANGED listenAdverts
    BY <1>4 DEF Main, StartHandshake, LockListenAdverts, ProcessEntry, FinishEntries, Send,
                PassDevice, Connect, Recv, RecvFails, CloseSocket, FinishHandshake
  <1>5. ASSUME NEW m \in Node, Listener(m), ~Store(m) PROVE UNCHANGED listenAdverts
    BY <1>5 DEF Listener, Accept, AcceptFails, ListenRecv, ListenSend, ListenFails,
                WaitClose, CloseClient
  <1>6. CASE UNCHANGED vars \/ \E m, p \in Node : ChangeEpoch(m) \/ DoneWithDevice(m, p)
    BY <1>1, <1>6 DEF vars, ChangeEpoch, DoneWithDevice
  <1> QED BY <1>1, <1>2, <1>3, <1>4, <1>5, <1>6 DEF Next

LEMMA StepEntryInv == ASSUME IInv, [Next]_vars PROVE EntryInv'
  <1> SUFFICES ASSUME NEW n \in Node, NEW i \in 1 .. Len(listenAdverts'[n])
               PROVE  /\ listenAdverts'[n][i].conn \in DOMAIN conns'
                      /\ conns'[listenAdverts'[n][i].conn].to = n
                      /\ listenAdverts'[n][i].key = conns'[listenAdverts'[n][i].conn].request
                      /\ conns'[listenAdverts'[n][i].conn].reply \in Key
                      /\ conns'[listenAdverts'[n][i].conn].reply <= dhExchange'[n]
    BY DEF EntryInv
  <1>1. PICK e : e = listenAdverts'[n][i] /\ e.key \in Key /\ EntryOK(n, e)
    BY NextEntryOK
  <1>2. EntryOK(n, e)'
    BY <1>1, StepConnsGrow, KeyGrows, EntryStays
  <1> QED BY <1>1, <1>2 DEF EntryOK

-----------------------------------------------------------------------------
(***************************************************************************)
(* The secrets.                                                            *)
(***************************************************************************)
SecretOK(c) ==
    /\ ~conns[c].accepted => conns[c].reply = NULL /\ ~conns[c].stored
    /\ conns[c].atConnector # NULL =>
          /\ conns[c].request # NULL /\ conns[c].reply # NULL
          /\ conns[c].atConnector =
                [connector |-> conns[c].request, listener |-> conns[c].reply]
    /\ conns[c].atListener # NULL =>
          /\ conns[c].request # NULL /\ conns[c].reply # NULL
          /\ conns[c].atListener.connector = conns[c].request
          /\ conns[c].atListener.listener >= conns[c].reply

\* What the connection c holds stays, with what it was stored and answered.
LEMMA SecretStays ==
    ASSUME IInv, ConnsGrow, NEW c \in DOMAIN conns,
           conns'[c].atConnector = conns[c].atConnector,
           conns'[c].atListener = conns[c].atListener,
           \/ conns'[c].accepted
           \/ conns'[c].reply = conns[c].reply /\ conns'[c].stored = conns[c].stored
    PROVE  SecretOK(c)'
  <1>1. SecretOK(c)
    BY DEF IInv, KeysInv, SecretInv, SecretOK
  <1>2. /\ conns[c].request # NULL => conns'[c].request = conns[c].request
        /\ conns[c].reply # NULL => conns'[c].reply = conns[c].reply
        /\ conns[c].accepted => conns'[c].accepted
    BY DEF ConnsGrow
  <1>3. ~conns'[c].accepted => conns'[c].reply = NULL /\ ~conns'[c].stored
    BY <1>1, <1>2 DEF SecretOK
  <1>4. ASSUME conns'[c].atConnector # NULL
        PROVE  /\ conns'[c].request # NULL /\ conns'[c].reply # NULL
               /\ conns'[c].atConnector =
                     [connector |-> conns'[c].request, listener |-> conns'[c].reply]
    BY <1>1, <1>2, <1>4 DEF SecretOK
  <1>5. ASSUME conns'[c].atListener # NULL
        PROVE  /\ conns'[c].request # NULL /\ conns'[c].reply # NULL
               /\ conns'[c].atListener.connector = conns'[c].request
               /\ conns'[c].atListener.listener >= conns'[c].reply
    BY <1>1, <1>2, <1>5 DEF SecretOK
  <1> QED BY <1>3, <1>4, <1>5 DEF SecretOK

\* A step that gives no connection a new secret or answer.
LEMMA SecretsStay ==
    ASSUME IInv, ConnsGrow, DOMAIN conns' = DOMAIN conns, KeepsReply, KeepsStored,
           KeepsConnector, KeepsListener
    PROVE  SecretInv'
  <1>1. ASSUME NEW c \in DOMAIN conns' PROVE SecretOK(c)'
    BY SecretStays DEF KeepsReply, KeepsStored, KeepsConnector, KeepsListener
  <1> QED BY <1>1 DEF SecretInv, SecretOK

\* processActiveHandshake, with the entry of a connection.
LEMMA ProcessEntrySecret ==
    ASSUME IInv, ConnsGrow, NEW n \in Node, NEW works \in BOOLEAN, ProcessEntry(n, works)
    PROVE  SecretInv'
  <1>0. PICK c, s : c = Entry(n).conn /\ s = IF works THEN EntrySecret(n) ELSE NULL
    OBVIOUS
  <1>1. /\ c \in DOMAIN conns /\ Entry(n).key = conns[c].request /\ conns[c].reply \in Key
        /\ conns[c].reply <= dhExchange[n] /\ Entry(n) \in [conn : ConnID, key : Key]
        /\ Becomes(c, AsProcessed(c, s))
    BY <1>0, EntryOfLoop
  <1>2. /\ DOMAIN conns' = DOMAIN conns
        /\ KeepsRequest /\ KeepsReply /\ KeepsAccepted /\ KeepsStored /\ KeepsConnector
        /\ conns'[c].atListener = s
        /\ \A d \in DOMAIN conns : d # c => conns'[d].atListener = conns[d].atListener
    BY <1>1, SetListener
  <1>3. ASSUME NEW d \in DOMAIN conns, d # c PROVE SecretOK(d)'
    BY <1>2, <1>3, SecretStays DEF KeepsConnector, KeepsReply, KeepsStored
  <1>4. SecretOK(c)'
    <2>1. /\ conns'[c].request = conns[c].request /\ conns'[c].reply = conns[c].reply
          /\ conns'[c].accepted = conns[c].accepted /\ conns'[c].stored = conns[c].stored
          /\ conns'[c].atConnector = conns[c].atConnector
      BY <1>1, <1>2 DEF KeepsRequest, KeepsReply, KeepsAccepted, KeepsStored, KeepsConnector
    <2>2. conns[c].request # NULL /\ conns[c].reply # NULL /\ dhExchange[n] \in Nat
          /\ conns[c].reply \in Nat
      BY <1>1, HandshakeAssumption DEF IInv, HandshakeTypeOK, Key
    <2>3. works => s.connector = conns[c].request /\ s.listener = dhExchange[n]
      BY <1>0, <1>1 DEF EntrySecret
    <2>4. works => s.listener >= conns[c].reply
      BY <1>1, <2>2, <2>3
    <2>5. ~works => s = NULL
      BY <1>0
    <2>6. SecretOK(c)
      BY <1>1 DEF IInv, KeysInv, SecretInv, SecretOK
    <2> QED BY <1>2, <2>1, <2>2, <2>3, <2>4, <2>5, <2>6 DEF SecretOK
  <1>5. ASSUME NEW d \in DOMAIN conns' PROVE SecretOK(d)'
    <2>1. CASE d = c
      BY <1>4, <2>1
    <2>2. CASE d # c
      BY <1>2, <1>3, <2>2
    <2> QED BY <2>1, <2>2
  <1> QED BY <1>5 DEF SecretInv, SecretOK

\* The reply arrives: the secret is of the key it sent and the key it got.
LEMMA RecvSecret ==
    ASSUME IInv, ConnsGrow, NEW n \in Node, Recv(n)
    PROVE  SecretInv'
  <1>0. PICK c, s : c = socket[n] /\ s = [connector |-> dhExchange[n], listener |-> conns[c].reply]
    OBVIOUS
  <1>1. conns[c].reply # NULL /\ Becomes(c, [conns[c] EXCEPT !.atConnector = s])
    BY <1>0, RecvSets
  <1>2. conns[c].request = dhExchange[n] /\ dhExchange[n] # NULL
    BY <1>0, HandshakeAssumption DEF Recv, IInv, HandshakeTypeOK, KeysInv, SocketInv, Key
  <1>3. s = [connector |-> conns[c].request, listener |-> conns[c].reply]
    BY <1>0, <1>2
  <1>4. /\ DOMAIN conns' = DOMAIN conns /\ c \in DOMAIN conns
        /\ KeepsRequest /\ KeepsReply /\ KeepsAccepted /\ KeepsStored /\ KeepsListener
        /\ conns'[c].atConnector = s
        /\ \A d \in DOMAIN conns : d # c => conns'[d].atConnector = conns[d].atConnector
    BY <1>1, SetConnector
  <1>5. ASSUME NEW d \in DOMAIN conns, d # c PROVE SecretOK(d)'
    BY <1>4, <1>5, SecretStays DEF KeepsListener, KeepsReply, KeepsStored
  <1>6. SecretOK(c)'
    <2>1. /\ conns'[c].request = conns[c].request /\ conns'[c].reply = conns[c].reply
          /\ conns'[c].accepted = conns[c].accepted /\ conns'[c].stored = conns[c].stored
          /\ conns'[c].atListener = conns[c].atListener
      BY <1>4 DEF KeepsRequest, KeepsReply, KeepsAccepted, KeepsStored, KeepsListener
    <2>2. SecretOK(c)
      BY <1>4 DEF IInv, KeysInv, SecretInv, SecretOK
    <2> QED BY <1>1, <1>2, <1>3, <1>4, <2>1, <2>2 DEF SecretOK
  <1>7. ASSUME NEW d \in DOMAIN conns' PROVE SecretOK(d)'
    <2>1. CASE d = c
      BY <1>6, <2>1
    <2>2. CASE d # c
      BY <1>4, <1>5, <2>2
    <2> QED BY <2>1, <2>2
  <1> QED BY <1>7 DEF SecretInv, SecretOK

LEMMA StepSecretInv == ASSUME IInv, [Next]_vars PROVE SecretInv'
  <1>0. ConnsGrow
    BY StepConnsGrow
  <1>1. ASSUME NEW n \in Node, NEW works \in BOOLEAN, Send(n, works) PROVE SecretInv'
    <2>1. CASE works
      BY <1>0, <1>1, <2>1, SendKeeps, SecretsStay
    <2>2. CASE ~works
      <3>1. UNCHANGED conns
        BY <1>1, <2>2 DEF Send
      <3> QED BY <1>0, <3>1, UnchangedKeeps, SecretsStay DEF KeepsAll
    <2> QED BY <2>1, <2>2
  <1>2. ASSUME NEW n \in Node, NEW m \in Node, Connect(n, m) PROVE SecretInv'
    <2>0. PICK c : c = Len(conns) + 1
      OBVIOUS
    <2>1. /\ DOMAIN conns' = DOMAIN conns \cup {c}
          /\ conns'[c] = NewConnection(n, m)
          /\ \A d \in DOMAIN conns : conns'[d] = conns[d]
      BY <1>2, <2>0, ConnectAdds
    <2>2. SecretOK(c)'
      <3>1. /\ ~conns'[c].stored /\ conns'[c].reply = NULL
            /\ conns'[c].atConnector = NULL /\ conns'[c].atListener = NULL
        BY <2>1, NewFields
      <3> QED BY <3>1 DEF SecretOK
    <2>3. ASSUME NEW d \in DOMAIN conns PROVE SecretOK(d)'
      BY <1>0, <2>1, SecretStays
    <2> QED BY <2>1, <2>2, <2>3 DEF SecretInv, SecretOK
  <1>3. ASSUME NEW n \in Node, Accept(n) PROVE SecretInv'
    <2>1. PICK c \in DOMAIN conns : Becomes(c, [conns[c] EXCEPT !.accepted = TRUE])
      BY <1>3, AcceptSets
    <2> QED BY <1>0, <2>1, SetAccepted, SecretsStay
  <1>4. ASSUME NEW n \in Node, ListenSend(n) PROVE SecretInv'
    <2>1. /\ client[n] \in DOMAIN conns /\ DOMAIN conns' = DOMAIN conns /\ KeepsAccepted
          /\ KeepsStored /\ KeepsConnector /\ KeepsListener
          /\ \A d \in DOMAIN conns : d # client[n] => conns'[d].reply = conns[d].reply
      BY <1>4, ListenSendKeeps
    <2>2. conns'[client[n]].accepted
      <3>1. lpc[n] = "send"
        BY <1>4 DEF ListenSend
      <3>2. conns[client[n]].accepted
        BY <3>1 DEF IInv, KeysInv, ClientInv
      <3> QED BY <2>1, <3>2 DEF KeepsAccepted
    <2>3. ASSUME NEW d \in DOMAIN conns PROVE SecretOK(d)'
      BY <1>0, <2>1, <2>2, SecretStays DEF KeepsStored, KeepsConnector, KeepsListener
    <2> QED BY <2>1, <2>3 DEF SecretInv, SecretOK
  <1>5. ASSUME NEW n \in Node, Store(n) PROVE SecretInv'
    <2>1. /\ client[n] \in DOMAIN conns /\ DOMAIN conns' = DOMAIN conns /\ KeepsAccepted
          /\ KeepsReply /\ KeepsConnector /\ KeepsListener
          /\ \A d \in DOMAIN conns : d # client[n] => conns'[d].stored = conns[d].stored
      BY <1>5, StoreKeeps
    <2>2. conns'[client[n]].accepted
      <3>1. lpc[n] = "store"
        BY <1>5 DEF Store
      <3>2. conns[client[n]].accepted
        BY <3>1 DEF IInv, KeysInv, ClientInv
      <3> QED BY <2>1, <3>2 DEF KeepsAccepted
    <2>3. ASSUME NEW d \in DOMAIN conns PROVE SecretOK(d)'
      BY <1>0, <2>1, <2>2, SecretStays DEF KeepsReply, KeepsConnector, KeepsListener
    <2> QED BY <2>1, <2>3 DEF SecretInv, SecretOK
  <1>6. ASSUME NEW n \in Node, AcceptFails(n) PROVE SecretInv'
    BY <1>0, <1>6, AcceptFailsKeeps, SecretsStay
  <1>7. ASSUME NEW n \in Node, CloseSocket(n) PROVE SecretInv'
    BY <1>0, <1>7, CloseSets, SetOpen, SecretsStay
  <1>8. ASSUME UNCHANGED conns PROVE SecretInv'
    BY <1>0, <1>8, UnchangedKeeps, SecretsStay DEF KeepsAll
  <1>9. ASSUME NEW n \in Node,
               \/ StartHandshake(n) \/ LockListenAdverts(n) \/ FinishEntries(n)
               \/ ClearListenAdverts(n) \/ (\E m \in Node : PassDevice(n, m))
               \/ RecvFails(n) \/ FinishHandshake(n)
               \/ ChangeEpoch(n) \/ (\E m \in Node : DoneWithDevice(n, m))
               \/ ListenRecv(n) \/ ListenFails(n) \/ WaitClose(n) \/ CloseClient(n)
        PROVE  UNCHANGED conns
    BY <1>9 DEF StartHandshake, LockListenAdverts, FinishEntries, ClearListenAdverts,
                PassDevice, RecvFails, FinishHandshake, ChangeEpoch, DoneWithDevice,
                ListenRecv, ListenFails, WaitClose, CloseClient
  <1>10. CASE UNCHANGED vars
    BY <1>8, <1>10 DEF vars
  <1> QED BY <1>0, <1>1, <1>2, <1>3, <1>4, <1>5, <1>6, <1>7, <1>8, <1>9, <1>10,
             ProcessEntrySecret, RecvSecret
          DEF Next, Main, Listener

-----------------------------------------------------------------------------
(***************************************************************************)
(* The entries of connection c from place k of a list on, and how many     *)
(* there are when the list grows or the loop moves on.                     *)
(***************************************************************************)
Ahead(seq, k, c) == {i \in k .. Len(seq) : seq[i].conn = c}

LEMMA AheadFinite ==
    ASSUME NEW S, NEW seq \in Seq(S), NEW k \in Nat, NEW c
    PROVE  IsFiniteSet(Ahead(seq, k, c)) /\ Cardinality(Ahead(seq, k, c)) \in Nat
  <1>1. Len(seq) \in Nat
    OBVIOUS
  <1>2. IsFiniteSet(k .. Len(seq))
    BY <1>1, FS_Interval
  <1>3. Ahead(seq, k, c) \subseteq k .. Len(seq)
    BY DEF Ahead
  <1> QED BY <1>2, <1>3, FS_Subset, FS_CardinalityType

LEMMA AheadEnd ==
    ASSUME NEW S, NEW seq \in Seq(S), NEW c
    PROVE  Ahead(seq, Len(seq) + 1, c) = {}
  <1>1. Len(seq) \in Nat
    OBVIOUS
  <1> QED BY <1>1 DEF Ahead

LEMMA AheadMove ==
    ASSUME NEW S, NEW seq \in Seq(S), NEW k \in 1 .. Len(seq), NEW c
    PROVE  Cardinality(Ahead(seq, k, c))
             = Cardinality(Ahead(seq, k + 1, c)) + (IF seq[k].conn = c THEN 1 ELSE 0)
  <1>1. Len(seq) \in Nat /\ k \in Nat /\ k + 1 \in Nat
    OBVIOUS
  <1>2. CASE seq[k].conn = c
    <2>1. Ahead(seq, k, c) = Ahead(seq, k + 1, c) \cup {k}
      BY <1>1, <1>2 DEF Ahead
    <2>2. k \notin Ahead(seq, k + 1, c)
      BY <1>1 DEF Ahead
    <2>3. Cardinality(Ahead(seq, k + 1, c) \cup {k}) = Cardinality(Ahead(seq, k + 1, c)) + 1
      BY <1>1, <2>2, AheadFinite, FS_AddElement
    <2> QED BY <1>2, <2>1, <2>3
  <1>3. CASE seq[k].conn # c
    <2>1. Ahead(seq, k, c) = Ahead(seq, k + 1, c)
      BY <1>1, <1>3 DEF Ahead
    <2>2. Cardinality(Ahead(seq, k + 1, c)) \in Nat
      BY <1>1, AheadFinite
    <2> QED BY <1>3, <2>1, <2>2
  <1> QED BY <1>2, <1>3

LEMMA AheadGrow ==
    ASSUME NEW S, NEW seq \in Seq(S), NEW x \in S, NEW k \in 1 .. Len(seq) + 1, NEW c
    PROVE  Cardinality(Ahead(Append(seq, x), k, c))
             = Cardinality(Ahead(seq, k, c)) + (IF x.conn = c THEN 1 ELSE 0)
  <1>1. Len(seq) \in Nat /\ k \in Nat
    OBVIOUS
  <1>2. /\ Len(Append(seq, x)) = Len(seq) + 1 /\ Append(seq, x)[Len(seq) + 1] = x
        /\ \A i \in 1 .. Len(seq) : Append(seq, x)[i] = seq[i]
    OBVIOUS
  <1>3. CASE x.conn = c
    <2>1. Ahead(Append(seq, x), k, c) = Ahead(seq, k, c) \cup {Len(seq) + 1}
      BY <1>1, <1>2, <1>3 DEF Ahead
    <2>2. Len(seq) + 1 \notin Ahead(seq, k, c)
      BY <1>1 DEF Ahead
    <2>3. Cardinality(Ahead(seq, k, c) \cup {Len(seq) + 1}) = Cardinality(Ahead(seq, k, c)) + 1
      BY <1>1, <2>2, AheadFinite, FS_AddElement
    <2> QED BY <1>3, <2>1, <2>3
  <1>4. CASE x.conn # c
    <2>1. Ahead(Append(seq, x), k, c) = Ahead(seq, k, c)
      BY <1>1, <1>2, <1>4 DEF Ahead
    <2>2. Cardinality(Ahead(seq, k, c)) \in Nat
      BY <1>1, AheadFinite
    <2> QED BY <1>4, <2>1, <2>2
  <1> QED BY <1>3, <1>4

-----------------------------------------------------------------------------
(***************************************************************************)
(* An entry is lost by no step and processed by one only.                  *)
(***************************************************************************)
Left(n, c) == Cardinality(Ahead(listenAdverts[n], next[n], c))

OnceOK(c) ==
    conns[c].processed + Left(conns[c].to, c) = IF conns[c].stored THEN 1 ELSE 0

LEMMA OnceIsOnce == StoredIsProcessedOnce <=> \A c \in DOMAIN conns : OnceOK(c)
  BY DEF StoredIsProcessedOnce, OnceOK, Left, EntriesAhead, Ahead

LEMMA ListTypes ==
    ASSUME IInv, NEW n \in Node
    PROVE  /\ listenAdverts[n] \in Seq([conn : ConnID, key : Key])
           /\ Len(listenAdverts[n]) \in Nat
           /\ next[n] \in Nat /\ next[n] \in 1 .. Len(listenAdverts[n]) + 1
  <1>1. listenAdverts[n] \in Seq([conn : ConnID, key : Key]) /\ next[n] \in Nat
    BY DEF IInv, HandshakeTypeOK
  <1>2. Len(listenAdverts[n]) \in Nat
    BY <1>1
  <1> QED BY <1>1, <1>2 DEF IInv, LoopInv

LEMMA LeftIsNat ==
    ASSUME IInv, NEW n \in Node, NEW c PROVE Left(n, c) \in Nat
  BY ListTypes, AheadFinite DEF Left

\* A step that neither stores nor processes, of any thread.
LEMMA OnceKept ==
    ASSUME IInv, StoredIsProcessedOnce, KeepsEnds, KeepsStored, KeepsProcessed,
           UNCHANGED <<listenAdverts, next>>, NEW c \in DOMAIN conns
    PROVE  OnceOK(c)'
  <1>1. OnceOK(c)
    BY OnceIsOnce
  <1> QED BY <1>1 DEF OnceOK, KeepsEnds, KeepsStored, KeepsProcessed, Left

LEMMA ProcessEntryOnce ==
    ASSUME IInv, StoredIsProcessedOnce, NEW n \in Node, NEW works \in BOOLEAN,
           ProcessEntry(n, works), NEW d \in DOMAIN conns
    PROVE  OnceOK(d)'
  <1>0. PICK c : c = Entry(n).conn
    OBVIOUS
  <1>1. /\ next[n] \in 1 .. Len(listenAdverts[n]) /\ c \in DOMAIN conns
        /\ conns[c].to = n
        /\ Becomes(c, AsProcessed(c, IF works THEN EntrySecret(n) ELSE NULL))
    BY <1>0, EntryOfLoop
  <1>2. /\ KeepsEnds /\ KeepsStored /\ conns'[c].processed = conns[c].processed + 1
        /\ \A e \in DOMAIN conns : e # c => conns'[e].processed = conns[e].processed
    BY <1>1, SetListener
  <1>3. /\ UNCHANGED listenAdverts /\ next'[n] = next[n] + 1
        /\ \A m \in Node : m # n => next'[m] = next[m]
    BY DEF ProcessEntry, IInv, HandshakeTypeOK
  <1>4. OnceOK(d) /\ conns[d].to \in Node /\ conns[d].processed \in Nat
    BY OnceIsOnce, ConnType DEF Connection, IInv, HandshakeTypeOK
  <1>5. CASE conns[d].to # n
    <2>1. Left(conns[d].to, d) = Cardinality(Ahead(listenAdverts'[conns[d].to],
                                                   next'[conns[d].to], d))
      BY <1>3, <1>4, <1>5 DEF Left
    <2>2. d # c
      BY <1>1, <1>5
    <2> QED BY <1>2, <1>4, <2>1, <2>2 DEF OnceOK, Left, KeepsEnds, KeepsStored
  <1>6. CASE conns[d].to = n
    <2>0. Left(n, d) = Cardinality(Ahead(listenAdverts[n], next[n] + 1, d))
                         + (IF listenAdverts[n][next[n]].conn = d THEN 1 ELSE 0)
      BY <1>1, ListTypes, AheadMove DEF Left
    <2>1. Left(n, d) = Cardinality(Ahead(listenAdverts'[n], next'[n], d))
                         + (IF c = d THEN 1 ELSE 0)
      BY <1>0, <1>3, <2>0 DEF Entry
    <2>2. Cardinality(Ahead(listenAdverts'[n], next'[n], d)) \in Nat
      <3>1. next[n] + 1 \in Nat
        BY <1>1, ListTypes
      <3> QED BY <1>3, <3>1, ListTypes, AheadFinite
    <2>3. conns'[d].to = n /\ conns'[d].stored = conns[d].stored
      BY <1>2, <1>6 DEF KeepsEnds, KeepsStored
    <2>4. CASE c = d
      BY <1>2, <1>4, <1>6, <2>1, <2>2, <2>3, <2>4 DEF OnceOK, Left
    <2>5. CASE c # d
      BY <1>2, <1>4, <1>6, <2>1, <2>2, <2>3, <2>5 DEF OnceOK, Left
    <2> QED BY <2>4, <2>5
  <1> QED BY <1>5, <1>6

LEMMA StoreOnce ==
    ASSUME IInv, StoredIsProcessedOnce, NEW n \in Node, Store(n), NEW d \in DOMAIN conns
    PROVE  OnceOK(d)'
  <1>0. PICK c, e : c = client[n] /\ e = [conn |-> client[n], key |-> remoteMessage[n]]
    OBVIOUS
  <1>1. /\ c \in DOMAIN conns /\ conns[c].to = n /\ ~conns[c].stored
        /\ e \in [conn : ConnID, key : Key] /\ e.conn = c
    BY <1>0, StoreSets DEF Store, IInv, KeysInv, ClientInv
  <1>2. /\ KeepsEnds /\ KeepsProcessed /\ conns'[c].stored = TRUE
        /\ \A k \in DOMAIN conns : k # c => conns'[k].stored = conns[k].stored
    <2>1. Becomes(client[n], [conns[client[n]] EXCEPT !.stored = TRUE])
      BY StoreSets
    <2>2. Becomes(c, [conns[c] EXCEPT !.stored = TRUE])
      BY <1>0, <2>1
    <2> QED BY <2>2, SetStored
  <1>3. /\ UNCHANGED next /\ listenAdverts'[n] = Append(listenAdverts[n], e)
        /\ \A m \in Node : m # n => listenAdverts'[m] = listenAdverts[m]
    BY <1>0 DEF Store, IInv, HandshakeTypeOK
  <1>4. OnceOK(d) /\ conns[d].to \in Node /\ conns[d].processed \in Nat
    BY OnceIsOnce, ConnType DEF Connection, IInv, HandshakeTypeOK
  <1>5. conns'[d].to = conns[d].to /\ conns'[d].processed = conns[d].processed
    BY <1>2 DEF KeepsEnds, KeepsProcessed
  <1>6. CASE conns[d].to # n
    <2>1. Left(conns[d].to, d) = Cardinality(Ahead(listenAdverts'[conns[d].to],
                                                   next'[conns[d].to], d))
      BY <1>3, <1>4, <1>6 DEF Left
    <2>2. d # c
      BY <1>1, <1>6
    <2> QED BY <1>2, <1>4, <1>5, <2>1, <2>2 DEF OnceOK, Left
  <1>7. CASE conns[d].to = n
    <2>0. Cardinality(Ahead(Append(listenAdverts[n], e), next[n], d))
            = Cardinality(Ahead(listenAdverts[n], next[n], d))
                + (IF e.conn = d THEN 1 ELSE 0)
      <3>1. PICK S, seq, k : /\ S = [conn : ConnID, key : Key]
                             /\ seq = listenAdverts[n] /\ k = next[n]
        OBVIOUS
      <3>2. seq \in Seq(S) /\ e \in S /\ k \in 1 .. Len(seq) + 1
        BY <1>1, <3>1, ListTypes
      <3>3. Cardinality(Ahead(Append(seq, e), k, d))
              = Cardinality(Ahead(seq, k, d)) + (IF e.conn = d THEN 1 ELSE 0)
        BY <3>2, AheadGrow
      <3> QED BY <3>1, <3>3
    <2>1. Cardinality(Ahead(listenAdverts'[n], next'[n], d))
            = Left(n, d) + (IF c = d THEN 1 ELSE 0)
      BY <1>1, <1>3, <2>0 DEF Left
    <2>2. Left(n, d) \in Nat
      BY LeftIsNat
    <2>3. CASE c = d
      BY <1>1, <1>2, <1>4, <1>5, <1>7, <2>1, <2>2, <2>3 DEF OnceOK, Left
    <2>4. CASE c # d
      BY <1>2, <1>4, <1>5, <1>7, <2>1, <2>2, <2>4 DEF OnceOK, Left
    <2> QED BY <2>3, <2>4
  <1> QED BY <1>6, <1>7

\* clear(): the loop is at the end, so that nothing is dropped.
LEMMA ClearOnce ==
    ASSUME IInv, StoredIsProcessedOnce, NEW n \in Node, ClearListenAdverts(n),
           NEW d \in DOMAIN conns
    PROVE  OnceOK(d)'
  <1>1. /\ UNCHANGED conns /\ listenAdverts'[n] = <<>> /\ next'[n] = 1
        /\ \A m \in Node : m # n => listenAdverts'[m] = listenAdverts[m] /\ next'[m] = next[m]
    BY DEF ClearListenAdverts, IInv, HandshakeTypeOK
  <1>2. OnceOK(d) /\ conns[d].to \in Node
    BY OnceIsOnce, ConnType DEF Connection, IInv, HandshakeTypeOK
  <1>3. CASE conns[d].to # n
    BY <1>1, <1>2, <1>3 DEF OnceOK, Left
  <1>4. CASE conns[d].to = n
    <2>1. next[n] = Len(listenAdverts[n]) + 1
      BY DEF ClearListenAdverts, IInv, LoopInv
    <2>2. Left(n, d) = Cardinality({})
      BY <2>1, ListTypes, AheadEnd DEF Left
    <2>3. Ahead(listenAdverts'[n], next'[n], d) = {}
      BY <1>1 DEF Ahead
    <2> QED BY <1>1, <1>2, <1>4, <2>2, <2>3 DEF OnceOK, Left
  <1> QED BY <1>3, <1>4

LEMMA ConnectOnce ==
    ASSUME IInv, StoredIsProcessedOnce, NEW n \in Node, NEW m \in Node, Connect(n, m),
           NEW d \in DOMAIN conns'
    PROVE  OnceOK(d)'
  <1>1. UNCHANGED <<listenAdverts, next>>
    BY DEF Connect
  <1>2. CASE d \in DOMAIN conns
    BY <1>1, <1>2, ConnectKeeps, OnceKept DEF KeepsAll
  <1>3. CASE d \notin DOMAIN conns
    <2>1. conns'[d] = NewConnection(n, m)
      BY <1>3, ConnectAdds
    <2>2. conns'[d].to = m /\ ~conns'[d].stored /\ conns'[d].processed = 0
      BY <2>1, NewFields
    <2>3. Ahead(listenAdverts[m], next[m], d) = {}
      <3>1. ASSUME NEW i \in next[m] .. Len(listenAdverts[m])
            PROVE  listenAdverts[m][i].conn # d
        <4>1. i \in 1 .. Len(listenAdverts[m])
          BY ListTypes
        <4> QED BY <1>3, <4>1, EntryKeys
      <3> QED BY <3>1 DEF Ahead
    <2> QED BY <1>1, <2>2, <2>3, FS_EmptySet DEF OnceOK, Left
  <1> QED BY <1>2, <1>3

LEMMA StepOnce ==
    ASSUME IInv, StoredIsProcessedOnce, [Next]_vars
    PROVE  StoredIsProcessedOnce'
  <1> SUFFICES ASSUME NEW d \in DOMAIN conns' PROVE OnceOK(d)'
    BY OnceIsOnce DEF StoredIsProcessedOnce, OnceOK, Left, EntriesAhead, Ahead
  <1>1. ASSUME NEW n \in Node, NEW works \in BOOLEAN, Send(n, works) PROVE OnceOK(d)'
    <2>1. UNCHANGED <<listenAdverts, next>>
      BY <1>1 DEF Send
    <2>2. CASE works
      BY <1>1, <2>1, <2>2, SendKeeps, OnceKept
    <2>3. CASE ~works
      <3>1. UNCHANGED conns
        BY <1>1, <2>3 DEF Send
      <3> QED BY <2>1, <3>1, UnchangedKeeps, OnceKept DEF KeepsAll
    <2> QED BY <2>2, <2>3
  <1>2. ASSUME NEW n \in Node, NEW works \in BOOLEAN, ProcessEntry(n, works) PROVE OnceOK(d)'
    BY <1>2, ProcessEntryKeeps, ProcessEntryOnce
  <1>3. ASSUME NEW n \in Node, Recv(n) PROVE OnceOK(d)'
    BY <1>3, RecvKeeps, OnceKept DEF Recv
  <1>4. ASSUME NEW n \in Node, Accept(n) PROVE OnceOK(d)'
    BY <1>4, AcceptSets, SetAccepted, OnceKept DEF Accept
  <1>5. ASSUME NEW n \in Node, AcceptFails(n) PROVE OnceOK(d)'
    BY <1>5, AcceptFailsKeeps, OnceKept DEF AcceptFails
  <1>6. ASSUME NEW n \in Node, ListenSend(n) PROVE OnceOK(d)'
    BY <1>6, ListenSendKeeps, OnceKept DEF ListenSend
  <1>7. ASSUME NEW n \in Node, Store(n) PROVE OnceOK(d)'
    BY <1>7, StoreKeeps, StoreOnce
  <1>8. ASSUME NEW n \in Node, CloseSocket(n) PROVE OnceOK(d)'
    BY <1>8, CloseSets, SetOpen, OnceKept DEF CloseSocket
  <1>9. ASSUME NEW n \in Node, ClearListenAdverts(n) PROVE OnceOK(d)'
    <2>1. UNCHANGED conns
      BY <1>9 DEF ClearListenAdverts
    <2> QED BY <1>9, <2>1, ClearOnce
  <1>10. ASSUME UNCHANGED <<conns, listenAdverts, next>> PROVE OnceOK(d)'
    BY <1>10, UnchangedKeeps, OnceKept DEF KeepsAll
  <1>11. ASSUME NEW n \in Node, LockListenAdverts(n) PROVE OnceOK(d)'
    <2>1. next[n] = 1
      BY <1>11 DEF LockListenAdverts, IInv, LoopInv
    <2>2. next' = next
      BY <1>11, <2>1 DEF LockListenAdverts, IInv, HandshakeTypeOK
    <2> QED BY <1>10, <1>11, <2>2 DEF LockListenAdverts
  <1>12. ASSUME NEW n \in Node,
                \/ StartHandshake(n) \/ FinishEntries(n) \/ (\E m \in Node : PassDevice(n, m))
                \/ RecvFails(n) \/ FinishHandshake(n)
                \/ ChangeEpoch(n) \/ (\E m \in Node : DoneWithDevice(n, m))
                \/ ListenRecv(n) \/ ListenFails(n) \/ WaitClose(n) \/ CloseClient(n)
         PROVE  UNCHANGED <<conns, listenAdverts, next>>
    BY <1>12 DEF StartHandshake, FinishEntries, PassDevice, RecvFails, FinishHandshake,
                 ChangeEpoch, DoneWithDevice, ListenRecv, ListenFails, WaitClose, CloseClient
  <1>13. CASE UNCHANGED vars
    BY <1>10, <1>13 DEF vars
  <1> QED BY <1>1, <1>2, <1>3, <1>4, <1>5, <1>6, <1>7, <1>8, <1>9, <1>10, <1>11, <1>12,
             <1>13, ConnectOnce
          DEF Next, Main, Listener

-----------------------------------------------------------------------------
(***************************************************************************)
(* The theorems.                                                           *)
(***************************************************************************)
LEMMA StepIInv == IInv /\ [Next]_vars => IInv'
  <1> SUFFICES ASSUME IInv, [Next]_vars PROVE IInv'
    OBVIOUS
  <1>1. KeysInv'
    BY StepSocketInv, StepClientInv, StepEntryInv, StepSecretInv DEF KeysInv
  <1> QED BY <1>1, StepTypeOK, StepLockInv, StepLoopInv DEF IInv

LEMMA AlwaysIInv == Spec => []IInv
  BY InitIInv, StepIInv, PTL DEF Spec

\* Every variable of the two threads keeps its type: what a thread has when it
\* leaves a call is a connection, a key or an entry of the kind it goes on with.
THEOREM TypesAreKept == Spec => []HandshakeTypeOK
  <1>1. IInv => HandshakeTypeOK
    BY DEF IInv
  <1> QED BY <1>1, AlwaysIInv, PTL

\* The secret handshake() confirms on the connecting side is made of the key it
\* sent and the key it received, whatever the listeners and the epochs of other
\* nodes do meanwhile.
THEOREM ConnectorsUseKeysSent == Spec => []ConnectorUsesKeysSent
  <1>1. IInv => ConnectorUsesKeysSent
    BY DEF IInv, KeysInv, SecretInv, ConnectorUsesKeysSent
  <1> QED BY <1>1, AlwaysIInv, PTL

\* The secrets of the two ends of a connection differ only by an epoch of the
\* listening node that began after its answer.
THEOREM SecretsAgree == Spec => []SecretsAgreeWithinEpoch
  <1>1. IInv => SecretsAgreeWithinEpoch
    <2> SUFFICES ASSUME IInv, NEW c \in DOMAIN conns,
                        conns[c].atConnector # NULL, conns[c].atListener # NULL
                 PROVE  \/ conns[c].atConnector = conns[c].atListener
                        \/ conns[c].atListener.listener > conns[c].reply
      BY DEF SecretsAgreeWithinEpoch
    <2>1. conns[c].atListener \in Secret /\ conns[c].reply \in Key \cup {NULL}
      BY ConnType DEF IInv, HandshakeTypeOK, Connection
    <2>2. /\ conns[c].atConnector =
                [connector |-> conns[c].request, listener |-> conns[c].reply]
          /\ conns[c].atListener.connector = conns[c].request
          /\ conns[c].atListener.listener >= conns[c].reply
          /\ conns[c].reply # NULL
      BY DEF IInv, KeysInv, SecretInv
    <2>3. conns[c].reply \in Nat /\ conns[c].atListener.listener \in Nat
      BY <2>1, <2>2, HandshakeAssumption DEF Secret, Key
    <2>4. conns[c].atListener = [connector |-> conns[c].atListener.connector,
                                 listener  |-> conns[c].atListener.listener]
      BY <2>1 DEF Secret
    <2>5. CASE conns[c].atListener.listener = conns[c].reply
      BY <2>2, <2>4, <2>5
    <2> QED BY <2>2, <2>3, <2>5
  <1> QED BY <1>1, AlwaysIInv, PTL

\* Between push_back, the drain loop and clear(), an entry of listenAdverts_ is
\* never lost and never processed again.
THEOREM EntriesAreProcessedOnce == Spec => []StoredIsProcessedOnce
  <1>1. Init => StoredIsProcessedOnce
    BY DEF Init, StoredIsProcessedOnce
  <1>2. IInv /\ StoredIsProcessedOnce /\ [Next]_vars => StoredIsProcessedOnce'
    BY StepOnce
  <1> QED BY <1>1, <1>2, AlwaysIInv, PTL DEF Spec
=============================================================================
