---------------------------- MODULE BT4Handshake ----------------------------
(***************************************************************************)
(* Active confirmation between EbNRadioBT4 radios.                         *)
(*                                                                         *)
(* Each node runs two threads.  The main thread (the controller's) changes *)
(* epochs and, in handshake(), first processes what the listener has       *)
(* stored and then connects to devices it selected.  The listener accepts  *)
(* one connection at a time, exchanges public values and stores the remote *)
(* one in listenAdverts_ for the main thread.  The threads of a node share *)
(* dhExchange_ and listenAdverts_, each with its mutex.                    *)
(*                                                                         *)
(* A key is known by its number: each node's n-th key pair is the one of   *)
(* its n-th epoch.  The secret of a connection is a pair of key numbers,   *)
(* the connecting node's and the listening node's.  Copying or replacing   *)
(* dhExchange_ takes dhExchangeMutex_ for a computation only, so each is   *)
(* one step; listenAdvertsMutex_ is held across waits and is modelled.     *)
(* Connections are L2CAP sockets that carry whole packets, in order;       *)
(* every attempt to connect, send or receive may also fail or time out.    *)
(***************************************************************************)
EXTENDS Naturals, Sequences, FiniteSets

CONSTANTS Node,            \* the radios
          NULL,            \* no key, no secret, no connection
          MaxEpochs,       \* bound: epoch changes of a node
          MaxConnections   \* bound: connections over the whole run

ASSUME HandshakeAssumption ==
    /\ MaxEpochs \in Nat /\ MaxConnections \in Nat
    /\ NULL \notin Nat

Key == 0 .. MaxEpochs
ConnID == 1 .. MaxConnections
Secret == [connector : Key, listener : Key]

VARIABLES
    dhExchange,     \* the number of the key pair in dhExchange_
    pc,             \* where each main thread is
    toHandshake,    \* the peers handshake() has not reached yet
    confirmed,      \* the peers whose device isConfirmed()
    connectable,    \* whether the node advertises with the connectable type
    socket,         \* the connection of the main thread, or NULL
    lpc,            \* where each listener is
    client,         \* the connection the listener serves, or NULL
    dhExchangeCopy, \* its copy of dhExchange_
    remoteMessage,  \* the public value it received
    listenAdverts,  \* listenAdverts_: the entries are [conn, key]
    next,           \* the entry the drain loop is at
    lock,           \* who holds listenAdvertsMutex_: "free", "main" or "listener"
    conns           \* all connections so far, see Connection

mainVars == <<pc, toHandshake, connectable, socket>>
listenerVars == <<lpc, client, dhExchangeCopy, remoteMessage>>
vars == <<dhExchange, mainVars, confirmed, listenerVars, listenAdverts, next, lock, conns>>

(***************************************************************************)
(* A connection holds what is in its two directions and whether its ends   *)
(* are still open; the rest is ghost: the key the listener answered with,  *)
(* how often its entry was stored and processed, and the secrets the two   *)
(* ends have computed.                                                     *)
(***************************************************************************)
Connection ==
    [from      : Node, to : Node,
     open      : BOOLEAN,              \* the connector's end
     accepted  : BOOLEAN,
     request   : Key \cup {NULL},      \* sent by the connector
     reply     : Key \cup {NULL},      \* sent by the listener
     stored    : BOOLEAN,
     processed : Nat,
     atConnector : Secret \cup {NULL},
     atListener  : Secret \cup {NULL}]

NewConnection(n, m) ==
    [from |-> n, to |-> m, open |-> TRUE, accepted |-> FALSE,
     request |-> NULL, reply |-> NULL, stored |-> FALSE, processed |-> 0,
     atConnector |-> NULL, atListener |-> NULL]

HandshakeTypeOK ==
    /\ dhExchange \in [Node -> Key]
    /\ pc \in [Node -> {"idle", "lock", "drain", "clear", "next", "send", "recv", "close"}]
    /\ toHandshake \in [Node -> SUBSET Node]
    /\ confirmed \in [Node -> SUBSET Node]
    /\ connectable \in [Node -> BOOLEAN]
    /\ socket \in [Node -> ConnID \cup {NULL}]
    /\ lpc \in [Node -> {"accept", "recv", "send", "store", "wait", "close"}]
    /\ client \in [Node -> ConnID \cup {NULL}]
    /\ dhExchangeCopy \in [Node -> Key \cup {NULL}]
    /\ remoteMessage \in [Node -> Key \cup {NULL}]
    /\ listenAdverts \in [Node -> Seq([conn : ConnID, key : Key])]
    /\ next \in [Node -> Nat]
    /\ lock \in [Node -> {"free", "main", "listener"}]
    /\ conns \in Seq(Connection) /\ Len(conns) <= MaxConnections

Init ==
    /\ dhExchange = [n \in Node |-> 0]
    /\ pc = [n \in Node |-> "idle"]
    /\ toHandshake = [n \in Node |-> {}]
    /\ confirmed = [n \in Node |-> {}]
    /\ connectable = [n \in Node |-> TRUE]
    /\ socket = [n \in Node |-> NULL]
    /\ lpc = [n \in Node |-> "accept"]
    /\ client = [n \in Node |-> NULL]
    /\ dhExchangeCopy = [n \in Node |-> NULL]
    /\ remoteMessage = [n \in Node |-> NULL]
    /\ listenAdverts = [n \in Node |-> <<>>]
    /\ next = [n \in Node |-> 1]
    /\ lock = [n \in Node |-> "free"]
    /\ conns = <<>>

-----------------------------------------------------------------------------
\* Bug: the epoch timer does not wait for the main thread.
BugChangeEpochAnyTime(n) ==
    /\ dhExchange[n] < MaxEpochs
    /\ dhExchange' = [dhExchange EXCEPT ![n] = @ + 1]
    /\ UNCHANGED <<mainVars, confirmed, listenerVars, listenAdverts, next, lock, conns>>

\* The main thread's other work: changeEpoch, and expiry of a device.
ChangeEpoch(n) ==
    /\ pc[n] = "idle"
    /\ dhExchange[n] < MaxEpochs
    /\ dhExchange' = [dhExchange EXCEPT ![n] = @ + 1]
    /\ UNCHANGED <<mainVars, confirmed, listenerVars, listenAdverts, next, lock, conns>>

DoneWithDevice(n, m) ==
    /\ pc[n] = "idle"
    /\ m \in confirmed[n]
    /\ confirmed' = [confirmed EXCEPT ![n] = @ \ {m}]
    /\ UNCHANGED <<dhExchange, mainVars, listenerVars, listenAdverts, next, lock, conns>>

-----------------------------------------------------------------------------
\* handshake(): the policy selected some of the devices around.
StartHandshake(n) ==
    /\ pc[n] = "idle"
    /\ pc' = [pc EXCEPT ![n] = "lock"]
    /\ \E peers \in SUBSET (Node \ {n}) :
          toHandshake' = [toHandshake EXCEPT ![n] = peers]
    /\ UNCHANGED <<dhExchange, connectable, socket, confirmed, listenerVars,
                   listenAdverts, next, lock, conns>>

LockListenAdverts(n) ==
    /\ pc[n] = "lock"
    /\ lock[n] = "free"
    /\ lock' = [lock EXCEPT ![n] = "main"]
    /\ pc' = [pc EXCEPT ![n] = "drain"]
    /\ next' = [next EXCEPT ![n] = 1]
    /\ UNCHANGED <<dhExchange, toHandshake, connectable, socket, confirmed,
                   listenerVars, listenAdverts, conns>>

\* processActiveHandshake for one entry: the secret is computed with the
\* dhExchange_ of now.  It fails if the value is not a point of the curve.
ProcessEntry(n, works) ==
    /\ pc[n] = "drain"
    /\ next[n] <= Len(listenAdverts[n])
    /\ LET entry  == listenAdverts[n][next[n]]
           secret == [connector |-> entry.key, listener |-> dhExchange[n]]
       IN  /\ conns' = [conns EXCEPT ![entry.conn].processed = @ + 1,
                                     ![entry.conn].atListener = IF works THEN secret ELSE NULL]
           /\ confirmed' = [confirmed EXCEPT
                              ![n] = IF works THEN @ \cup {conns[entry.conn].from} ELSE @]
    /\ next' = [next EXCEPT ![n] = @ + 1]
    /\ UNCHANGED <<dhExchange, mainVars, listenerVars, listenAdverts, lock>>

FinishEntries(n) ==
    /\ pc[n] = "drain"
    /\ next[n] > Len(listenAdverts[n])
    /\ pc' = [pc EXCEPT ![n] = "clear"]
    /\ UNCHANGED <<dhExchange, toHandshake, connectable, socket, confirmed,
                   listenerVars, listenAdverts, next, lock, conns>>

\* listenAdverts_.clear(), and the lock is released.
ClearListenAdverts(n) ==
    /\ pc[n] = "clear"
    /\ listenAdverts' = [listenAdverts EXCEPT ![n] = <<>>]
    /\ next' = [next EXCEPT ![n] = 1]
    /\ lock' = [lock EXCEPT ![n] = "free"]
    /\ pc' = [pc EXCEPT ![n] = "next"]
    /\ UNCHANGED <<dhExchange, toHandshake, connectable, socket, confirmed,
                   listenerVars, conns>>

\* The next device: confirmed ones are only marked, and so are those that
\* cannot be reached.
PassDevice(n, m) ==
    /\ pc[n] = "next"
    /\ m \in toHandshake[n]
    /\ toHandshake' = [toHandshake EXCEPT ![n] = @ \ {m}]
    /\ UNCHANGED <<dhExchange, pc, connectable, socket, confirmed, listenerVars,
                   listenAdverts, next, lock, conns>>

\* connectBT4 succeeds: the peer advertises as connectable and listens.
Connect(n, m) ==
    /\ pc[n] = "next"
    /\ m \in toHandshake[n] \ confirmed[n]
    /\ connectable[m]
    /\ Len(conns) < MaxConnections
    /\ conns' = Append(conns, NewConnection(n, m))
    /\ socket' = [socket EXCEPT ![n] = Len(conns) + 1]
    /\ connectable' = [connectable EXCEPT ![n] = FALSE]
    /\ pc' = [pc EXCEPT ![n] = "send"]
    /\ UNCHANGED <<dhExchange, toHandshake, confirmed, listenerVars, listenAdverts,
                   next, lock>>

\* Bug: the public value is not refreshed with the key pair.
BugSendFirstKey(n, works) ==
    /\ pc[n] = "send"
    /\ pc' = [pc EXCEPT ![n] = IF works THEN "recv" ELSE "close"]
    /\ conns' = IF works THEN [conns EXCEPT ![socket[n]].request = 0] ELSE conns
    /\ UNCHANGED <<dhExchange, toHandshake, connectable, socket, confirmed,
                   listenerVars, listenAdverts, next, lock>>

Send(n, works) ==
    /\ pc[n] = "send"
    /\ pc' = [pc EXCEPT ![n] = IF works THEN "recv" ELSE "close"]
    /\ conns' = IF works THEN [conns EXCEPT ![socket[n]].request = dhExchange[n]]
                         ELSE conns
    /\ UNCHANGED <<dhExchange, toHandshake, connectable, socket, confirmed,
                   listenerVars, listenAdverts, next, lock>>

\* The reply arrives and processActiveHandshake confirms the device.
Recv(n) ==
    /\ pc[n] = "recv"
    /\ LET c == conns[socket[n]]
       IN  /\ c.reply # NULL
           /\ conns' = [conns EXCEPT ![socket[n]].atConnector =
                          [connector |-> dhExchange[n], listener |-> c.reply]]
           /\ confirmed' = [confirmed EXCEPT ![n] = @ \cup {c.to}]
    /\ pc' = [pc EXCEPT ![n] = "close"]
    /\ UNCHANGED <<dhExchange, toHandshake, connectable, socket, listenerVars,
                   listenAdverts, next, lock>>

\* No reply in time, an error, only zeros, or not a point of the curve.
RecvFails(n) ==
    /\ pc[n] = "recv"
    /\ pc' = [pc EXCEPT ![n] = "close"]
    /\ UNCHANGED <<dhExchange, toHandshake, connectable, socket, confirmed,
                   listenerVars, listenAdverts, next, lock, conns>>

\* close(sock) and the connectable advertisement type again.
CloseSocket(n) ==
    /\ pc[n] = "close"
    /\ conns' = [conns EXCEPT ![socket[n]].open = FALSE]
    /\ toHandshake' = [toHandshake EXCEPT ![n] = @ \ {conns[socket[n]].to}]
    /\ socket' = [socket EXCEPT ![n] = NULL]
    /\ connectable' = [connectable EXCEPT ![n] = TRUE]
    /\ pc' = [pc EXCEPT ![n] = "next"]
    /\ UNCHANGED <<dhExchange, confirmed, listenerVars, listenAdverts, next, lock>>

\* All devices done, or too little time until the next action.
FinishHandshake(n) ==
    /\ pc[n] = "next"
    /\ toHandshake' = [toHandshake EXCEPT ![n] = {}]
    /\ pc' = [pc EXCEPT ![n] = "idle"]
    /\ UNCHANGED <<dhExchange, connectable, socket, confirmed, listenerVars,
                   listenAdverts, next, lock, conns>>

-----------------------------------------------------------------------------
(***************************************************************************)
(* listen()                                                                *)
(***************************************************************************)
GoTo(n, place) == lpc' = [lpc EXCEPT ![n] = place]

\* acceptBT4, with the copy of dhExchange_; the connector may be gone by now.
Accept(n) ==
    /\ lpc[n] = "accept"
    /\ \E c \in DOMAIN conns :
         /\ conns[c].to = n /\ ~conns[c].accepted
         /\ conns' = [conns EXCEPT ![c].accepted = TRUE]
         /\ client' = [client EXCEPT ![n] = c]
    /\ dhExchangeCopy' = [dhExchangeCopy EXCEPT ![n] = dhExchange[n]]
    /\ GoTo(n, "recv")
    /\ UNCHANGED <<dhExchange, mainVars, confirmed, remoteMessage, listenAdverts,
                   next, lock>>

\* Bug: what recv returns is not looked at.
BugRecvUnchecked(n) ==
    /\ lpc[n] = "recv"
    /\ remoteMessage' = [remoteMessage EXCEPT ![n] = conns[client[n]].request]
    /\ GoTo(n, "send")
    /\ UNCHANGED <<dhExchange, mainVars, confirmed, client, dhExchangeCopy,
                   listenAdverts, next, lock, conns>>

ListenRecv(n) ==
    /\ lpc[n] = "recv"
    /\ conns[client[n]].request # NULL
    /\ remoteMessage' = [remoteMessage EXCEPT ![n] = conns[client[n]].request]
    /\ GoTo(n, "send")
    /\ UNCHANGED <<dhExchange, mainVars, confirmed, client, dhExchangeCopy,
                   listenAdverts, next, lock, conns>>

\* The answer leaves with the key of the copy.  Succeeding says nothing of
\* its arrival: the connector may have given up.
ListenSend(n) ==
    /\ lpc[n] = "send"
    /\ conns' = [conns EXCEPT ![client[n]].reply = dhExchangeCopy[n]]
    /\ GoTo(n, "store")
    /\ UNCHANGED <<dhExchange, mainVars, confirmed, client, dhExchangeCopy,
                   remoteMessage, listenAdverts, next, lock>>

\* recv or send fails, times out, or brings only zeros.
ListenFails(n) ==
    /\ lpc[n] \in {"recv", "send"}
    /\ GoTo(n, "close")
    /\ UNCHANGED <<dhExchange, mainVars, confirmed, client, dhExchangeCopy,
                   remoteMessage, listenAdverts, next, lock, conns>>

\* Bug: listenAdverts_ is filled without the lock.
BugStoreUnlocked(n) ==
    /\ lpc[n] = "store"
    /\ listenAdverts' = [listenAdverts EXCEPT
                           ![n] = Append(@, [conn |-> client[n], key |-> remoteMessage[n]])]
    /\ conns' = [conns EXCEPT ![client[n]].stored = TRUE]
    /\ GoTo(n, "close")
    /\ UNCHANGED <<dhExchange, mainVars, confirmed, client, dhExchangeCopy,
                   remoteMessage, next, lock>>

\* Bug: the entry is dropped when the client is gone already.
BugStoreIfOpen(n) ==
    /\ lpc[n] = "store"
    /\ lock[n] = "free"
    /\ IF conns[client[n]].open
       THEN /\ listenAdverts' =
                 [listenAdverts EXCEPT
                    ![n] = Append(@, [conn |-> client[n], key |-> remoteMessage[n]])]
            /\ conns' = [conns EXCEPT ![client[n]].stored = TRUE]
       ELSE UNCHANGED <<listenAdverts, conns>>
    /\ GoTo(n, "close")
    /\ UNCHANGED <<dhExchange, mainVars, confirmed, client, dhExchangeCopy,
                   remoteMessage, next, lock>>

\* listenAdverts_.push_back under the lock, which is kept.
Store(n) ==
    /\ lpc[n] = "store"
    /\ lock[n] = "free"
    /\ lock' = [lock EXCEPT ![n] = "listener"]
    /\ listenAdverts' = [listenAdverts EXCEPT
                           ![n] = Append(@, [conn |-> client[n], key |-> remoteMessage[n]])]
    /\ conns' = [conns EXCEPT ![client[n]].stored = TRUE]
    /\ GoTo(n, "wait")
    /\ UNCHANGED <<dhExchange, mainVars, confirmed, client, dhExchangeCopy,
                   remoteMessage, next>>

\* Bug: the lock is not released on this path.
BugKeepLock(n) ==
    /\ lpc[n] = "wait"
    /\ GoTo(n, "close")
    /\ UNCHANGED <<dhExchange, mainVars, confirmed, client, dhExchangeCopy,
                   remoteMessage, listenAdverts, next, lock, conns>>

\* waitClose returns, at the latest after its timeout, and the lock is released.
WaitClose(n) ==
    /\ lpc[n] = "wait"
    /\ lock' = [lock EXCEPT ![n] = "free"]
    /\ GoTo(n, "close")
    /\ UNCHANGED <<dhExchange, mainVars, confirmed, client, dhExchangeCopy,
                   remoteMessage, listenAdverts, next, conns>>

CloseClient(n) ==
    /\ lpc[n] = "close"
    /\ client' = [client EXCEPT ![n] = NULL]
    /\ dhExchangeCopy' = [dhExchangeCopy EXCEPT ![n] = NULL]
    /\ remoteMessage' = [remoteMessage EXCEPT ![n] = NULL]
    /\ GoTo(n, "accept")
    /\ UNCHANGED <<dhExchange, mainVars, confirmed, listenAdverts, next, lock, conns>>

\* accept fails: the listening socket is closed, with the connections that
\* wait in it, and opened again after five seconds.  Until then connections
\* to it fail, as they may at any time.
AcceptFails(n) ==
    /\ lpc[n] = "accept"
    /\ \E c \in DOMAIN conns : conns[c].to = n /\ ~conns[c].accepted
    /\ conns' = [c \in DOMAIN conns |->
                   IF conns[c].to = n THEN [conns[c] EXCEPT !.accepted = TRUE]
                                      ELSE conns[c]]
    /\ UNCHANGED <<dhExchange, mainVars, confirmed, listenerVars, listenAdverts,
                   next, lock>>

-----------------------------------------------------------------------------
Main(n) ==
    \/ StartHandshake(n) \/ LockListenAdverts(n)
    \/ \E works \in BOOLEAN : ProcessEntry(n, works) \/ Send(n, works)
    \/ FinishEntries(n) \/ ClearListenAdverts(n)
    \/ \E m \in Node : PassDevice(n, m) \/ Connect(n, m)
    \/ Recv(n) \/ RecvFails(n) \/ CloseSocket(n) \/ FinishHandshake(n)

Listener(n) ==
    \/ Accept(n) \/ AcceptFails(n)
    \/ ListenRecv(n) \/ ListenSend(n) \/ ListenFails(n)
    \/ Store(n) \/ WaitClose(n) \/ CloseClient(n)

Next ==
    \E n \in Node :
        \/ Main(n) \/ Listener(n)
        \/ ChangeEpoch(n)
        \/ \E m \in Node : DoneWithDevice(n, m)

Spec == Init /\ [][Next]_vars

(***************************************************************************)
(* Both threads run: every call they block in has a timeout, except the    *)
(* two that take the lock.  Those get it if it is free again and again:    *)
(* between two rounds the main thread sleeps for seconds without it, and   *)
(* the listener is without it from one connection to the next answer.      *)
(***************************************************************************)
Fairness ==
    \A n \in Node :
        /\ WF_vars(Main(n)) /\ WF_vars(Listener(n))
        /\ SF_vars(LockListenAdverts(n)) /\ SF_vars(Store(n))

FairSpec == Spec /\ Fairness

-----------------------------------------------------------------------------
(***************************************************************************)
(* The drain loop and clear() lose no entry and process none twice: an     *)
(* entry stored is processed once, or still lies ahead of the loop.        *)
(***************************************************************************)
EntriesAhead(n, c) ==
    {i \in next[n] .. Len(listenAdverts[n]) : listenAdverts[n][i].conn = c}

StoredIsProcessedOnce ==
    \A c \in DOMAIN conns :
        conns[c].processed + Cardinality(EntriesAhead(conns[c].to, c))
          = IF conns[c].stored THEN 1 ELSE 0

(***************************************************************************)
(* A secret the connecting side confirmed is one its peer can compute too: *)
(* the keys in it are those the two sent each other on that connection.    *)
(* (The note in handshake(): dhExchange_ cannot change under the connect.) *)
(***************************************************************************)
ConnectorUsesKeysSent ==
    \A c \in DOMAIN conns : conns[c].atConnector # NULL =>
        conns[c].atConnector = [connector |-> conns[c].request, listener |-> conns[c].reply]

(***************************************************************************)
(* Where both ends computed a secret, they computed the same one, unless   *)
(* the listening node has changed its epoch since it answered.             *)
(***************************************************************************)
SecretsAgreeWithinEpoch ==
    \A c \in DOMAIN conns :
        LET a == conns[c].atConnector
            b == conns[c].atListener
        IN  (a # NULL /\ b # NULL) => (a = b \/ b.listener > conns[c].reply)

(***************************************************************************)
(* EbNRadioBT4.cpp:680-682, in processActiveHandshake: dhExchange_ "can    *)
(* only be modified by changeEpoch, which cannot be called while we are    *)
(* handshaking".  So the secret of an incoming handshake is computed with  *)
(* the key that was sent to the peer.                                      *)
(***************************************************************************)
ListenerUsesKeySent ==
    \A c \in DOMAIN conns :
        conns[c].atListener # NULL => conns[c].atListener.listener = conns[c].reply

(***************************************************************************)
(* Neither thread waits for ever for the other: a round of handshakes ends *)
(* and so does the service of a client.                                    *)
(***************************************************************************)
RoundsEnd ==
    \A n \in Node : /\ (pc[n] = "lock") ~> (pc[n] = "idle")
                    /\ (lpc[n] = "store") ~> (lpc[n] = "accept")

(***************************************************************************)
(* When the connecting side has confirmed its peer, the peer processes the *)
(* handshake too, sooner or later, whatever becomes of the connection.     *)
(***************************************************************************)
ConfirmedIsProcessed ==
    \A c \in ConnID :
        (c \in DOMAIN conns /\ conns[c].atConnector # NULL)
          ~> (c \in DOMAIN conns /\ conns[c].processed = 1)
=============================================================================
