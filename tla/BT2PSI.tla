-------------------------------- MODULE BT2PSI --------------------------------
(***************************************************************************)
(* The handshakes of EbNRadioBT2PSI: two devices exchange public values    *)
(* and then find the link values they share by private set intersection,   *)
(* once in each direction, over one RFCOMM connection.                     *)
(*                                                                         *)
(* Each node runs two threads.  The main thread discovers, changes epochs  *)
(* and connects to the devices selected; the listener serves one client    *)
(* after the other.  Each thread walks through a fixed script of sends and *)
(* receives and gives up at the first that fails.  discDevices_ keeps the  *)
(* addresses a node was in contact with since it last discovered.          *)
(*                                                                         *)
(* An address is known by its owner and the owner's epoch.  A message is   *)
(* its size and its body; public values and PSI vectors are data.  A       *)
(* connection is a byte stream: recv may time out after a part of a        *)
(* message and still return true, and from then on anything may be read.   *)
(***************************************************************************)
EXTENDS Naturals, Sequences

CONSTANTS Node,
          NULL,            \* no address known, no connection
          Shifting,        \* bound: the nodes that change their epoch, once
          MaxDiscoveries,  \* bound: discoveries over the whole run
          MaxConnections   \* bound: connections over the whole run

ASSUME PSIAssumption ==
    /\ Shifting \subseteq Node
    /\ {MaxDiscoveries, MaxConnections} \subseteq Nat
    /\ NULL \notin Nat

Epoch   == {0, 1}
Address == [owner : Node, epoch : Epoch]
ConnID  == 1 .. MaxConnections
Message == {"public", "published", "request", "response"}

(***************************************************************************)
(* What the two ends do, in order.  The connector is the client of the     *)
(* intersection first (HC1, HC2) and the server second (HS1, HS2); the     *)
(* listener the other way round (LS1, LS2, LC1, LC2).                      *)
(***************************************************************************)
Send(m) == [op |-> "send", message |-> m]
Recv(m) == [op |-> "recv", message |-> m]

\* Bug: the server's part waits for the request before it publishes.
BugConnectorScript ==
    << Send("public"), Recv("public"),
       Recv("published"), Send("request"), Recv("response"),
       Recv("request"), Send("published"), Send("response") >>

ConnectorScript ==
    << Send("public"), Recv("public"),
       Recv("published"), Send("request"), Recv("response"),
       Send("published"), Recv("request"), Send("response") >>

\* Bug: the listener is the client first as well, but publishes at once.
BugListenerScript ==
    << Send("public"), Recv("public"),
       Send("published"), Recv("published"), Send("request"), Recv("response"),
       Recv("request"), Send("response") >>

ListenerScript ==
    << Send("public"), Recv("public"),
       Send("published"), Recv("request"), Send("response"),
       Recv("published"), Send("request"), Recv("response") >>

Side == {"connector", "listener"}
Script(side) == IF side = "connector" THEN ConnectorScript ELSE ListenerScript
Other(side) == CHOOSE s \in Side : s # side

\* The step whose success leaves a side with its intersection.
ResultStep(side) == CHOOSE i \in DOMAIN Script(side) : Script(side)[i] = Recv("response")

VARIABLES
    epoch,         \* the epoch of each node, and so its address
    discoveries,   \* how many there have been
    known,         \* the address under which a node discovered one it selected
    discDevices,   \* discDevices_
    confirmed,     \* the nodes whose device isConfirmed()
    pc,            \* where each main thread is
    toHandshake,   \* the nodes handshake() has not reached yet
    peer,          \* the one it is at
    socket,        \* the connection of the main thread
    lpc,           \* where each listener is
    client,        \* the connection it serves
    conns          \* all connections so far

mainVars == <<pc, toHandshake, peer, socket>>
listenerVars == <<lpc, client>>
nodeVars == <<epoch, discoveries, known, confirmed>>
vars == <<nodeVars, discDevices, mainVars, listenerVars, conns>>

(***************************************************************************)
(* Of a connection: where each side is in its script, what is on the way   *)
(* to it, and whether it is still open.  torn: some recv has returned a    *)
(* part of a message.  broken: some call failed, a ghost.                  *)
(***************************************************************************)
Connection ==
    [from : Node, to : Node, epoch : Epoch, accepted : BOOLEAN,
     at : [Side -> 1 .. 9], inbox : [Side -> Seq(Message)], open : [Side -> BOOLEAN],
     torn : BOOLEAN, broken : BOOLEAN]

NewConnection(n, m) ==
    [from |-> n, to |-> m, epoch |-> epoch[n], accepted |-> FALSE,
     at |-> [s \in Side |-> 1], inbox |-> [s \in Side |-> <<>>],
     open |-> [s \in Side |-> TRUE], torn |-> FALSE, broken |-> FALSE]

PSITypeOK ==
    /\ epoch \in [Node -> Epoch]
    /\ discoveries \in 0 .. MaxDiscoveries
    /\ known \in [Node -> [Node -> Epoch \cup {NULL}]]
    /\ discDevices \in [Node -> SUBSET Address]
    /\ confirmed \in [Node -> SUBSET Node]
    /\ pc \in [Node -> {"idle", "scan", "next", "connect", "session", "wait"}]
    /\ toHandshake \in [Node -> SUBSET Node]
    /\ peer \in [Node -> Node \cup {NULL}]
    /\ socket \in [Node -> ConnID \cup {NULL}]
    /\ lpc \in [Node -> {"accept", "insert", "session"}]
    /\ client \in [Node -> ConnID \cup {NULL}]
    /\ conns \in Seq(Connection) /\ Len(conns) <= MaxConnections

Init ==
    /\ epoch = [n \in Node |-> 0]
    /\ discoveries = 0
    /\ known = [n \in Node |-> [m \in Node |-> NULL]]
    /\ discDevices = [n \in Node |-> {}]
    /\ confirmed = [n \in Node |-> {}]
    /\ pc = [n \in Node |-> "idle"]
    /\ toHandshake = [n \in Node |-> {}]
    /\ peer = [n \in Node |-> NULL]
    /\ socket = [n \in Node |-> NULL]
    /\ lpc = [n \in Node |-> "accept"]
    /\ client = [n \in Node |-> NULL]
    /\ conns = <<>>

-----------------------------------------------------------------------------
(***************************************************************************)
(* One step of a script.                                                   *)
(***************************************************************************)
Now(c, side) == Script(side)[conns[c].at[side]]
IsOver(c, side) == conns[c].at[side] > Len(Script(side))

SendStep(c, side) ==
    /\ ~IsOver(c, side) /\ Now(c, side).op = "send"
    /\ conns' = [conns EXCEPT
                   ![c].at[side] = @ + 1,
                   ![c].inbox[Other(side)] =
                     IF conns[c].open[Other(side)] /\ ~conns[c].torn
                     THEN Append(@, Now(c, side).message) ELSE @]

RecvStep(c, side) ==
    /\ ~IsOver(c, side) /\ Now(c, side).op = "recv"
    /\ conns[c].inbox[side] # <<>>
    /\ conns' = [conns EXCEPT ![c].at[side] = @ + 1, ![c].inbox[side] = Tail(@)]

\* The time is up in the middle of a message, or the stream was torn before.
\* The rest of the script then works on garbage, and is one step.
RecvPart(c, side) ==
    /\ ~IsOver(c, side) /\ Now(c, side).op = "recv"
    /\ conns[c].inbox[side] # <<>> \/ conns[c].torn
    /\ conns' = [conns EXCEPT ![c].at[side] = Len(Script(side)) + 1,
                              ![c].inbox = [s \in Side |-> <<>>],
                              ![c].torn = TRUE, ![c].broken = TRUE]

Close(c, side) ==
    [conns[c] EXCEPT !.open[side] = FALSE, !.inbox[side] = <<>>]

SessionStep(c, side) == SendStep(c, side) \/ RecvStep(c, side)

-----------------------------------------------------------------------------
(***************************************************************************)
(* The main thread: changeEpoch, doneWithDevice, discover and handshake.   *)
(***************************************************************************)
ChangeEpoch(n) ==
    /\ pc[n] = "idle"
    /\ n \in Shifting /\ epoch[n] = 0
    /\ epoch' = [epoch EXCEPT ![n] = 1]
    /\ UNCHANGED <<discoveries, known, confirmed, discDevices, mainVars, listenerVars, conns>>

DoneWithDevice(n, m) ==
    /\ pc[n] = "idle"
    /\ m \in confirmed[n]
    /\ confirmed' = [confirmed EXCEPT ![n] = @ \ {m}]
    /\ UNCHANGED <<epoch, discoveries, known, discDevices, mainVars, listenerVars, conns>>

StartDiscover(n) ==
    /\ pc[n] = "idle"
    /\ discoveries < MaxDiscoveries
    /\ discoveries' = discoveries + 1
    /\ discDevices' = [discDevices EXCEPT ![n] = {}]
    /\ pc' = [pc EXCEPT ![n] = "scan"]
    /\ UNCHANGED <<epoch, known, confirmed, toHandshake, peer, socket, listenerVars, conns>>

\* Bug: devices that were not heard, and have no address, are selected too.
BugFinishDiscover(n) ==
    /\ pc[n] = "scan"
    /\ \E heard \in SUBSET (Node \ {n}) :
         known' = [known EXCEPT
                     ![n] = [m \in Node |-> IF m \in heard THEN epoch[m] ELSE NULL]]
    /\ toHandshake' = [toHandshake EXCEPT ![n] = Node \ {n}]
    /\ pc' = [pc EXCEPT ![n] = "next"]
    /\ UNCHANGED <<epoch, discoveries, confirmed, discDevices, peer, socket, listenerVars, conns>>

\* The devices heard get their current address, and the policy selects some.
FinishDiscover(n) ==
    /\ pc[n] = "scan"
    /\ \E selected \in SUBSET (Node \ {n}) :
         /\ known' = [known EXCEPT
                        ![n] = [m \in Node |-> IF m \in selected THEN epoch[m] ELSE NULL]]
         /\ toHandshake' = [toHandshake EXCEPT ![n] = selected]
    /\ pc' = [pc EXCEPT ![n] = "next"]
    /\ UNCHANGED <<epoch, discoveries, confirmed, discDevices, peer, socket, listenerVars, conns>>

AddressKnown(n, m) == [owner |-> m, epoch |-> known[n][m]]

PassConfirmed(n, m) ==
    /\ pc[n] = "next"
    /\ m \in toHandshake[n] \cap confirmed[n]
    /\ toHandshake' = [toHandshake EXCEPT ![n] = @ \ {m}]
    /\ UNCHANGED <<nodeVars, discDevices, pc, peer, socket, listenerVars, conns>>

\* The insertion into discDevices_ finds the address there: the loop is left.
LeaveLoop(n, m) ==
    /\ pc[n] = "next"
    /\ m \in toHandshake[n] \ confirmed[n]
    /\ AddressKnown(n, m) \in discDevices[n]
    /\ toHandshake' = [toHandshake EXCEPT ![n] = {}]
    /\ UNCHANGED <<nodeVars, discDevices, pc, peer, socket, listenerVars, conns>>

SelectNext(n, m) ==
    /\ pc[n] = "next"
    /\ m \in toHandshake[n] \ confirmed[n]
    /\ AddressKnown(n, m) \notin discDevices[n]
    /\ discDevices' = [discDevices EXCEPT ![n] = @ \cup {AddressKnown(n, m)}]
    /\ toHandshake' = [toHandshake EXCEPT ![n] = @ \ {m}]
    /\ peer' = [peer EXCEPT ![n] = m]
    /\ pc' = [pc EXCEPT ![n] = "connect"]
    /\ UNCHANGED <<nodeVars, socket, listenerVars, conns>>

\* connectBT2 finds the peer under the address known.
Connect(n) ==
    /\ pc[n] = "connect"
    /\ known[n][peer[n]] = epoch[peer[n]]
    /\ Len(conns) < MaxConnections
    /\ conns' = Append(conns, NewConnection(n, peer[n]))
    /\ socket' = [socket EXCEPT ![n] = Len(conns) + 1]
    /\ pc' = [pc EXCEPT ![n] = "session"]
    /\ UNCHANGED <<nodeVars, discDevices, toHandshake, peer, listenerVars>>

ConnectFails(n) ==
    /\ pc[n] = "connect"
    /\ peer' = [peer EXCEPT ![n] = NULL]
    /\ pc' = [pc EXCEPT ![n] = "next"]
    /\ UNCHANGED <<nodeVars, discDevices, toHandshake, socket, listenerVars, conns>>

(***************************************************************************)
(* The public value confirms the device if it is a point of the curve: as  *)
(* sent it is, but the peer's changeEpoch may have been writing it while   *)
(* its listener sent it, without a lock.                                   *)
(***************************************************************************)
MayConfirm(n) ==
    LET c == socket[n]
    IN  IF Now(c, "connector") = Recv("public")
        THEN \/ confirmed' = [confirmed EXCEPT ![n] = @ \cup {peer[n]}]
             \/ /\ conns'[c].torn \/ epoch[peer[n]] # known[n][peer[n]]
                /\ UNCHANGED confirmed
        ELSE UNCHANGED confirmed

MainStep(n) ==
    /\ pc[n] = "session"
    /\ SessionStep(socket[n], "connector")
    /\ MayConfirm(n)
    /\ UNCHANGED <<epoch, discoveries, known, discDevices, mainVars, listenerVars>>

MainRecvPart(n) ==
    /\ pc[n] = "session"
    /\ RecvPart(socket[n], "connector")
    /\ MayConfirm(n)
    /\ UNCHANGED <<epoch, discoveries, known, discDevices, mainVars, listenerVars>>

\* A send or recv fails: the rest of the script is skipped.
MainFails(n) ==
    /\ pc[n] = "session"
    /\ ~IsOver(socket[n], "connector")
    /\ conns' = [conns EXCEPT ![socket[n]].broken = TRUE]
    /\ pc' = [pc EXCEPT ![n] = "wait"]
    /\ UNCHANGED <<nodeVars, discDevices, toHandshake, peer, socket, listenerVars>>

\* waitClose returns, at the latest after its timeout.
CloseSocket(n) ==
    /\ pc[n] = "wait" \/ (pc[n] = "session" /\ IsOver(socket[n], "connector"))
    /\ conns' = [conns EXCEPT ![socket[n]] = Close(socket[n], "connector")]
    /\ peer' = [peer EXCEPT ![n] = NULL]
    /\ socket' = [socket EXCEPT ![n] = NULL]
    /\ pc' = [pc EXCEPT ![n] = "next"]
    /\ UNCHANGED <<nodeVars, discDevices, toHandshake, listenerVars>>

FinishHandshake(n) ==
    /\ pc[n] = "next"
    /\ toHandshake[n] = {}
    /\ pc' = [pc EXCEPT ![n] = "idle"]
    /\ known' = [known EXCEPT ![n] = [m \in Node |-> NULL]]
    /\ UNCHANGED <<epoch, discoveries, confirmed, discDevices, toHandshake, peer, socket,
                   listenerVars, conns>>

-----------------------------------------------------------------------------
(***************************************************************************)
(* listen()                                                                *)
(***************************************************************************)
Accept(n) ==
    /\ lpc[n] = "accept"
    /\ \E c \in DOMAIN conns :
         /\ conns[c].to = n /\ ~conns[c].accepted
         /\ conns' = [conns EXCEPT ![c].accepted = TRUE]
         /\ client' = [client EXCEPT ![n] = c]
    /\ lpc' = [lpc EXCEPT ![n] = "insert"]
    /\ UNCHANGED <<nodeVars, discDevices, mainVars>>

\* accept fails: the listening socket is closed, with the connections that
\* wait in it, and opened again after five seconds.
AcceptFails(n) ==
    /\ lpc[n] = "accept"
    /\ \E c \in DOMAIN conns : conns[c].to = n /\ ~conns[c].accepted
    /\ conns' = [c \in DOMAIN conns |->
                   IF conns[c].to = n /\ ~conns[c].accepted
                   THEN [Close(c, "listener") EXCEPT !.accepted = TRUE, !.broken = TRUE]
                   ELSE conns[c]]
    /\ UNCHANGED <<nodeVars, discDevices, mainVars, listenerVars>>

InsertClient(n) ==
    /\ lpc[n] = "insert"
    /\ discDevices' = [discDevices EXCEPT
                         ![n] = @ \cup {[owner |-> conns[client[n]].from,
                                         epoch |-> conns[client[n]].epoch]}]
    /\ lpc' = [lpc EXCEPT ![n] = "session"]
    /\ UNCHANGED <<nodeVars, mainVars, client, conns>>

ListenStep(n) ==
    /\ lpc[n] = "session"
    /\ SessionStep(client[n], "listener")
    /\ UNCHANGED <<nodeVars, discDevices, mainVars, listenerVars>>

ListenRecvPart(n) ==
    /\ lpc[n] = "session"
    /\ RecvPart(client[n], "listener")
    /\ UNCHANGED <<nodeVars, discDevices, mainVars, listenerVars>>

CloseClient(n) ==
    /\ lpc[n] = "session"
    /\ IsOver(client[n], "listener")
    /\ conns' = [conns EXCEPT ![client[n]] = Close(client[n], "listener")]
    /\ client' = [client EXCEPT ![n] = NULL]
    /\ lpc' = [lpc EXCEPT ![n] = "accept"]
    /\ UNCHANGED <<nodeVars, discDevices, mainVars>>

\* Bug: the result of a recv replaces the failure of an earlier one.
BugListenFails(n) ==
    /\ lpc[n] = "session"
    /\ ~IsOver(client[n], "listener")
    /\ conns' = [conns EXCEPT ![client[n]].at["listener"] = @ + 1, ![client[n]].broken = TRUE]
    /\ UNCHANGED <<nodeVars, discDevices, mainVars, listenerVars>>

ListenFails(n) ==
    /\ lpc[n] = "session"
    /\ ~IsOver(client[n], "listener")
    /\ conns' = [conns EXCEPT ![client[n]] = [Close(client[n], "listener") EXCEPT
                                               !.broken = TRUE]]
    /\ client' = [client EXCEPT ![n] = NULL]
    /\ lpc' = [lpc EXCEPT ![n] = "accept"]
    /\ UNCHANGED <<nodeVars, discDevices, mainVars>>

-----------------------------------------------------------------------------
Next ==
    \E n \in Node :
        \/ ChangeEpoch(n) \/ StartDiscover(n) \/ FinishDiscover(n)
        \/ \E m \in Node : \/ DoneWithDevice(n, m) \/ PassConfirmed(n, m)
                           \/ LeaveLoop(n, m) \/ SelectNext(n, m)
        \/ Connect(n) \/ ConnectFails(n) \/ FinishHandshake(n)
        \/ MainStep(n) \/ MainRecvPart(n) \/ MainFails(n) \/ CloseSocket(n)
        \/ Accept(n) \/ AcceptFails(n) \/ InsertClient(n)
        \/ ListenStep(n) \/ ListenRecvPart(n) \/ ListenFails(n) \/ CloseClient(n)

Spec == Init /\ [][Next]_vars

(***************************************************************************)
(* How the threads go on with a session by themselves: a call fails, or    *)
(* times out, only where its session is broken already.  Nothing else is   *)
(* taken to end a wait, except waitClose, whose peer may be slow to close. *)
(***************************************************************************)
Proceed(n) ==
    \/ MainStep(n) \/ CloseSocket(n)
    \/ pc[n] = "session" /\ conns[socket[n]].broken /\ MainFails(n)

Serve(n) ==
    \/ Accept(n) \/ InsertClient(n) \/ ListenStep(n) \/ CloseClient(n)
    \/ lpc[n] = "session" /\ conns[client[n]].broken /\ ListenFails(n)

-----------------------------------------------------------------------------
(***************************************************************************)
(* The two scripts fit: what lies first in a side's inbox is what it       *)
(* receives next, and nothing is left over when it is through.             *)
(***************************************************************************)
ToReceive(c, side) ==
    {i \in conns[c].at[side] .. Len(Script(side)) : Script(side)[i].op = "recv"}

ScriptsFit ==
    \A c \in DOMAIN conns, side \in Side :
        (~conns[c].torn /\ conns[c].inbox[side] # <<>>) =>
            \E i \in ToReceive(c, side) :
                /\ \A j \in ToReceive(c, side) : i <= j
                /\ Head(conns[c].inbox[side]) = Script(side)[i].message

(***************************************************************************)
(* The side served second never has its intersection alone: a listener     *)
(* that got its result serves a connector that got its own.                *)
(***************************************************************************)
HasResult(c, side) == conns[c].at[side] > ResultStep(side)

ListenerResultIsLast ==
    \A c \in DOMAIN conns :
        ~conns[c].torn /\ HasResult(c, "listener") => HasResult(c, "connector")

(***************************************************************************)
(* No session needs a time-out to end.  However two nodes connect to each  *)
(* other, each session gives both sides their result unless a call fails:  *)
(* the two never wait for each other, nor do the threads of crossed        *)
(* connections.  So where no thread can go on, every session is complete.  *)
(* (A connection has finitely many steps.)                                 *)
(***************************************************************************)
IsComplete(c) == conns[c].broken \/ \A side \in Side : HasResult(c, side)

NobodyWaitsForEver ==
    (\A n \in Node : ~ENABLED Proceed(n) /\ ~ENABLED Serve(n))
        => \A c \in DOMAIN conns : IsComplete(c)
=============================================================================
