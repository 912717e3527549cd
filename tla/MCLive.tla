------------------------------- MODULE MCLive -------------------------------
(***************************************************************************)
(* What must happen eventually, for TLC.  In a behaviour one part of the   *)
(* system takes its steps, under its own fairness, and the others stand    *)
(* still: the handshakes of BT4Handshake, Server or AndroidWake.           *)
(***************************************************************************)
EXTENDS Server, AndroidWake

CONSTANTS n1, n2

TwoNodes == {n1, n2}

VARIABLES
    part,
    dhExchange, hsPc, hsToHandshake, hsConfirmed, connectable, hsSocket, hsLpc, hsClient,
    dhExchangeCopy, remoteMessage, listenAdverts, next, lock, hsConns

hsVars == <<dhExchange, hsPc, hsToHandshake, hsConfirmed, connectable, hsSocket, hsLpc,
            hsClient, dhExchangeCopy, remoteMessage, listenAdverts, next, lock, hsConns>>
all == <<part, vars, hsVars, wakeVars>>

BT4 == INSTANCE BT4Handshake
         WITH Node <- TwoNodes, MaxEpochs <- 0, MaxConnections <- 1,
              pc <- hsPc, toHandshake <- hsToHandshake, confirmed <- hsConfirmed,
              socket <- hsSocket, lpc <- hsLpc, client <- hsClient, conns <- hsConns

MCInit ==
    /\ part \in {"BT4Handshake", "Server", "AndroidWake"}
    /\ Init /\ BT4!Init /\ WakeInit

OnlyHandshake == part = "BT4Handshake" /\ UNCHANGED <<part, vars, wakeVars>>
OnlyServer    == part = "Server" /\ UNCHANGED <<part, hsVars, wakeVars>>
OnlyWake      == part = "AndroidWake" /\ UNCHANGED <<part, vars, hsVars>>

HandshakeStep == OnlyHandshake /\ BT4!Next
ServerStep    == OnlyServer /\ Next
WakeStep      == OnlyWake /\ WakeNext

MCNext == HandshakeStep \/ ServerStep \/ WakeStep

MCSpec ==
    /\ MCInit /\ [][MCNext]_all
    /\ \/ part = "BT4Handshake" /\ BT4!Fairness
       \/ part = "Server" /\ Fairness
       \/ part = "AndroidWake" /\ WakeFairness

-----------------------------------------------------------------------------
(* The promises of the modules, where they are explained, of the part      *)
(* that takes the steps.  (Those of Server and AndroidWake are as they     *)
(* stand there: where another part takes the steps no message is sent and  *)
(* nobody sleeps.)                                                         *)

\* Every round of handshake(), and every service of listen(), ends.
RoundsEnd == part = "BT4Handshake" => BT4!RoundsEnd

\* What handshake() confirmed at one node the other one processes.
ConfirmedIsProcessed == part = "BT4Handshake" => BT4!ConfirmedIsProcessed
=============================================================================
