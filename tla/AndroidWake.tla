----------------------------- MODULE AndroidWake -----------------------------
(***************************************************************************)
(* How a benchmarking daemon sleeps: AndroidWake asks AWakeService over a  *)
(* local socket to be woken, and the service sets an alarm.                *)
(*                                                                         *)
(* The daemon may be killed and started again, and the service be stopped. *)
(* The service runs in two threads: run() serves one connection after the  *)
(* other, and alarms and onDestroy come on the thread of the application.  *)
(* An alarm goes through a broadcast, which may be late.  Nobody sets the  *)
(* wall clock, by which both sides measure.                                *)
(***************************************************************************)
EXTENDS Naturals

CONSTANTS None,
          Durations,   \* what the controller may want to sleep
          MaxRestarts  \* bound: how often the daemon is killed, the service stopped

\* What the constants have to be.
ASSUME AndroidWakeAssumption ==
    /\ Durations \subseteq Nat \ {0}
    /\ MaxRestarts \in Nat
    /\ None \notin Nat

VARIABLES
    \* the daemon
    dpc,           \* "connect", "awake", "sleep", "read", "act" or "ended"
    msToSleep,     \* what it was asked to sleep
    slept,         \* for how long it has; it counts up to msToSleep
    conn,          \* its connection: "none", "waiting", "accepted", "served" or "closed"
    request,       \* what it asked for, not yet read
    woken,         \* bytes it has not read
    early,         \* ghost: the actions it took before they were due
    kills,
    \* the service
    spc,           \* run(): "down", "accept", "accepted" or "serve"
    clientSock,    \* "null", "open", or "old", of a connection that ended
    stopped,       \* whether the server socket is closed, while run() goes on
    receiver,      \* whether brecv is registered
    alarm,         \* in how long it is due, or None
    broadcasts,    \* alarms on their way to brecv
    stops

daemonVars == <<dpc, msToSleep, slept, conn, request, woken, early, kills>>
serviceVars == <<spc, clientSock, stopped, receiver, alarm, broadcasts, stops>>
wakeVars == <<daemonVars, serviceVars>>

WakeInit ==
    /\ dpc = "connect" /\ msToSleep = 0 /\ slept = 0 /\ conn = "none" /\ request = None
    /\ woken = 0 /\ early = 0 /\ kills = 0
    /\ spc = "down" /\ clientSock = "null" /\ stopped = FALSE /\ receiver = FALSE
    /\ alarm = None /\ broadcasts = 0 /\ stops = 0

-----------------------------------------------------------------------------
(***************************************************************************)
(* The daemon.                                                             *)
(***************************************************************************)
\* The constructor, which tries every ten seconds.
Connect ==
    /\ dpc = "connect" /\ spc # "down" /\ ~stopped
    /\ dpc' = "awake" /\ conn' = "waiting"
    /\ UNCHANGED <<msToSleep, slept, request, woken, early, kills, serviceVars>>

\* The sleep callback of the controller.
RequestAWakeSleep ==
    /\ dpc = "awake"
    /\ msToSleep' \in Durations /\ slept' = 0
    /\ dpc' = "sleep"
    /\ UNCHANGED <<conn, request, woken, early, kills, serviceVars>>

\* The loop of sleep(); a write after the other end is closed is a SIGPIPE.
Sleep ==
    /\ dpc = "sleep"
    /\ \/ slept >= msToSleep /\ dpc' = "act" /\ UNCHANGED request
       \/ slept < msToSleep /\ conn # "closed" /\ dpc' = "read" /\ request' = msToSleep - slept
       \/ slept < msToSleep /\ conn = "closed" /\ dpc' = "ended" /\ UNCHANGED request
    /\ UNCHANGED <<msToSleep, slept, conn, woken, early, kills, serviceVars>>

\* Bug: the byte is the end of the sleep.
BugRead ==
    /\ dpc = "read" /\ (woken > 0 \/ conn = "closed")
    /\ dpc' = "act"
    /\ IF woken > 0 THEN woken' = woken - 1 ELSE UNCHANGED woken
    /\ UNCHANGED <<msToSleep, slept, conn, request, early, kills, serviceVars>>

\* After a byte the loop goes on.  The end of the connection ends the sleep,
\* and nobody looks at what sleep() returns.
Read ==
    /\ dpc = "read"
    /\ \/ woken > 0 /\ woken' = woken - 1 /\ dpc' = "sleep"
       \/ woken = 0 /\ conn = "closed" /\ dpc' = "act" /\ UNCHANGED woken
    /\ UNCHANGED <<msToSleep, slept, conn, request, early, kills, serviceVars>>

\* The action of the controller the sleep was for.
Act ==
    /\ dpc = "act"
    /\ early' = IF slept < msToSleep THEN early + 1 ELSE early
    /\ dpc' = "awake"
    /\ UNCHANGED <<msToSleep, slept, conn, request, woken, kills, serviceVars>>

\* The daemon is killed and started again; a connection the service has
\* not taken yet goes with it.
Kill ==
    /\ dpc # "connect" /\ kills < MaxRestarts
    /\ kills' = kills + 1
    /\ dpc' = "connect" /\ conn' = "none" /\ request' = None /\ woken' = 0
    /\ msToSleep' = 0 /\ slept' = 0 /\ early' = 0
    /\ clientSock' = IF conn = "served" THEN "old" ELSE clientSock
    /\ UNCHANGED <<spc, stopped, receiver, alarm, broadcasts, stops>>

-----------------------------------------------------------------------------
(***************************************************************************)
(* The service.                                                            *)
(***************************************************************************)
\* onStartCommand makes a Server, which registers brecv.
Start ==
    /\ spc = "down"
    /\ spc' = "accept" /\ clientSock' = "null" /\ stopped' = FALSE /\ receiver' = TRUE
    /\ UNCHANGED <<alarm, broadcasts, stops, daemonVars>>

\* accept() has returned, but clientSock is still the one before.
Accept ==
    /\ spc = "accept" /\ conn = "waiting"
    /\ spc' = "accepted" /\ conn' = "accepted"
    /\ UNCHANGED <<dpc, msToSleep, slept, request, woken, early, kills,
                   clientSock, stopped, receiver, alarm, broadcasts, stops>>

Serve ==
    /\ spc = "accepted"
    /\ spc' = "serve"
    /\ IF conn = "accepted" THEN clientSock' = "open" /\ conn' = "served"
       ELSE clientSock' = "old" /\ UNCHANGED conn
    /\ UNCHANGED <<dpc, msToSleep, slept, request, woken, early, kills,
                   stopped, receiver, alarm, broadcasts, stops>>

\* The alarm of a request replaces the one before.
ReadRequest ==
    /\ spc = "serve" /\ conn = "served" /\ request # None
    /\ alarm' = request
    /\ request' = None
    /\ UNCHANGED <<dpc, msToSleep, slept, conn, woken, early, kills,
                   spc, clientSock, stopped, receiver, broadcasts, stops>>

\* The client has gone: the alarm is cancelled and the next one accepted,
\* or, when the server socket is closed, everything is.
EndConnection ==
    /\ spc = "serve" /\ clientSock = "old"
    /\ alarm' = None
    /\ IF stopped THEN spc' = "down" /\ receiver' = FALSE
       ELSE spc' = "accept" /\ UNCHANGED receiver
    /\ UNCHANGED <<clientSock, stopped, broadcasts, stops, daemonVars>>

\* The alarm manager sends the broadcast.
AlarmFires ==
    /\ alarm = 0
    /\ alarm' = None /\ broadcasts' = broadcasts + 1
    /\ UNCHANGED <<spc, clientSock, stopped, receiver, stops, daemonVars>>

\* Bug: the byte stays in the buffer, which is never flushed.
BugAlert == UNCHANGED woken

\* alert(): a byte for whom clientSock is; an error is ignored.
Alert == IF clientSock = "open" THEN woken' = woken + 1 ELSE UNCHANGED woken

OnReceive ==
    /\ broadcasts > 0
    /\ broadcasts' = broadcasts - 1
    /\ IF receiver THEN Alert ELSE UNCHANGED woken
    /\ UNCHANGED <<dpc, msToSleep, slept, conn, request, early, kills,
                   spc, clientSock, stopped, receiver, alarm, stops>>

(***************************************************************************)
(* onDestroy closes the server socket and clientSock and unregisters       *)
(* brecv; where clientSock is null yet, the exception leaves brecv as it   *)
(* is.  run() then ends and cancels the alarm, unless it has just accepted *)
(* somebody else than clientSock: it serves that one until it goes.  Bound:  *)
(* the service is not started again before that.                           *)
(***************************************************************************)
OnDestroy ==
    /\ spc # "down" /\ ~stopped /\ stops < MaxRestarts
    /\ stops' = stops + 1
    /\ receiver' = (receiver /\ clientSock = "null")
    /\ IF spc = "accepted" THEN stopped' = TRUE /\ UNCHANGED <<spc, clientSock, alarm, conn>>
       ELSE /\ spc' = "down" /\ UNCHANGED stopped
            /\ clientSock' = IF clientSock = "open" THEN "old" ELSE clientSock
            /\ alarm' = IF spc = "serve" THEN None ELSE alarm
            /\ conn' = IF conn \in {"served", "waiting"} THEN "closed" ELSE conn
    /\ UNCHANGED <<dpc, msToSleep, slept, request, woken, early, kills, broadcasts>>

Tick ==
    /\ slept < msToSleep \/ alarm \notin {0, None}
    /\ slept' = IF slept < msToSleep THEN slept + 1 ELSE slept
    /\ alarm' = IF alarm \in {0, None} THEN alarm ELSE alarm - 1
    /\ UNCHANGED <<dpc, msToSleep, conn, request, woken, early, kills,
                   spc, clientSock, stopped, receiver, broadcasts, stops>>

Service == Accept \/ Serve \/ ReadRequest \/ EndConnection

WakeNext ==
    \/ Connect \/ RequestAWakeSleep \/ Sleep \/ Read \/ Act \/ Kill
    \/ Start \/ Service
    \/ AlarmFires \/ OnReceive \/ OnDestroy \/ Tick

WakeSpec == WakeInit /\ [][WakeNext]_wakeVars

(***************************************************************************)
(* Time goes on, the threads of the service run and broadcasts arrive.     *)
(* Nobody has to start the service, kill the daemon or stop anything.      *)
(***************************************************************************)
WakeFairness ==
    /\ WF_wakeVars(Sleep) /\ WF_wakeVars(Read) /\ WF_wakeVars(Tick)
    /\ WF_wakeVars(Service)
    /\ WF_wakeVars(AlarmFires) /\ WF_wakeVars(OnReceive)

FairWakeSpec == WakeSpec /\ WakeFairness

-----------------------------------------------------------------------------
(***************************************************************************)
(* Although nobody looks at the result of sleep(), and a late broadcast of *)
(* an earlier daemon may wake this one, the controller acts early only     *)
(* when its connection is lost, and then once.                             *)
(***************************************************************************)
EarlyOnceWhenLost == early # 0 => early = 1 /\ conn = "closed"

(***************************************************************************)
(* Whoever sleeps wakes up, also behind a connection that is only just     *)
(* ending, unless the service was stopped between accept() and its         *)
(* taking note of whom it had accepted.                                    *)
(***************************************************************************)
SleepersWake ==
    (dpc \in {"sleep", "read"}) ~>
        (dpc \notin {"sleep", "read"} \/ (stopped /\ ~receiver))
=============================================================================
