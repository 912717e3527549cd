------------------------------- MODULE Server -------------------------------
(***************************************************************************)
(* The server of Main.cpp with the client it serves: the application sends *)
(* linkability messages over a local stream socket, the main thread puts   *)
(* them together and installs their sets, and the controller thread tells  *)
(* the application when it sleeps and whom it met.  The two threads share  *)
(* the socket and, behind setMutex_, the sets.                             *)
(*                                                                         *)
(* A stream is cut anywhere: it is a sequence of units, of which a message *)
(* is HeaderSize for its length and BodySize for the rest.  A set is known *)
(* by the number of the message it came with.                              *)
(***************************************************************************)
EXTENDS Naturals, Sequences

CONSTANTS HeaderSize, BodySize,
          NULL,         \* what a frame that is no message is read as
          MaxEvents,    \* how many events fit into the socket of the client
          MaxMessages,  \* bound: messages of the application
          MaxEncounters \* bound: encounter events of a round

ASSUME ServerAssumption ==
    /\ {HeaderSize, BodySize, MaxEvents} \subseteq Nat \ {0}
    /\ {MaxMessages, MaxEncounters} \subseteq Nat
    /\ NULL \notin Nat

Size == HeaderSize + BodySize
Unit == [message : 1 .. MaxMessages, at : 1 .. Size]

VARIABLES
    client,        \* "absent", "connected" or "gone"
    sent,          \* the units it has written so far
    toServer,      \* those not read yet
    toClient,      \* events it has not read yet
    reset,         \* whether it went with events unread: the next read tells
    mainPc,        \* where the main thread is
    received,      \* what recvAll has so far
    event,         \* the message parsed
    advertisedSet, listenSet,
    cpc,           \* where the controller thread is
    encounters     \* the events it still has to deliver

clientVars == <<client, sent, toServer, toClient, reset>>
mainVars == <<mainPc, received, event, advertisedSet, listenSet>>
vars == <<clientVars, mainVars, cpc, encounters>>

Init ==
    /\ client = "absent" /\ sent = 0 /\ toServer = <<>> /\ toClient = 0 /\ reset = FALSE
    /\ mainPc = "accept" /\ received = <<>> /\ event = 0
    /\ advertisedSet = 0 /\ listenSet = 0
    /\ cpc = "off" /\ encounters = 0

Runs == mainPc # "ended"
End == mainPc' = "ended" /\ cpc' = "off"

-----------------------------------------------------------------------------
(***************************************************************************)
(* The application.  It writes in pieces, reads when it likes, and may go  *)
(* between any two of them.                                                *)
(***************************************************************************)
Write ==
    /\ client = "connected" /\ Runs
    /\ sent < MaxMessages * Size
    /\ sent' = sent + 1
    /\ toServer' = Append(toServer, [message |-> (sent \div Size) + 1, at |-> (sent % Size) + 1])
    /\ UNCHANGED <<client, toClient, reset, mainVars, cpc, encounters>>

ReadEvent ==
    /\ client = "connected" /\ toClient > 0
    /\ toClient' = toClient - 1
    /\ UNCHANGED <<client, sent, toServer, reset, mainVars, cpc, encounters>>

Leave ==
    /\ client = "connected"
    /\ client' = "gone"
    /\ reset' = (toClient > 0)
    /\ UNCHANGED <<sent, toServer, toClient, mainVars, cpc, encounters>>

-----------------------------------------------------------------------------
(***************************************************************************)
(* The main thread.                                                        *)
(***************************************************************************)
\* main: the controller, whose sets are empty, starts with the client.
AcceptClient ==
    /\ mainPc = "accept"
    /\ client' = "connected" /\ mainPc' = "size" /\ cpc' = "initialize"
    /\ UNCHANGED <<sent, toServer, toClient, reset, received, event, advertisedSet, listenSet,
                   encounters>>

Wanted == IF mainPc = "size" THEN HeaderSize ELSE BodySize

\* Bug: one read is taken to bring the whole.
BugIsReceived(units) == units # <<>>

IsReceived(units) == Len(units) = Wanted

\* ParseFromCodedStream, of what should be the body of one message.
Parse(units) ==
    IF \E m \in 1 .. MaxMessages :
          units = [i \in 1 .. BodySize |-> [message |-> m, at |-> HeaderSize + i]]
    THEN units[1].message ELSE NULL

(***************************************************************************)
(* recvAll: a read brings as much as there is, and recvAll goes on until   *)
(* it has all.                                                             *)
(***************************************************************************)
RecvAll ==
    /\ mainPc \in {"size", "body"}
    /\ \E n \in 1 .. (Wanted - Len(received)) :
         /\ n <= Len(toServer)
         /\ toServer' = SubSeq(toServer, n + 1, Len(toServer))
         /\ LET units == received \o SubSeq(toServer, 1, n)
            IN  IF ~IsReceived(units)
                THEN received' = units /\ UNCHANGED <<mainPc, event>>
                ELSE /\ received' = <<>>
                     /\ mainPc' = IF mainPc = "size" THEN "body" ELSE "advertised"
                     /\ event' = IF mainPc = "size" THEN event ELSE Parse(units)
    /\ UNCHANGED <<client, sent, toClient, reset, advertisedSet, listenSet, cpc, encounters>>

(***************************************************************************)
(* The size of the two integers makes a failed read look like one of -1    *)
(* units: at the start recvAll then returns true with nothing received, so *)
(* that a length is the one of the message before, or none that was ever   *)
(* set, and a body, of zeros, is an event without sets.  Later the last    *)
(* unit is wanted again.  The end of a connection reads as 0 units, and    *)
(* recvAll tries again, for ever: it is no step.                           *)
(***************************************************************************)
RecvFails ==
    /\ mainPc \in {"size", "body"} /\ client = "gone" /\ reset /\ toServer = <<>>
    /\ reset' = FALSE
    /\ \/ /\ received # <<>>
          /\ received' = SubSeq(received, 1, Len(received) - 1)
          /\ UNCHANGED <<mainPc, cpc>>
       \/ /\ received = <<>> /\ UNCHANGED received
          /\ \/ mainPc' = (IF mainPc = "size" THEN "body" ELSE "size") /\ UNCHANGED cpc
             \/ mainPc = "size" /\ event = 0 /\ End
    /\ UNCHANGED <<client, sent, toServer, toClient, event, advertisedSet, listenSet, encounters>>

\* Bug: the radio keeps setMutex_ until the events of the round are out.
BugSetsHeld == cpc \in {"fill", "deliver"}

\* Who fills a filter, or makes a device, holds setMutex_.
SetsHeld == cpc = "fill"

SetAdvertisedSet ==
    /\ mainPc = "advertised" /\ ~SetsHeld
    /\ advertisedSet' = event
    /\ mainPc' = "listen"
    /\ UNCHANGED <<clientVars, received, event, listenSet, cpc, encounters>>

SetListenSet ==
    /\ mainPc = "listen" /\ ~SetsHeld
    /\ listenSet' = event
    /\ mainPc' = "size"
    /\ UNCHANGED <<clientVars, received, event, advertisedSet, cpc, encounters>>

-----------------------------------------------------------------------------
(***************************************************************************)
(* The controller thread, EbNController::run.                              *)
(***************************************************************************)
\* initialize, and the actions that end in a new advertisement.
Fill ==
    /\ cpc \in {"initialize", "due"}
    /\ cpc' = "fill"
    /\ UNCHANGED <<clientVars, mainVars, encounters>>

Filled ==
    /\ cpc = "fill"
    /\ cpc' = "deliver"
    /\ encounters' \in 0 .. MaxEncounters
    /\ UNCHANGED <<clientVars, mainVars>>

\* An error of the adapter is an exception that nobody catches.
RadioFails ==
    /\ cpc \in {"initialize", "due"}
    /\ End
    /\ UNCHANGED <<clientVars, received, event, advertisedSet, listenSet, encounters>>

\* sendAll: without room it waits; a client that has gone is a SIGPIPE.
SendAll(next) ==
    \/ /\ client = "connected" /\ toClient < MaxEvents
       /\ toClient' = toClient + 1
       /\ cpc' = next
       /\ UNCHANGED <<client, sent, toServer, reset, mainVars>>
    \/ /\ client = "gone"
       /\ End
       /\ UNCHANGED <<clientVars, received, event, advertisedSet, listenSet>>

NotifyEncounter ==
    /\ cpc = "deliver" /\ encounters > 0
    /\ SendAll("deliver")
    /\ encounters' = encounters - 1

\* requestSleep, unless the next action is due at once.
RequestSleep ==
    /\ cpc = "deliver" /\ encounters = 0
    /\ \/ SendAll("asleep")
       \/ cpc' = "due" /\ UNCHANGED <<clientVars, mainVars>>
    /\ UNCHANGED encounters

WakeUp ==
    /\ cpc = "asleep"
    /\ cpc' = "due"
    /\ UNCHANGED <<clientVars, mainVars, encounters>>

Controller == Fill \/ Filled \/ RadioFails \/ NotifyEncounter \/ RequestSleep \/ WakeUp

Next ==
    \/ Write \/ ReadEvent \/ Leave
    \/ AcceptClient \/ RecvAll \/ RecvFails \/ SetAdvertisedSet \/ SetListenSet
    \/ Controller

Spec == Init /\ [][Next]_vars

(***************************************************************************)
(* Both threads run.  The main thread gets setMutex_ sooner or later: the  *)
(* controller has it for a computation, and sleeps for seconds without it. *)
(* Nothing is assumed of the application, which need not even read.        *)
(***************************************************************************)
Fairness ==
    /\ WF_vars(RecvAll) /\ SF_vars(SetAdvertisedSet) /\ SF_vars(SetListenSet)
    /\ WF_vars(Controller)

FairSpec == Spec /\ Fairness

-----------------------------------------------------------------------------
(***************************************************************************)
(* However the stream is cut, and wherever it ends, the sets installed are *)
(* those of one message after the other, none left out and none made up;   *)
(* the listen set is of the message of the advertised set, or one behind.  *)
(***************************************************************************)
SetsFollowMessages ==
    [][ /\ advertisedSet' # advertisedSet =>
              advertisedSet' = advertisedSet + 1 /\ listenSet = advertisedSet
        /\ listenSet' # listenSet => listenSet' = advertisedSet ]_vars

(***************************************************************************)
(* The sets of a message that was written whole are installed, also if the *)
(* application has gone since, or never reads an event and the controller  *)
(* waits for it; unless the process ends.                                  *)
(***************************************************************************)
MessagesAreInstalled ==
    \A m \in 1 .. MaxMessages :
        (sent >= m * Size) ~> (listenSet \in m .. MaxMessages \/ ~Runs)
=============================================================================
