---------------------------- MODULE EbNController ----------------------------
(***************************************************************************)
(* EbNController::run over an EbNRadioBT4 (or EbNRadioBT2): the loop that  *)
(* sleeps until the radio's next action, scans, lets the hysteresis policy *)
(* choose the devices to shake hands with, and reports encounter events.   *)
(*                                                                         *)
(* pc is where the controller thread is; it never leaves a handler half    *)
(* way except where the code blocks (the scan, the connections) or walks a *)
(* list another thread fills.  The other thread is the radio's listener,   *)
(* which leaves completed incoming handshakes in listenAdverts_.           *)
(*                                                                         *)
(* Time is the wall clock (getTimeMS reads CLOCK_REALTIME) in units of the *)
(* shortest interval modelled.  It moves on while the controller sleeps,   *)
(* scans or connects (computing takes none), and may be set to another     *)
(* time at any moment.                                                     *)
(***************************************************************************)
EXTENDS EbNHystPolicy

CONSTANTS
    Phone,            \* the devices around
    FirstAddress,     \* the address each phone starts with
    MemoryScheme,     \* "Standard" or "NoMemory"
    HybridLimit,      \* the 128 of getHandshakeScheme
    HandshakeTime,    \* the 2000 ms a handshake must have left
    DiscoverIntervals,\* SCAN_INTERVAL with its random jitter
    EpochInterval,    \* EPOCH_INTERVAL
    RSSIInterval,     \* rssiReportInterval_
    ScanTimes,        \* how long a scan may take
    ConnectTimes,     \* how long a connection attempt may take
    StartTime,        \* what time it is when the program starts
    ClockValues,      \* what the wall clock may be set to
    QuietAt,          \* nobody is around any more for the scans due from then on
    MaxTime,          \* bound: no sleep is begun that would end after this time
    MaxResponses,     \* bound: responses to one scan
    MaxIncoming,      \* bound: incoming handshakes between two drains
    MaxClockSets      \* bound: how often the wall clock is set

ASSUME ControllerAssumption ==
    /\ FirstAddress \in [Phone -> Address]
    /\ MemoryScheme \in {"Standard", "NoMemory"}
    /\ {HybridLimit, HandshakeTime, EpochInterval, RSSIInterval, QuietAt, MaxTime,
        MaxResponses, MaxIncoming, MaxClockSets} \subseteq Nat
    /\ ScanTimes \subseteq Nat /\ ConnectTimes \subseteq Nat
    /\ StartTime \in Nat \ {0} /\ ClockValues \subseteq Nat \ {0}
    /\ DiscoverIntervals \subseteq Nat \ {0}

VARIABLES
    pc,
    now,              \* getTimeMS()
    clockSets,        \* how often the clock has been set
    nextDiscover,     \* nextDiscover_
    nextChangeEpoch,  \* nextChangeEpoch_
    timeUntil,        \* what is left of the sleep
    air,              \* the address each phone currently advertises
    listenAdverts,    \* listenAdverts_, the addresses of its entries
    discovered,       \* the list discover() returned
    toHandshake,      \* the part of deviceIDs handshake() has not reached yet
    unconfirmed,      \* UnconfirmedStarted events to deliver, as a bag of ids
    updates,          \* Started and Updated events to deliver
    ended,            \* Ended events to deliver
    told,             \* ghost: the last event the application got of each id
    lastHeard         \* ghost: when a scan last heard each id

schedVars == <<now, clockSets, nextDiscover, nextChangeEpoch, timeUntil>>
eventVars == <<unconfirmed, updates, ended>>
ghostVars == <<told, lastHeard>>
vars == <<pc, mapVars, deviceInfo, schedVars, air, listenAdverts, discovered,
          toHandshake, eventVars, ghostVars>>

Phases == {"idle", "sleep", "scan", "hyst", "drain", "connect", "report", "expire",
           "deliver", "crashed"}

EventTypes == {"UnconfirmedStarted", "Started", "Updated", "Ended"}

TypeOK ==
    /\ MapTypeOK /\ HystTypeOK
    /\ pc \in Phases
    /\ {now, clockSets, nextDiscover, nextChangeEpoch, timeUntil} \subseteq Nat
    /\ air \in [Phone -> Address]
    /\ listenAdverts \in Seq(Address)
    /\ discovered \in Seq([id : DeviceID, strong : BOOLEAN])
    /\ toHandshake \in SUBSET DeviceID
    /\ unconfirmed \in [DeviceID -> Nat]
    /\ updates \in SUBSET [id : DeviceID, type : {"Started", "Updated"}]
    /\ ended \in SUBSET DeviceID
    /\ told \in [DeviceID -> EventTypes \cup {"none"}]
    /\ lastHeard \in [DeviceID -> Nat]

Init ==
    /\ MapInit /\ HystInit
    /\ pc = "idle"
    /\ now = StartTime /\ clockSets = 0 /\ timeUntil = 0
    /\ nextDiscover = StartTime /\ nextChangeEpoch = StartTime + EpochInterval
    /\ air = FirstAddress
    /\ listenAdverts = <<>> /\ discovered = <<>> /\ toHandshake = {}
    /\ unconfirmed = [id \in DeviceID |-> 0] /\ updates = {} /\ ended = {}
    /\ told = [id \in DeviceID |-> "none"]
    /\ lastHeard = [id \in DeviceID |-> 0]

-----------------------------------------------------------------------------
(***************************************************************************)
(* getNextAction, and the sleep.  How long to sleep is decided by the wall *)
(* clock at its begin; at its end the action is taken without another look *)
(* at the clock, whatever the time has become.  (What is to be done cannot *)
(* change meanwhile: only the controller moves the two due times.)         *)
(***************************************************************************)
NextIsChangeEpoch == nextChangeEpoch < nextDiscover

TimeUntilNextAction ==
    LET due == IF NextIsChangeEpoch THEN nextChangeEpoch ELSE nextDiscover
    IN  IF due > now THEN due - now ELSE 0

GetNextAction ==
    /\ pc = "idle"
    /\ now + TimeUntilNextAction <= MaxTime
    /\ timeUntil' = TimeUntilNextAction
    /\ pc' = "sleep"
    /\ UNCHANGED <<mapVars, deviceInfo, now, clockSets, nextDiscover, nextChangeEpoch,
                   air, listenAdverts, discovered, toHandshake, eventVars, ghostVars>>

Wake ==
    /\ pc = "sleep"
    /\ now' = now + timeUntil
    /\ timeUntil' = 0

\* changeEpoch: the DH keys are data; devices with a decoded value get a secret.
ChangeEpoch ==
    /\ NextIsChangeEpoch
    /\ Wake
    /\ pc' = "idle"
    /\ device' = [id \in DeviceID |->
                    IF id \in idToDevice THEN NewEpochSecret(device[id]) ELSE device[id]]
    /\ nextChangeEpoch' = nextChangeEpoch + EpochInterval
    /\ UNCHANGED <<addressToDevice, idToDevice, nextDeviceID, recentDevices,
                   deviceInfo, clockSets, nextDiscover, air, listenAdverts,
                   discovered, toHandshake, eventVars, ghostVars>>

\* discover() up to the scan.
StartDiscover ==
    /\ ~NextIsChangeEpoch
    /\ Wake
    /\ pc' = "scan"
    /\ IF MemoryScheme = "NoMemory" THEN ClearMap ELSE UNCHANGED mapVars
    /\ discovered' = <<>>
    /\ UNCHANGED <<deviceInfo, clockSets, nextDiscover, nextChangeEpoch, air,
                   listenAdverts, toHandshake, eventVars, ghostVars>>

\* By the schedule, which goes on however the clock is set.
SomebodyAround == nextDiscover < QuietAt

\* processScanResponse: one phone in reach answers the scan.
ProcessScanResponse(p, strong) ==
    /\ pc = "scan"
    /\ SomebodyAround
    /\ Len(discovered) < MaxResponses
    /\ \E id \in DeviceID :
         /\ FindOrCreate(air[p], id)
         /\ \E d \in ProcessAdvert(Resolved(air[p], id)) :
              UseDevice(id, [d EXCEPT !.heard = TRUE])
         /\ discovered' = Append(discovered, [id |-> id, strong |-> strong])
         /\ lastHeard' = [lastHeard EXCEPT ![id] = now]
    /\ UNCHANGED <<pc, deviceInfo, schedVars, air, listenAdverts, toHandshake,
                   eventVars, told>>

FinishDiscover ==
    /\ pc = "scan"
    /\ pc' = "hyst"
    /\ \E t \in ScanTimes : now' = now + t
    /\ \E i \in DiscoverIntervals : nextDiscover' = nextDiscover + i
    /\ UNCHANGED <<mapVars, deviceInfo, clockSets, nextChangeEpoch, timeUntil, air,
                   listenAdverts, discovered, toHandshake, eventVars, ghostVars>>

\* hystPolicy_.discovered(discovered, newlyDiscovered)
HystDiscovered ==
    /\ pc = "hyst"
    /\ pc' = "drain"
    /\ deviceInfo' = AfterDiscovered(discovered, now)
    /\ unconfirmed' = NewlyDiscovered(discovered)
    /\ toHandshake' = Selected(discovered, now)
    /\ UNCHANGED <<mapVars, schedVars, air, listenAdverts, discovered, updates,
                   ended, ghostVars>>

-----------------------------------------------------------------------------
(***************************************************************************)
(* handshake().  First the incoming handshakes, one by one, under          *)
(* listenAdvertsMutex_: the listener adds none while pc is "drain".        *)
(***************************************************************************)
DrainListenAdvert ==
    /\ pc = "drain"
    /\ listenAdverts # <<>>
    /\ LET address == Head(listenAdverts)
       IN  \E id \in DeviceID :
             /\ FindOrCreate(address, id)
             /\ \E d \in ProcessActiveHandshake(Resolved(address, id)) :
                  UseDevice(id, [d EXCEPT !.shakenHands = TRUE])
    /\ listenAdverts' = Tail(listenAdverts)
    /\ UNCHANGED <<pc, deviceInfo, schedVars, air, discovered, toHandshake,
                   eventVars, ghostVars>>

FinishDrain ==
    /\ pc = "drain"
    /\ listenAdverts = <<>>
    /\ pc' = "connect"
    /\ UNCHANGED <<mapVars, deviceInfo, schedVars, air, listenAdverts, discovered,
                   toHandshake, eventVars, ghostVars>>

HandshakeIsActive ==
    \/ ConfirmScheme = "Active"
    \/ ConfirmScheme = "Hybrid" /\ Cardinality(recentDevices) <= HybridLimit

\* The std::set of ids is walked in increasing order.
IsFirst(id, ids) == id \in ids /\ \A other \in ids : id <= other

\* An outgoing handshake is due with this device (a TODO on BT2).
NeedsConnection(id) ==
    Radio = "BT4" /\ ~device[id].confirmed /\ HandshakeIsActive

ShakeHands(id, d) ==
    /\ device' = [device EXCEPT ![id] = [d EXCEPT !.shakenHands = TRUE]]
    /\ toHandshake' = toHandshake \ {id}

\* Without a connection, or after one that brought a secret or failed.
HandshakeWith(id) ==
    /\ pc = "connect"
    /\ IsFirst(id, toHandshake)
    /\ id \in idToDevice
    /\ \/ /\ ~NeedsConnection(id)
          /\ ShakeHands(id, device[id])
          /\ UNCHANGED now
       \/ /\ NeedsConnection(id)
          /\ TimeUntilNextAction >= HandshakeTime
          /\ \E d \in ProcessActiveHandshake(device[id]) : ShakeHands(id, d)
          /\ \E t \in ConnectTimes : now' = now + t
    /\ UNCHANGED <<pc, addressToDevice, idToDevice, nextDeviceID, recentDevices,
                   deviceInfo, clockSets, nextDiscover, nextChangeEpoch, timeUntil, air,
                   listenAdverts, discovered, eventVars, ghostVars>>

\* The break: the rest of the devices have to wait for the next round.
OutOfTime ==
    /\ pc = "connect"
    /\ \E id \in idToDevice :
         IsFirst(id, toHandshake) /\ NeedsConnection(id)
    /\ TimeUntilNextAction < HandshakeTime
    /\ toHandshake' = {}
    /\ UNCHANGED <<pc, mapVars, deviceInfo, schedVars, air, listenAdverts,
                   discovered, eventVars, ghostVars>>

\* hystPolicy_.encountered(...) on what handshake() returns.
HystEncountered ==
    /\ pc = "connect"
    /\ toHandshake = {}
    /\ pc' = "report"
    /\ deviceInfo' = AfterEncountered(
          {id \in idToDevice : device[id].shakenHands /\ device[id].confirmed}, now)
    /\ UNCHANGED <<mapVars, schedVars, air, listenAdverts, discovered, toHandshake,
                   eventVars, ghostVars>>

-----------------------------------------------------------------------------
\* getDeviceEvent for every device of the scan.
ReportDevices ==
    LET updated == {id \in HeardIn(discovered) \cap recentDevices :
                      IsUpdated(device[id], now, RSSIInterval)}
    IN  /\ pc = "report"
        /\ pc' = "expire"
        /\ updates' = {[id |-> id, type |-> EventType(device[id])] : id \in updated}
        /\ device' = [id \in DeviceID |->
                        IF id \in updated THEN Report(device[id], now) ELSE device[id]]
        /\ UNCHANGED <<addressToDevice, idToDevice, nextDeviceID, recentDevices,
                       deviceInfo, schedVars, air, listenAdverts, discovered,
                       toHandshake, unconfirmed, ended, ghostVars>>

\* Bug: only encounters that started are ended.
BugEndStarted ==
    /\ pc = "expire"
    /\ Expired(now) \subseteq idToDevice
    /\ pc' = "deliver"
    /\ deviceInfo' = Forget(Expired(now))
    /\ RemoveDevices(Expired(now))
    /\ ended' = {id \in Expired(now) : device[id].reported}
    /\ UNCHANGED <<schedVars, air, listenAdverts, discovered, toHandshake,
                   unconfirmed, updates, ghostVars>>

(***************************************************************************)
(* checkExpired, and doneWithDevice for every id it returns.               *)
(***************************************************************************)
ExpireDevices ==
    /\ pc = "expire"
    /\ Expired(now) \subseteq idToDevice
    /\ pc' = "deliver"
    /\ deviceInfo' = Forget(Expired(now))
    /\ RemoveDevices(Expired(now))
    /\ ended' = Expired(now)
    /\ UNCHANGED <<schedVars, air, listenAdverts, discovered, toHandshake,
                   unconfirmed, updates, ghostVars>>

\* doneWithDevice follows the pointer it looked up without a test: an id the
\* radio does not know ends the process.
ExpireUnknownDevice ==
    /\ pc = "expire"
    /\ ~(Expired(now) \subseteq idToDevice)
    /\ pc' = "crashed"
    /\ deviceInfo' = Forget(Expired(now))
    /\ UNCHANGED <<mapVars, schedVars, air, listenAdverts, discovered, toHandshake,
                   eventVars, ghostVars>>

-----------------------------------------------------------------------------
\* encounterCallback_: first the newly discovered, then the reports, then the ends.
Tell(id, type) == told' = [told EXCEPT ![id] = type]

\* Bug: one event too many.
BugOneMore == {id \in DeviceID : unconfirmed[id] >= 0}

UnconfirmedLeft == {id \in DeviceID : unconfirmed[id] > 0}

DeliverUnconfirmed(id) ==
    /\ pc = "deliver"
    /\ id \in UnconfirmedLeft
    /\ unconfirmed' = [unconfirmed EXCEPT ![id] = @ - 1]
    /\ Tell(id, "UnconfirmedStarted")
    /\ UNCHANGED <<pc, mapVars, deviceInfo, schedVars, air, listenAdverts,
                   discovered, toHandshake, updates, ended, lastHeard>>

\* Bug: the reports do not wait for the newly discovered.
BugUpdateFirst(e) ==
    /\ pc = "deliver"
    /\ e \in updates
    /\ updates' = updates \ {e}
    /\ Tell(e.id, e.type)
    /\ UNCHANGED <<pc, mapVars, deviceInfo, schedVars, air, listenAdverts,
                   discovered, toHandshake, unconfirmed, ended, lastHeard>>

DeliverUpdate(e) ==
    /\ pc = "deliver"
    /\ UnconfirmedLeft = {}
    /\ e \in updates
    /\ updates' = updates \ {e}
    /\ Tell(e.id, e.type)
    /\ UNCHANGED <<pc, mapVars, deviceInfo, schedVars, air, listenAdverts,
                   discovered, toHandshake, unconfirmed, ended, lastHeard>>

DeliverEnded(id) ==
    /\ pc = "deliver"
    /\ UnconfirmedLeft = {} /\ updates = {}
    /\ id \in ended
    /\ ended' = ended \ {id}
    /\ Tell(id, "Ended")
    /\ UNCHANGED <<pc, mapVars, deviceInfo, schedVars, air, listenAdverts,
                   discovered, toHandshake, unconfirmed, updates, lastHeard>>

FinishRound ==
    /\ pc = "deliver"
    /\ UnconfirmedLeft = {} /\ updates = {} /\ ended = {}
    /\ pc' = "idle"
    /\ discovered' = <<>>
    /\ UNCHANGED <<mapVars, deviceInfo, schedVars, air, listenAdverts, toHandshake,
                   eventVars, ghostVars>>

-----------------------------------------------------------------------------
\* Nothing others do is seen between the drain and the next scan, so it is as
\* well done while the controller sleeps or scans.
Waiting == {"sleep", "scan"}

(***************************************************************************)
(* The other actors: phones shift their address at their own epochs, a     *)
(* phone completes a handshake with the listener thread, and the user or   *)
(* the network sets the wall clock.                                        *)
(***************************************************************************)
ShiftAddress(p) ==
    /\ pc \in Waiting
    /\ \E a \in Address :
         /\ <<a, air[p]>> \in Shift
         /\ air' = [air EXCEPT ![p] = a]
    /\ UNCHANGED <<pc, mapVars, deviceInfo, schedVars, listenAdverts, discovered,
                   toHandshake, eventVars, ghostVars>>

Listen(p) ==
    /\ Radio = "BT4" /\ UsesActive
    /\ pc \in Waiting
    /\ SomebodyAround
    /\ Len(listenAdverts) < MaxIncoming
    /\ listenAdverts' = Append(listenAdverts, air[p])
    /\ UNCHANGED <<pc, mapVars, deviceInfo, schedVars, air, discovered, toHandshake,
                   eventVars, ghostVars>>

\* sleepMS sleeps for a duration, which setting the clock does not change.
SetClock(t) ==
    /\ pc # "crashed"
    /\ clockSets < MaxClockSets
    /\ clockSets' = clockSets + 1
    /\ now' = t
    /\ UNCHANGED <<pc, mapVars, deviceInfo, nextDiscover, nextChangeEpoch, timeUntil, air,
                   listenAdverts, discovered, toHandshake, eventVars, ghostVars>>

-----------------------------------------------------------------------------
Controller ==
    \/ GetNextAction \/ ChangeEpoch \/ StartDiscover \/ FinishDiscover \/ HystDiscovered
    \/ DrainListenAdvert \/ FinishDrain
    \/ \E id \in DeviceID : HandshakeWith(id)
    \/ OutOfTime \/ HystEncountered
    \/ ReportDevices \/ ExpireDevices \/ ExpireUnknownDevice
    \/ \E id \in DeviceID : DeliverUnconfirmed(id) \/ DeliverEnded(id)
    \/ \E e \in updates : DeliverUpdate(e)
    \/ FinishRound

Environment ==
    \/ \E p \in Phone, strong \in BOOLEAN : ProcessScanResponse(p, strong)
    \/ \E p \in Phone : ShiftAddress(p) \/ Listen(p)
    \/ \E t \in ClockValues : SetClock(t)

Next == Controller \/ Environment

Spec == Init /\ [][Next]_vars

\* The controller thread runs: nothing else in the process can hold it up
\* for ever, and a scan ends after SCAN_WINDOW whoever answers it.
FairSpec == Spec /\ WF_vars(Controller)

-----------------------------------------------------------------------------
(***************************************************************************)
(* No null pointer is followed: handshake() and doneWithDevice() look ids  *)
(* up in the radio's map that the hysteresis policy chose, from a map of   *)
(* its own, and never test the result.                                     *)
(***************************************************************************)
NoNullDereference ==
    /\ pc \in {"drain", "connect"} => toHandshake \subseteq idToDevice
    /\ pc = "expire" => Expired(now) \subseteq idToDevice

(***************************************************************************)
(* Between rounds every device the radio holds is also timed by the        *)
(* policy: only checkExpired ever makes the radio let go of a device, so   *)
(* one it does not know would be kept for ever.                            *)
(***************************************************************************)
EveryDeviceIsTimed == pc = "idle" => idToDevice \subseteq Known

(***************************************************************************)
(* Between rounds every encounter the application was told of and not      *)
(* told the end of is still timed: nothing else would ever end it.         *)
(***************************************************************************)
AnnouncedIsTimed ==
    pc = "idle" => \A id \in DeviceID :
        told[id] \in EventTypes \ {"Ended"} => id \in Known

(***************************************************************************)
(* Between rounds a device whose keys were confirmed is timed, even one    *)
(* that came to us and that no scan has heard: encountered() inserts it.   *)
(***************************************************************************)
ConfirmedIsTimed ==
    pc = "idle" => \A id \in idToDevice :
        device[id].shakenHands /\ device[id].confirmed => id \in Known

(***************************************************************************)
(* Hands are shaken (and, actively, keys exchanged) only with a device     *)
(* that stayed around: strong often enough, over long enough, and not      *)
(* forgotten in between.  Holds of devices that did not come to us, and    *)
(* until the clock is set: a round that then finds itself before the       *)
(* firstTime of a device takes it for one that has been around for ages.   *)
(***************************************************************************)
OnlyStableHandshakes ==
    \A id \in idToDevice : device[id].shakenHands =>
        /\ id \in Known
        /\ clockSets = 0 =>
             /\ deviceInfo[id].seen >= StartSeen
             /\ deviceInfo[id].lastTime - deviceInfo[id].firstTime >= MinStartTime

(***************************************************************************)
(* An encounter that was heard by a scan ends only after the silence the   *)
(* policy asks for: MaxStartTime, or EndTime once it was reported.  Until  *)
(* the clock is set: a round before the lastTime of a device ends it.      *)
(***************************************************************************)
EndsAfterSilence ==
    [][\A id \in ended' \ ended : clockSets = 0 /\ lastHeard[id] # 0 =>
          /\ now - lastHeard[id] > MaxStartTime
          /\ device[id].reported => now - lastHeard[id] > EndTime]_vars

(***************************************************************************)
(* Once everybody has left, every encounter that was open is ended, and    *)
(* radio and policy hold no device any more.                               *)
(***************************************************************************)
NothingLingers ==
    /\ idToDevice = {} /\ Known = {} /\ recentDevices = {}
    /\ \A id \in DeviceID : told[id] \in {"none", "Ended"}

QuietEndsEverything == <>[]NothingLingers

(***************************************************************************)
(* Main.cpp:412-415 on --churn: the policy is set "to immediately request  *)
(* handshakes (and not remember devices)", the radio "to keep no device    *)
(* information around".  So the policy has nothing to expire.              *)
(***************************************************************************)
ChurnRemembersNothing ==
    HystScheme = "ImmediateNoMem" /\ pc = "expire" => Expired(now) = {}

(***************************************************************************)
(* The events delivered keep the promise of EncounterLifecycle: whatever   *)
(* the radio, the policy and the reports go through, each id is announced, *)
(* started, updated and ended in this order, and is silent afterwards.     *)
(***************************************************************************)
Lifecycle == INSTANCE EncounterLifecycle
                WITH Incoming <- (Radio = "BT4" /\ UsesActive)

KeepsLifecycle == Lifecycle!Spec
=============================================================================
