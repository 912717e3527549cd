---------------------- MODULE EbNControllerEvents_proofs ----------------------
(***************************************************************************)
(* What the application of EbNController can rely on, for all constants:   *)
(* which devices are timed, which ones shake hands, when an encounter      *)
(* ends, and that the events of each id come in the order of               *)
(* EncounterLifecycle.                                                     *)
(*                                                                         *)
(* Each invariant below relates the radio's map, the policy's entries and  *)
(* the events of the round; each rests on the types and indexes of         *)
(* EbNController_proofs and on the invariants before it.                   *)
(***************************************************************************)
EXTENDS EbNController_proofs

\* The policy holds the device for one it has met.
Encountered(id) == id \in Known /\ deviceInfo[id].state = "Encountered"

\* An event of this round that reports the device has yet to be delivered.
ToReport(id) == \E e \in updates : e.id = id

-----------------------------------------------------------------------------
(***************************************************************************)
(* Which flags of a device an operation leaves alone.                      *)
(***************************************************************************)
LEMMA AdvertKeepsFlags ==
    ASSUME NEW d \in Device, NEW e \in ProcessAdvert(d)
    PROVE  /\ [e EXCEPT !.heard = TRUE].reported = d.reported
           /\ [e EXCEPT !.heard = TRUE].shakenHands = d.shakenHands
  <1>1. \A s \in SecretAfter(d) :
          s \in Device /\ s.reported = d.reported /\ s.shakenHands = d.shakenHands
    <2>1. ASSUME NEW s, s = d \/ s = Decode(d) \/ s = Confirm(d)
          PROVE  s \in Device /\ s.reported = d.reported /\ s.shakenHands = d.shakenHands
      <3>1. CASE s = d
        BY ONLY <3>1, d \in Device
      <3>2. CASE s = Decode(d)
        BY <3>2 DEF Decode, Confirm, Device
      <3>3. CASE s = Confirm(d)
        BY <3>3 DEF Confirm, Device
      <3> QED BY <2>1, <3>1, <3>2, <3>3
    <2>2. \A s \in SecretAfter(d) : s = d \/ s = Decode(d) \/ s = Confirm(d)
      BY DEF SecretAfter
    <2> QED BY ONLY <2>1, <2>2
  <1>2. e \in Device /\ e.reported = d.reported /\ e.shakenHands = d.shakenHands
    <2>1. \A s \in Device : /\ ShrinkMatching(s) \in Device
                            /\ ShrinkMatching(s).reported = s.reported
                            /\ ShrinkMatching(s).shakenHands = s.shakenHands
      BY DEF ShrinkMatching, Device
    <2> QED BY <1>1, <2>1 DEF ProcessAdvert
  <1> QED BY <1>2 DEF Device

LEMMA HandshakeKeepsReported ==
    ASSUME NEW d \in Device, NEW e \in ProcessActiveHandshake(d)
    PROVE  [e EXCEPT !.shakenHands = TRUE].reported = d.reported
  BY DEF ProcessActiveHandshake, Confirm, ShrinkMatching, Device

LEMMA EpochKeepsFlags ==
    ASSUME NEW d \in Device
    PROVE  /\ NewEpochSecret(d).reported = d.reported
           /\ NewEpochSecret(d).shakenHands = d.shakenHands
           /\ NewEpochSecret(d).confirmed = d.confirmed
  BY DEF NewEpochSecret, Device

LEMMA ReportFlags ==
    ASSUME NEW d \in Device, NEW time
    PROVE  /\ Report(d, time).reported
           /\ Report(d, time).shakenHands = d.shakenHands
           /\ Report(d, time).confirmed = d.confirmed
  BY DEF Report, Device

(***************************************************************************)
(* A lookup that ends with device id, whose record becomes d: the other    *)
(* devices stay as they are, and id is new only if it is the next one.     *)
(***************************************************************************)
LEMMA UsedDevice ==
    ASSUME MapInv, NEW address \in Address, NEW id \in DeviceID,
           FindOrCreate(address, id), NEW d, UseDevice(id, d)
    PROVE  /\ idToDevice' = idToDevice \cup {id}
           /\ id \in idToDevice => Resolved(address, id) = [device[id] EXCEPT !.address = address]
           /\ id \notin idToDevice => /\ id = nextDeviceID
                                      /\ Resolved(address, id) = NewDevice(address)
           /\ nextDeviceID' \in Nat /\ nextDeviceID' >= nextDeviceID /\ id < nextDeviceID'
           /\ device' = [device EXCEPT ![id] = d]
           /\ device'[id] = d
           /\ \A i \in DeviceID \ {id} : device'[i] = device[i]
  <1>1. device' = [device EXCEPT ![id] = d] /\ device \in [DeviceID -> Device \cup {NULL}]
    BY DEF UseDevice, MapInv, MapTypeOK
  <1>2. nextDeviceID \in Nat /\ \A i \in idToDevice : i \in Nat /\ i < nextDeviceID
    BY MapAssumption DEF MapInv, MapTypeOK, FreshIDs, DeviceID
  <1>3. CASE \E key \in LookupKeys(address) :
                id = addressToDevice[key] /\ Find(address, key)
    <2>1. id \in idToDevice
      BY <1>3 DEF LookupKeys, MapInv, IndexesAgree
    <2>2. idToDevice' = idToDevice /\ nextDeviceID' = nextDeviceID
      BY <1>3 DEF Find
    <2> QED BY <1>1, <1>2, <2>1, <2>2 DEF Resolved
  <1>4. CASE LookupKeys(address) = {} /\ id = nextDeviceID /\ Create(address)
    <2>1. idToDevice' = idToDevice \cup {id} /\ nextDeviceID' = nextDeviceID + 1
      BY <1>4 DEF Create
    <2> QED BY <1>1, <1>2, <1>4, <2>1 DEF Resolved
  <1> QED BY <1>3, <1>4 DEF FindOrCreate

\* The scan and the drain loop use a device: its reports stay as they were,
\* and a new device has none.
LEMMA UsedForScan ==
    ASSUME MapInv, NEW address \in Address, NEW id \in DeviceID,
           FindOrCreate(address, id),
           NEW d \in ProcessAdvert(Resolved(address, id)),
           UseDevice(id, [d EXCEPT !.heard = TRUE])
    PROVE  /\ id \in idToDevice => /\ device'[id].reported = device[id].reported
                                   /\ device'[id].shakenHands = device[id].shakenHands
           /\ id \notin idToDevice => ~device'[id].reported /\ ~device'[id].shakenHands
  <1>1. Resolved(address, id) \in Device
    BY ResolvedType
  <1>2. /\ device'[id].reported = Resolved(address, id).reported
        /\ device'[id].shakenHands = Resolved(address, id).shakenHands
    <2>1. device'[id] = [d EXCEPT !.heard = TRUE]
      BY DEF UseDevice, MapInv, MapTypeOK
    <2> QED BY <1>1, <2>1, AdvertKeepsFlags
  <1>3. id \in idToDevice => device[id] \in Device
    BY DEF MapInv, MapTypeOK, IndexesAgree
  <1>4. CASE id \in idToDevice
    BY <1>2, <1>3, <1>4, UsedDevice DEF Device
  <1>5. CASE id \notin idToDevice
    BY <1>2, <1>5, UsedDevice DEF NewDevice
  <1> QED BY <1>4, <1>5

LEMMA UsedForHandshake ==
    ASSUME MapInv, NEW address \in Address, NEW id \in DeviceID,
           FindOrCreate(address, id),
           NEW d \in ProcessActiveHandshake(Resolved(address, id)),
           UseDevice(id, [d EXCEPT !.shakenHands = TRUE])
    PROVE  /\ id \in idToDevice => device'[id].reported = device[id].reported
           /\ id \notin idToDevice => ~device'[id].reported
  <1>1. Resolved(address, id) \in Device
    BY ResolvedType
  <1>2. device'[id].reported = Resolved(address, id).reported
    <2>1. device'[id] = [d EXCEPT !.shakenHands = TRUE]
      BY DEF UseDevice, MapInv, MapTypeOK
    <2> QED BY <1>1, <2>1, HandshakeKeepsReported
  <1>3. id \in idToDevice => device[id] \in Device
    BY DEF MapInv, MapTypeOK, IndexesAgree
  <1>4. CASE id \in idToDevice
    BY <1>2, <1>3, <1>4, UsedDevice DEF Device
  <1>5. CASE id \notin idToDevice
    BY <1>2, <1>5, UsedDevice DEF NewDevice
  <1> QED BY <1>4, <1>5

-----------------------------------------------------------------------------
(***************************************************************************)
(* A round.  What a scan heard stays in the map until something expires,   *)
(* and from encountered() to the end of the round, and while the           *)
(* controller sleeps, whoever shook hands and is confirmed is encountered. *)
(***************************************************************************)
HeardAreHeld ==
    pc \in {"scan", "hyst", "drain", "connect", "report", "expire"} =>
        HeardIn(discovered) \subseteq idToDevice

ConfirmedAreEncountered ==
    pc \in {"report", "expire", "deliver", "idle", "sleep"} =>
        \A id \in idToDevice :
            device[id].shakenHands /\ device[id].confirmed => Encountered(id)

RoundInv == HeardAreHeld /\ ConfirmedAreEncountered

LEMMA InitRoundInv == Init => RoundInv
  BY DEF Init, MapInit, RoundInv, HeardAreHeld, ConfirmedAreEncountered

\* encountered() knows every device it is given, and forgets nobody.
LEMMA AllEncountered ==
    ASSUME HystTypeOK, NEW time \in Nat, NEW ids \in SUBSET DeviceID
    PROVE  \A id \in DeviceID :
              /\ id \in ids => /\ AfterEncountered(ids, time)[id] # NULL
                               /\ AfterEncountered(ids, time)[id].state = "Encountered"
              /\ id \notin ids => AfterEncountered(ids, time)[id] = deviceInfo[id]
  <1>1. NewInfo("Encountered", time) \in DeviceInfo
    BY NewInfoType
  <1>2. ASSUME NEW id \in Known
        PROVE  [deviceInfo[id] EXCEPT !.state = "Encountered"] \in DeviceInfo
    BY DEF Known, HystTypeOK, DeviceInfo
  <1>3. NULL \notin DeviceInfo
    BY HystAssumption
  <1>4. ASSUME NEW id \in ids
        PROVE  /\ AfterEncountered(ids, time)[id] \in DeviceInfo
               /\ AfterEncountered(ids, time)[id].state = "Encountered"
    <2>1. CASE id \in Known
      <3>1. deviceInfo[id] \in DeviceInfo
        BY <2>1 DEF Known, HystTypeOK
      <3>2. AfterEncountered(ids, time)[id] = [deviceInfo[id] EXCEPT !.state = "Encountered"]
        BY <2>1 DEF AfterEncountered
      <3> QED BY <2>1, <3>1, <3>2, <1>2 DEF DeviceInfo
    <2>2. CASE id \notin Known
      BY <2>2, <1>1 DEF AfterEncountered, NewInfo
    <2> QED BY <2>1, <2>2
  <1> QED BY <1>3, <1>4 DEF AfterEncountered

LEMMA StepRoundInv == ASSUME IInv, RoundInv, [Next]_vars PROVE RoundInv'
  <1> USE DEF RoundInv, HeardAreHeld, ConfirmedAreEncountered, Encountered
  <1>0. /\ MapInv /\ MapTypeOK /\ IndexesAgree /\ RestTypeOK /\ HystTypeOK
        /\ \A id \in idToDevice : id \in DeviceID /\ device[id] \in Device
    BY DEF IInv, MapInv, RestTypeOK, MapTypeOK, IndexesAgree
  <1>1. CASE ChangeEpoch
    <2>1. \A id \in idToDevice : /\ device'[id].shakenHands = device[id].shakenHands
                                 /\ device'[id].confirmed = device[id].confirmed
      BY <1>1, <1>0, EpochKeepsFlags DEF ChangeEpoch
    <2> QED BY <1>1, <2>1 DEF ChangeEpoch, Wake, Known
  <1>2. CASE StartDiscover
    <2>1. pc' = "scan" /\ discovered' = <<>>
      BY <1>2 DEF StartDiscover
    <2> QED BY <2>1 DEF HeardIn
  <1>3. ASSUME NEW p \in Phone, NEW strong \in BOOLEAN, ProcessScanResponse(p, strong)
        PROVE  RoundInv'
    <2>1. PICK id \in DeviceID :
            /\ FindOrCreate(air[p], id)
            /\ discovered' = Append(discovered, [id |-> id, strong |-> strong])
      BY <1>3 DEF ProcessScanResponse
    <2>2. idToDevice \subseteq idToDevice' /\ id \in idToDevice'
      BY <2>1, <1>0, FindOrCreateInMap DEF RestTypeOK
    <2>3. HeardIn(discovered') \subseteq HeardIn(discovered) \cup {id}
      BY <2>1, <1>0, HeardInAppend DEF RestTypeOK
    <2>4. HeardIn(discovered)' = HeardIn(discovered')
      BY DEF HeardIn
    <2>5. pc' = "scan" /\ pc = "scan"
      BY <1>3 DEF ProcessScanResponse
    <2> QED BY <2>2, <2>3, <2>4, <2>5
  <1>4. CASE FinishDiscover
    BY <1>4 DEF FinishDiscover, mapVars, HeardIn
  <1>5. CASE HystDiscovered
    BY <1>5 DEF HystDiscovered, mapVars, HeardIn
  <1>6. CASE DrainListenAdvert
    <2>1. PICK id \in DeviceID : FindOrCreate(Head(listenAdverts), id)
      BY <1>6 DEF DrainListenAdvert
    <2>2. Head(listenAdverts) \in Address
      BY <1>6, <1>0 DEF DrainListenAdvert, RestTypeOK
    <2>3. idToDevice \subseteq idToDevice'
      BY <2>1, <2>2, <1>0, FindOrCreateInMap
    <2> QED BY <1>6, <2>3 DEF DrainListenAdvert, HeardIn
  <1>7. CASE FinishDrain
    BY <1>7 DEF FinishDrain, mapVars, HeardIn
  <1>8. ASSUME NEW id \in DeviceID, HandshakeWith(id) PROVE RoundInv'
    BY <1>8 DEF HandshakeWith, HeardIn
  <1>9. CASE OutOfTime
    BY <1>9 DEF OutOfTime, mapVars, HeardIn
  <1>10. CASE HystEncountered
    <2> DEFINE ids == {id \in idToDevice : device[id].shakenHands /\ device[id].confirmed}
    <2>1. ids \in SUBSET DeviceID
      BY <1>0
    <2>2. deviceInfo' = AfterEncountered(ids, now) /\ UNCHANGED mapVars
      BY <1>10 DEF HystEncountered
    <2>3. \A id \in ids : deviceInfo'[id] # NULL /\ deviceInfo'[id].state = "Encountered"
      <3> HIDE DEF ids
      <3>1. HystTypeOK /\ now \in Nat
        BY <1>0 DEF RestTypeOK
      <3>2. \A id \in DeviceID :
              id \in ids => /\ AfterEncountered(ids, now)[id] # NULL
                            /\ AfterEncountered(ids, now)[id].state = "Encountered"
        BY ONLY <2>1, <3>1, AllEncountered
      <3> QED BY ONLY <2>1, <2>2, <3>2
    <2> QED BY <1>10, <2>1, <2>2, <2>3 DEF HystEncountered, mapVars, HeardIn, Known
  <1>11. CASE ReportDevices
    <2>1. \A id \in idToDevice : /\ device'[id].shakenHands = device[id].shakenHands
                                 /\ device'[id].confirmed = device[id].confirmed
      BY <1>11, <1>0, ReportFlags DEF ReportDevices
    <2> QED BY <1>11, <2>1 DEF ReportDevices, HeardIn, Known
  <1>12. CASE ExpireDevices
    <2>1. \A id \in DeviceID \ Expired(now) :
            device'[id] = device[id] /\ deviceInfo'[id] = deviceInfo[id]
      BY <1>12 DEF ExpireDevices, RemoveDevices, Forget
    <2>2. idToDevice' = idToDevice \ Expired(now)
      BY <1>12 DEF ExpireDevices, RemoveDevices
    <2> QED BY <1>12, <2>1, <2>2, <1>0 DEF ExpireDevices, Known
  <1>13. CASE ExpireUnknownDevice
    BY <1>13 DEF ExpireUnknownDevice
  <1>14. CASE \/ \E id \in DeviceID : DeliverUnconfirmed(id) \/ DeliverEnded(id)
              \/ \E e \in updates : DeliverUpdate(e)
    BY <1>14 DEF DeliverUnconfirmed, DeliverEnded, DeliverUpdate, mapVars, Known
  <1>15. CASE GetNextAction \/ FinishRound
    BY <1>15 DEF GetNextAction, FinishRound, mapVars, Known
  <1>16. CASE \/ \E p \in Phone : ShiftAddress(p) \/ Listen(p)
              \/ \E t \in ClockValues : SetClock(t)
    BY <1>16 DEF ShiftAddress, Listen, SetClock, mapVars, Known, HeardIn
  <1>17. CASE UNCHANGED vars
    BY <1>17 DEF vars, mapVars, Known, HeardIn
  <1> QED BY <1>1, <1>2, <1>3, <1>4, <1>5, <1>6, <1>7, <1>8, <1>9, <1>10, <1>11,
             <1>12, <1>13, <1>14, <1>15, <1>16, <1>17
          DEF Next, Controller, Environment

LEMMA RoundsAreConsistent == Spec => [](IInv /\ RoundInv)
  <1>1. IInv /\ RoundInv /\ [Next]_vars => RoundInv'
    BY StepRoundInv
  <1> QED BY <1>1, InitRoundInv, TypesAndIndexes, PTL DEF Spec

(***************************************************************************)
(* Between rounds a confirmed device is timed by the policy, however it    *)
(* was met and whatever the schemes remember: what opens an encounter also *)
(* starts its clock.                                                       *)
(***************************************************************************)
THEOREM ConfirmedAreTimed == Spec => []ConfirmedIsTimed
  <1>1. RoundInv => ConfirmedIsTimed
    BY DEF RoundInv, ConfirmedAreEncountered, Encountered, ConfirmedIsTimed
  <1> QED BY <1>1, RoundsAreConsistent, PTL

-----------------------------------------------------------------------------
(***************************************************************************)
(* What a scan newly discovers was heard, and with memory it is new to the *)
(* policy and is announced once; who was encountered already remains so.   *)
(***************************************************************************)
LEMMA NewlyHeard ==
    ASSUME NEW events, NEW id \in DeviceID
    PROVE  /\ NewlyDiscovered(events)[id] # 0 => id \in HeardIn(events)
           /\ HasMemory => NewlyDiscovered(events)[id] =
                              IF id \in HeardIn(events) /\ id \notin Known THEN 1 ELSE 0
  <1>1. id \notin HeardIn(events) => TimesIn(events, id) = 0
    <2>1. id \notin HeardIn(events) => {i \in DOMAIN events : events[i].id = id} = {}
      BY DEF HeardIn
    <2> QED BY <2>1, FS_EmptySet DEF TimesIn
  <1> QED BY <1>1 DEF NewlyDiscovered

LEMMA StillEncountered ==
    ASSUME HystTypeOK, NEW time \in Nat,
           NEW events \in Seq([id : DeviceID, strong : BOOLEAN]),
           NEW id \in DeviceID
    PROVE  /\ id \in Known => AfterDiscovered(events, time)[id] # NULL
           /\ Encountered(id) => AfterDiscovered(events, time)[id].state = "Encountered"
           /\ HasMemory /\ id \in HeardIn(events) => AfterDiscovered(events, time)[id] # NULL
  <1>1. AfterDiscovered(events, time) \in [DeviceID -> DeviceInfo \cup {NULL}]
    BY DiscoveredType
  <1> DEFINE old  == IF deviceInfo[id] = NULL THEN NewInfo("Discovered", time)
                                              ELSE deviceInfo[id]
             info == [old EXCEPT !.lastTime = time, !.seen = @ + StrongIn(events, id)]
  <1>2. old \in DeviceInfo /\ (Encountered(id) => old.state = "Encountered")
    BY NewInfoType DEF HystTypeOK, Encountered, Known
  <1>3. StrongIn(events, id) \in Nat
    BY CountsAreNat
  <1>4. info \in DeviceInfo /\ (Encountered(id) => info.state = "Encountered")
    <2>1. ASSUME NEW o \in DeviceInfo, NEW n \in Nat
          PROVE  /\ [o EXCEPT !.lastTime = time, !.seen = @ + n] \in DeviceInfo
                 /\ [o EXCEPT !.lastTime = time, !.seen = @ + n].state = o.state
      <3>1. o.seen + n \in Nat
        BY DEF DeviceInfo
      <3> QED BY <3>1 DEF DeviceInfo
    <2> QED BY <1>2, <1>3, <2>1
  <1> HIDE DEF old, info
  <1>5. InfoAfter(events, id, time) =
          IF IsStable(info, time) THEN [info EXCEPT !.state = "Encountered"] ELSE info
    BY DEF InfoAfter, old, info
  <1>6. /\ InfoAfter(events, id, time) \in DeviceInfo
        /\ Encountered(id) => InfoAfter(events, id, time).state = "Encountered"
    BY <1>4, <1>5 DEF DeviceInfo
  <1>7. InfoAfter(events, id, time) # NULL
    BY <1>6, HystAssumption
  <1> QED BY <1>6, <1>7 DEF AfterDiscovered, Known, Encountered

(***************************************************************************)
(* The events of a round.  Each list is empty until its phase, an id has   *)
(* one report at most, and nothing is known or said of an id that has not  *)
(* been handed out.                                                        *)
(***************************************************************************)
QueuesFillInOrder ==
    /\ pc \in {"idle", "sleep", "scan", "hyst"} => UnconfirmedLeft = {}
    /\ pc \in {"idle", "sleep", "scan", "hyst", "drain", "connect", "report"} => updates = {}
    /\ pc # "deliver" => ended = {}
    /\ \A e, f \in updates : e.id = f.id => e = f

UnusedAreUnknown ==
    \A id \in DeviceID : id >= nextDeviceID =>
        /\ id \notin Known /\ told[id] = "none"
        /\ unconfirmed[id] = 0 /\ ~ToReport(id) /\ id \notin ended

(***************************************************************************)
(* A reported device is encountered: getDeviceEvent reports confirmed ones *)
(* only, and the policy drops an encounter together with its device.       *)
(***************************************************************************)
ReportedAreEncountered ==
    pc # "crashed" => \A id \in idToDevice : device[id].reported => Encountered(id)

EventsInv == QueuesFillInOrder /\ UnusedAreUnknown /\ ReportedAreEncountered

LEMMA InitEventsInv == Init => EventsInv
  BY DEF Init, MapInit, HystInit, EventsInv, QueuesFillInOrder, UnusedAreUnknown,
         ReportedAreEncountered, UnconfirmedLeft, Known, ToReport

LEMMA StepQueues == ASSUME IInv, EventsInv, [Next]_vars PROVE QueuesFillInOrder'
  <1> USE DEF EventsInv, QueuesFillInOrder, UnconfirmedLeft
  <1>1. CASE ReportDevices
    <2> DEFINE updated == {id \in HeardIn(discovered) \cap recentDevices :
                             IsUpdated(device[id], now, RSSIInterval)}
    <2>1. updates' = {[id |-> id, type |-> EventType(device[id])] : id \in updated}
      BY <1>1 DEF ReportDevices
    <2> HIDE DEF updated
    <2>2. \A e, f \in updates' : e.id = f.id => e = f
      BY <2>1
    <2> QED BY <1>1, <2>2 DEF ReportDevices
  <1>2. CASE HystDiscovered
    BY <1>2 DEF HystDiscovered
  <1>3. CASE ExpireDevices \/ ExpireUnknownDevice
    BY <1>3 DEF ExpireDevices, ExpireUnknownDevice, eventVars
  <1>4. CASE \/ \E id \in DeviceID : DeliverUnconfirmed(id) \/ DeliverEnded(id)
             \/ \E e \in updates : DeliverUpdate(e)
    BY <1>4 DEF DeliverUnconfirmed, DeliverEnded, DeliverUpdate
  <1>5. CASE FinishRound
    BY <1>5 DEF FinishRound, eventVars
  <1>6. CASE \/ GetNextAction \/ ChangeEpoch \/ StartDiscover \/ FinishDiscover
             \/ DrainListenAdvert \/ FinishDrain \/ OutOfTime \/ HystEncountered
             \/ \E id \in DeviceID : HandshakeWith(id)
    BY <1>6 DEF GetNextAction, ChangeEpoch, Wake, StartDiscover, FinishDiscover,
                DrainListenAdvert, FinishDrain, OutOfTime, HystEncountered, HandshakeWith, eventVars
  <1>7. CASE Environment
    BY <1>7 DEF Environment, ProcessScanResponse, ShiftAddress, Listen, SetClock, eventVars
  <1>8. CASE UNCHANGED vars
    BY <1>8 DEF vars, eventVars
  <1> QED BY <1>1, <1>2, <1>3, <1>4, <1>5, <1>6, <1>7, <1>8 DEF Next, Controller

LEMMA StepUnused == ASSUME IInv, RoundInv, EventsInv, [Next]_vars PROVE UnusedAreUnknown'
  <1> USE DEF EventsInv, UnusedAreUnknown, ToReport, Known
  <1>0. /\ MapInv /\ MapTypeOK /\ RestTypeOK /\ HystTypeOK
        /\ nextDeviceID \in Nat /\ \A id \in DeviceID : id \in Nat
        /\ \A id \in idToDevice : id \in DeviceID /\ ~(id >= nextDeviceID)
        /\ \A e \in updates : e.id \in DeviceID
    <2>1. nextDeviceID \in Nat /\ \A id \in DeviceID : id \in Nat
      BY MapAssumption DEF IInv, MapInv, MapTypeOK, DeviceID
    <2>2. \A id \in idToDevice : id \in DeviceID /\ id < nextDeviceID
      BY DEF IInv, MapInv, MapTypeOK, FreshIDs
    <2>3. \A e \in updates : e.id \in DeviceID
      BY DEF IInv, RestTypeOK
    <2> QED BY <2>1, <2>2, <2>3 DEF IInv, MapInv, RestTypeOK
  <1>1. ASSUME NEW p \in Phone, NEW strong \in BOOLEAN, ProcessScanResponse(p, strong)
        PROVE  UnusedAreUnknown'
    <2>1. nextDeviceID' \in Nat /\ nextDeviceID' >= nextDeviceID
      BY <1>0, <1>1, UsedDevice DEF ProcessScanResponse, RestTypeOK
    <2>2. UNCHANGED <<deviceInfo, told, eventVars>>
      BY <1>1 DEF ProcessScanResponse
    <2>3. \A id \in DeviceID : id >= nextDeviceID' => id >= nextDeviceID
      BY <1>0, <2>1
    <2> QED BY <2>2, <2>3 DEF eventVars
  <1>2. CASE DrainListenAdvert
    <2>1. nextDeviceID' \in Nat /\ nextDeviceID' >= nextDeviceID
      <3>1. Head(listenAdverts) \in Address
        BY <1>0, <1>2 DEF DrainListenAdvert, RestTypeOK
      <3> QED BY <1>0, <1>2, <3>1, UsedDevice DEF DrainListenAdvert
    <2>2. UNCHANGED <<deviceInfo, told, eventVars>>
      BY <1>2 DEF DrainListenAdvert, ghostVars
    <2>3. \A id \in DeviceID : id >= nextDeviceID' => id >= nextDeviceID
      BY <1>0, <2>1
    <2> QED BY <2>2, <2>3 DEF eventVars
  <1>3. CASE HystDiscovered
    <2>1. HeardIn(discovered) \subseteq idToDevice
      BY <1>3 DEF HystDiscovered, RoundInv, HeardAreHeld
    <2>2. /\ UNCHANGED <<mapVars, updates, ended, told>>
          /\ deviceInfo' = AfterDiscovered(discovered, now)
          /\ unconfirmed' = NewlyDiscovered(discovered)
      BY <1>3 DEF HystDiscovered, ghostVars
    <2>3. \A id \in DeviceID : AfterDiscovered(discovered, now)[id] # NULL =>
             id \in Known \/ id \in HeardIn(discovered)
      BY <1>0, DiscoveredType DEF RestTypeOK
    <2>4. \A id \in DeviceID :
             NewlyDiscovered(discovered)[id] # 0 => id \in HeardIn(discovered)
      BY NewlyHeard
    <2> QED BY <1>0, <2>1, <2>2, <2>3, <2>4 DEF mapVars
  <1>4. CASE HystEncountered
    <2>1. PICK ids \in SUBSET idToDevice : deviceInfo' = AfterEncountered(ids, now)
      BY <1>4 DEF HystEncountered
    <2>2. \A id \in DeviceID : AfterEncountered(ids, now)[id] # NULL =>
             id \in Known \/ id \in ids
      <3>1. HystTypeOK /\ now \in Nat /\ ids \in SUBSET DeviceID
        BY <1>0, <2>1 DEF RestTypeOK
      <3> QED BY ONLY <3>1, EncounteredType
    <2> QED BY <1>0, <1>4, <2>1, <2>2 DEF HystEncountered, mapVars, eventVars, ghostVars
  <1>5. CASE ReportDevices
    <2>1. HeardIn(discovered) \subseteq idToDevice
      BY <1>5 DEF ReportDevices, RoundInv, HeardAreHeld
    <2>2. \A e \in updates' : e.id \in HeardIn(discovered)
      BY <1>5 DEF ReportDevices
    <2> QED BY <1>0, <1>5, <2>1, <2>2 DEF ReportDevices, ghostVars
  <1>6. CASE ExpireDevices
    <2>1. /\ UNCHANGED <<nextDeviceID, told, unconfirmed, updates>>
          /\ ended' = Expired(now) /\ deviceInfo' = Forget(Expired(now))
      BY <1>6 DEF ExpireDevices, RemoveDevices, ghostVars
    <2> QED BY <2>1 DEF Expired, Forget
  <1>7. CASE ExpireUnknownDevice
    BY <1>7 DEF ExpireUnknownDevice, Forget, mapVars, eventVars, ghostVars
  <1>8. ASSUME NEW id \in DeviceID, DeliverUnconfirmed(id) PROVE UnusedAreUnknown'
    <2>1. ~(id >= nextDeviceID)
      BY <1>0, <1>8 DEF DeliverUnconfirmed, UnconfirmedLeft
    <2> QED BY <1>0, <1>8, <2>1 DEF DeliverUnconfirmed, Tell, mapVars, RestTypeOK
  <1>9. ASSUME NEW id \in DeviceID, DeliverEnded(id) PROVE UnusedAreUnknown'
    <2>1. ~(id >= nextDeviceID)
      BY <1>9 DEF DeliverEnded
    <2> QED BY <1>0, <1>9, <2>1 DEF DeliverEnded, Tell, mapVars, RestTypeOK
  <1>10. ASSUME NEW e \in updates, DeliverUpdate(e) PROVE UnusedAreUnknown'
    <2>1. e.id \in DeviceID /\ ~(e.id >= nextDeviceID)
      BY <1>0, <1>10
    <2> QED BY <1>0, <1>10, <2>1 DEF DeliverUpdate, Tell, mapVars, RestTypeOK
  <1>11. CASE \/ GetNextAction \/ ChangeEpoch \/ StartDiscover \/ FinishDiscover
              \/ FinishDrain \/ OutOfTime \/ FinishRound \/ \E id \in DeviceID : HandshakeWith(id)
    BY <1>11 DEF GetNextAction, ChangeEpoch, StartDiscover, FinishDiscover, FinishDrain,
                 OutOfTime, FinishRound, HandshakeWith, ClearMap, mapVars, eventVars, ghostVars
  <1>12. CASE \/ \E p \in Phone : ShiftAddress(p) \/ Listen(p)
              \/ \E t \in ClockValues : SetClock(t)
    BY <1>12 DEF ShiftAddress, Listen, SetClock, mapVars, eventVars, ghostVars
  <1>13. CASE UNCHANGED vars
    BY <1>13 DEF vars, mapVars, eventVars, ghostVars
  <1> QED BY <1>1, <1>2, <1>3, <1>4, <1>5, <1>6, <1>7, <1>8, <1>9, <1>10, <1>11,
             <1>12, <1>13 DEF Next, Controller, Environment

LEMMA StepReported ==
    ASSUME IInv, RoundInv, EventsInv, [Next]_vars
    PROVE  ReportedAreEncountered'
  <1> USE DEF EventsInv, ReportedAreEncountered
  <1>0. /\ MapInv /\ MapTypeOK /\ IndexesAgree /\ RestTypeOK /\ HystTypeOK
        /\ \A id \in idToDevice : id \in DeviceID /\ device[id] \in Device
    BY DEF IInv, MapInv, RestTypeOK, MapTypeOK, IndexesAgree
  <1>1. CASE ChangeEpoch
    <2>1. \A id \in idToDevice : device'[id].reported = device[id].reported
      BY <1>1, <1>0, EpochKeepsFlags DEF ChangeEpoch
    <2> QED BY <1>1, <2>1 DEF ChangeEpoch, Wake, Encountered, Known
  <1>2. CASE StartDiscover
    BY <1>2 DEF StartDiscover, Wake, ClearMap, mapVars, Encountered, Known
  <1>3. ASSUME NEW p \in Phone, NEW strong \in BOOLEAN, ProcessScanResponse(p, strong)
        PROVE  ReportedAreEncountered'
    <2>1. PICK id \in DeviceID :
            /\ FindOrCreate(air[p], id)
            /\ \E d \in ProcessAdvert(Resolved(air[p], id)) :
                 UseDevice(id, [d EXCEPT !.heard = TRUE])
      BY <1>3 DEF ProcessScanResponse
    <2>2. air[p] \in Address
      BY <1>0 DEF RestTypeOK
    <2>3. \A i \in idToDevice' : device'[i].reported =>
            i \in idToDevice /\ device[i].reported
      BY <1>0, <2>1, <2>2, UsedDevice, UsedForScan
    <2> QED BY <1>3, <2>3 DEF ProcessScanResponse, Encountered, Known
  <1>4. CASE HystDiscovered
    <2>1. \A id \in DeviceID : Encountered(id) =>
            /\ AfterDiscovered(discovered, now)[id] # NULL
            /\ AfterDiscovered(discovered, now)[id].state = "Encountered"
      BY <1>0, StillEncountered DEF RestTypeOK, Encountered
    <2>2. /\ pc = "hyst" /\ UNCHANGED mapVars
          /\ deviceInfo' = AfterDiscovered(discovered, now)
      BY <1>4 DEF HystDiscovered
    <2> QED BY <1>0, <2>1, <2>2 DEF mapVars, Encountered, Known
  <1>5. CASE DrainListenAdvert
    <2>1. PICK id \in DeviceID :
            /\ FindOrCreate(Head(listenAdverts), id)
            /\ \E d \in ProcessActiveHandshake(Resolved(Head(listenAdverts), id)) :
                 UseDevice(id, [d EXCEPT !.shakenHands = TRUE])
      BY <1>5 DEF DrainListenAdvert
    <2>2. Head(listenAdverts) \in Address
      BY <1>0, <1>5 DEF DrainListenAdvert, RestTypeOK
    <2>3. \A i \in idToDevice' : device'[i].reported =>
            i \in idToDevice /\ device[i].reported
      BY <1>0, <2>1, <2>2, UsedDevice, UsedForHandshake
    <2> QED BY <1>5, <2>3 DEF DrainListenAdvert, Encountered, Known
  <1>6. ASSUME NEW id \in DeviceID, HandshakeWith(id) PROVE ReportedAreEncountered'
    <2>1. PICK d \in ProcessActiveHandshake(device[id]) \cup {device[id]} : ShakeHands(id, d)
      BY <1>6 DEF HandshakeWith
    <2>2. id \in idToDevice /\ device[id] \in Device
      BY <1>0, <1>6 DEF HandshakeWith
    <2>3. [d EXCEPT !.shakenHands = TRUE].reported = device[id].reported
      BY <2>1, <2>2, HandshakeKeepsReported DEF ProcessActiveHandshake
    <2>4. \A i \in idToDevice : device'[i].reported = device[i].reported
      BY <1>0, <2>1, <2>3 DEF ShakeHands, MapTypeOK
    <2> QED BY <1>6, <2>4 DEF HandshakeWith, Encountered, Known
  <1>7. CASE HystEncountered
    <2>1. PICK ids \in SUBSET idToDevice : deviceInfo' = AfterEncountered(ids, now)
      BY <1>7 DEF HystEncountered
    <2>2. \A id \in DeviceID :
            Encountered(id) => deviceInfo'[id] # NULL /\ deviceInfo'[id].state = "Encountered"
      <3>1. HystTypeOK /\ now \in Nat /\ ids \in SUBSET DeviceID
        BY <1>0 DEF RestTypeOK, MapTypeOK
      <3>2. \A id \in DeviceID :
              /\ id \in ids => /\ deviceInfo'[id] # NULL
                               /\ deviceInfo'[id].state = "Encountered"
              /\ id \notin ids => deviceInfo'[id] = deviceInfo[id]
        BY ONLY <2>1, <3>1, AllEncountered
      <3> QED BY ONLY <3>2 DEF Encountered, Known
    <2>3. pc = "connect" /\ UNCHANGED mapVars
      BY <1>7 DEF HystEncountered
    <2> QED BY <1>0, <2>2, <2>3 DEF mapVars, Encountered, Known
  <1>8. CASE ReportDevices
    <2>1. \A id \in idToDevice : device'[id].reported =>
            device[id].reported \/ (device[id].shakenHands /\ device[id].confirmed)
      BY <1>8, <1>0 DEF ReportDevices, IsUpdated
    <2>2. pc = "report" /\ UNCHANGED <<idToDevice, deviceInfo>>
      BY <1>8 DEF ReportDevices
    <2> QED BY <2>1, <2>2 DEF RoundInv, ConfirmedAreEncountered, Encountered, Known
  <1>9. CASE ExpireDevices
    <2>1. \A id \in DeviceID \ Expired(now) :
            device'[id] = device[id] /\ deviceInfo'[id] = deviceInfo[id]
      BY <1>9 DEF ExpireDevices, RemoveDevices, Forget
    <2>2. pc = "expire" /\ idToDevice' = idToDevice \ Expired(now)
      BY <1>9 DEF ExpireDevices, RemoveDevices
    <2> QED BY <1>0, <2>1, <2>2 DEF Encountered, Known
  <1>10. CASE ExpireUnknownDevice
    BY <1>10 DEF ExpireUnknownDevice
  <1>11. CASE \/ GetNextAction \/ FinishDiscover \/ FinishDrain \/ OutOfTime \/ FinishRound
              \/ \E id \in DeviceID : DeliverUnconfirmed(id) \/ DeliverEnded(id)
              \/ \E e \in updates : DeliverUpdate(e)
    BY <1>11 DEF GetNextAction, FinishDiscover, FinishDrain, OutOfTime, FinishRound,
                 DeliverUnconfirmed, DeliverEnded, DeliverUpdate, mapVars, Encountered, Known
  <1>12. CASE \/ \E p \in Phone : ShiftAddress(p) \/ Listen(p)
              \/ \E t \in ClockValues : SetClock(t)
    BY <1>12 DEF ShiftAddress, Listen, SetClock, mapVars, Encountered, Known
  <1>13. CASE UNCHANGED vars
    BY <1>13 DEF vars, mapVars, Encountered, Known
  <1> QED BY <1>1, <1>2, <1>3, <1>4, <1>5, <1>6, <1>7, <1>8, <1>9, <1>10, <1>11,
             <1>12, <1>13 DEF Next, Controller, Environment

LEMMA StepEventsInv == ASSUME IInv, RoundInv, EventsInv, [Next]_vars PROVE EventsInv'
  BY StepQueues, StepUnused, StepReported DEF EventsInv

LEMMA EventsAreConsistent == Spec => [](IInv /\ RoundInv /\ EventsInv)
  <1>1. IInv /\ RoundInv /\ EventsInv /\ [Next]_vars => EventsInv'
    BY StepEventsInv
  <1> QED BY <1>1, InitEventsInv, RoundsAreConsistent, PTL DEF Spec

-----------------------------------------------------------------------------
(***************************************************************************)
(* With a policy that remembers.  An encounter is open from its first      *)
(* event, queued or delivered, to the delivery of its end, and is timed    *)
(* until its end is queued; what has ended is gone from radio and policy,  *)
(* and its id is never handed out again; each is announced once, first.    *)
(***************************************************************************)
IsOpen(id) == told[id] \in EventTypes \ {"Ended"}

HasStarted(id) == told[id] \in {"Started", "Updated"}

OpenAreTimed ==
    pc # "crashed" => \A id \in DeviceID :
        IsOpen(id) \/ unconfirmed[id] > 0 \/ ToReport(id) => id \in Known \cup ended

EndedAreGone ==
    \A id \in DeviceID :
        /\ id \in ended \/ told[id] = "Ended" => id \notin Known \cup idToDevice
        /\ told[id] = "Ended" => unconfirmed[id] = 0 /\ ~ToReport(id) /\ id \notin ended

AnnouncedOnce ==
    \A id \in DeviceID :
        unconfirmed[id] \in {0, 1} /\ (unconfirmed[id] > 0 => told[id] = "none")

LifeInv == OpenAreTimed /\ EndedAreGone /\ AnnouncedOnce

LEMMA InitLifeInv == Init => LifeInv
  BY DEF Init, MapInit, LifeInv, OpenAreTimed, EndedAreGone, AnnouncedOnce,
         IsOpen, EventTypes, ToReport

\* A device the scan or the drain loop brings in is new, or was there.
LEMMA NewcomersAreUnused ==
    ASSUME IInv, EventsInv, NEW address \in Address, NEW id \in DeviceID,
           FindOrCreate(address, id), NEW d, UseDevice(id, d)
    PROVE  /\ idToDevice' = idToDevice \cup {id}
           /\ id \notin idToDevice =>
                told[id] = "none" /\ id \notin ended /\ ~ToReport(id)
  <1>1. /\ idToDevice' = idToDevice \cup {id}
        /\ id \notin idToDevice => id = nextDeviceID
    BY UsedDevice DEF IInv
  <1>2. nextDeviceID \in Nat
    BY MapAssumption DEF IInv, MapInv, MapTypeOK
  <1> QED BY <1>1, <1>2 DEF EventsInv, UnusedAreUnknown

LEMMA StepLifeInv ==
    ASSUME HasMemory, IInv, RoundInv, EventsInv, LifeInv, [Next]_vars
    PROVE  LifeInv'
  <1> USE DEF LifeInv, OpenAreTimed, EndedAreGone, AnnouncedOnce, IsOpen, ToReport, Known
  <1>0. /\ MapInv /\ RestTypeOK /\ HystTypeOK
        /\ idToDevice \subseteq DeviceID
        /\ told \in [DeviceID -> EventTypes \cup {"none"}]
        /\ unconfirmed \in [DeviceID -> Nat]
        /\ \A e \in updates : e.id \in DeviceID /\ e.type \in {"Started", "Updated"}
        /\ now \in Nat /\ discovered \in Seq([id : DeviceID, strong : BOOLEAN])
    BY DEF IInv, MapInv, RestTypeOK, MapTypeOK
  <1>1. ASSUME NEW p \in Phone, NEW strong \in BOOLEAN, ProcessScanResponse(p, strong)
        PROVE  LifeInv'
    <2>1. PICK id \in DeviceID :
            /\ FindOrCreate(air[p], id)
            /\ \E d : UseDevice(id, d)
      BY <1>1 DEF ProcessScanResponse
    <2>2. /\ idToDevice' = idToDevice \cup {id}
          /\ id \notin idToDevice => told[id] = "none" /\ id \notin ended
      BY <1>0, <2>1, NewcomersAreUnused DEF RestTypeOK
    <2> QED BY <1>1, <2>2 DEF ProcessScanResponse, eventVars
  <1>2. CASE DrainListenAdvert
    <2>1. PICK id \in DeviceID :
            /\ FindOrCreate(Head(listenAdverts), id)
            /\ \E d : UseDevice(id, d)
      BY <1>2 DEF DrainListenAdvert
    <2>2. Head(listenAdverts) \in Address
      BY <1>0, <1>2 DEF DrainListenAdvert, RestTypeOK
    <2>3. /\ idToDevice' = idToDevice \cup {id}
          /\ id \notin idToDevice => told[id] = "none" /\ id \notin ended
      BY <2>1, <2>2, NewcomersAreUnused
    <2> QED BY <1>2, <2>3 DEF DrainListenAdvert, eventVars, ghostVars
  <1>3. CASE HystDiscovered
    <2>1. /\ HeardIn(discovered) \subseteq idToDevice /\ ended = {} /\ updates = {}
      BY <1>3 DEF HystDiscovered, RoundInv, HeardAreHeld, EventsInv, QueuesFillInOrder
    <2>2. /\ UNCHANGED <<mapVars, updates, ended, told>> /\ pc # "crashed"
          /\ deviceInfo' = AfterDiscovered(discovered, now)
          /\ unconfirmed' = NewlyDiscovered(discovered)
      BY <1>3 DEF HystDiscovered, ghostVars
    <2>3. \A id \in DeviceID :
            AfterDiscovered(discovered, now)[id] # NULL <=>
              id \in Known \/ id \in HeardIn(discovered)
      <3> HIDE DEF Known, LifeInv, OpenAreTimed, EndedAreGone, AnnouncedOnce
      <3>1. ASSUME NEW id \in DeviceID, AfterDiscovered(discovered, now)[id] # NULL
            PROVE  id \in Known \/ id \in HeardIn(discovered)
        BY <1>0, <3>1, DiscoveredType
      <3>2. ASSUME NEW id \in DeviceID, id \in Known \/ id \in HeardIn(discovered)
            PROVE  AfterDiscovered(discovered, now)[id] # NULL
        BY <1>0, <3>2, StillEncountered
      <3> QED BY <3>1, <3>2
    <2>4. \A id \in DeviceID : NewlyDiscovered(discovered)[id] =
            IF id \in HeardIn(discovered) /\ id \notin Known THEN 1 ELSE 0
      BY NewlyHeard
    <2>5. \A id \in DeviceID :
            id \in HeardIn(discovered) /\ id \notin Known => told[id] = "none"
      BY <1>0, <2>1, <2>2 DEF EventTypes
    <2> HIDE DEF Known
    <2>6. Known' = Known \cup (HeardIn(discovered) \cap DeviceID)
      BY <2>2, <2>3 DEF Known
    <2>7. OpenAreTimed'
      BY <2>1, <2>2, <2>4, <2>6 DEF mapVars
    <2>8. EndedAreGone'
      BY <2>1, <2>2, <2>4, <2>6 DEF mapVars
    <2>9. AnnouncedOnce'
      BY <2>2, <2>4, <2>5
    <2> QED BY <2>7, <2>8, <2>9
  <1>4. CASE HystEncountered
    <2>1. PICK ids \in SUBSET idToDevice : deviceInfo' = AfterEncountered(ids, now)
      BY <1>4 DEF HystEncountered
    <2>2. \A id \in DeviceID : deviceInfo'[id] # NULL => id \in Known \/ id \in ids
      <3> HIDE DEF LifeInv, OpenAreTimed, EndedAreGone, AnnouncedOnce
      <3>1. ids \in SUBSET DeviceID
        BY <1>0, <2>1
      <3> QED BY <1>0, <2>1, <3>1, EncounteredType
    <2>3. \A id \in DeviceID : id \in Known => deviceInfo'[id] # NULL
      <3> HIDE DEF LifeInv, OpenAreTimed, EndedAreGone, AnnouncedOnce
      <3>1. ids \in SUBSET DeviceID
        BY <1>0, <2>1
      <3> QED BY <1>0, <2>1, <3>1, AllEncountered
    <2>4. UNCHANGED <<mapVars, eventVars, told>> /\ pc # "crashed"
      BY <1>4 DEF HystEncountered, ghostVars
    <2> QED BY <2>1, <2>2, <2>3, <2>4 DEF mapVars, eventVars
  <1>5. CASE ReportDevices
    <2>1. HeardIn(discovered) \subseteq idToDevice
      BY <1>5 DEF ReportDevices, RoundInv, HeardAreHeld
    <2>2. \A e \in updates' : /\ e.id \in HeardIn(discovered)
                              /\ device[e.id].shakenHands /\ device[e.id].confirmed
      BY <1>5 DEF ReportDevices, IsUpdated
    <2>3. /\ UNCHANGED <<idToDevice, deviceInfo, unconfirmed, ended, told>>
          /\ pc = "report"
      BY <1>5 DEF ReportDevices, ghostVars
    <2>4. \A e \in updates' : e.id \in idToDevice /\ e.id \in Known
      BY <2>1, <2>2, <2>3 DEF RoundInv, ConfirmedAreEncountered, Encountered
    <2> QED BY <2>3, <2>4
  <1>6. CASE ExpireDevices
    <2>1. /\ UNCHANGED <<told, unconfirmed, updates>> /\ pc = "expire"
          /\ ended' = Expired(now) /\ idToDevice' = idToDevice \ Expired(now)
          /\ deviceInfo' = Forget(Expired(now))
      BY <1>6 DEF ExpireDevices, RemoveDevices, ghostVars
    <2>2. Expired(now) \subseteq Known /\ ended = {}
      BY <2>1 DEF Expired, EventsInv, QueuesFillInOrder
    <2>3. \A id \in DeviceID :
            deviceInfo'[id] = IF id \in Expired(now) THEN NULL ELSE deviceInfo[id]
      BY <2>1 DEF Forget
    <2> QED BY <2>1, <2>2, <2>3
  <1>7. CASE ExpireUnknownDevice
    <2>1. UNCHANGED <<mapVars, eventVars, told>> /\ pc' = "crashed"
      BY <1>7 DEF ExpireUnknownDevice, ghostVars
    <2>2. \A id \in DeviceID : deviceInfo'[id] # NULL => id \in Known
      BY <1>7 DEF ExpireUnknownDevice, Forget
    <2> QED BY <2>1, <2>2 DEF mapVars, eventVars
  <1>8. ASSUME NEW id \in DeviceID, DeliverUnconfirmed(id) PROVE LifeInv'
    <2>1. /\ UNCHANGED <<pc, idToDevice, deviceInfo, updates, ended>>
          /\ unconfirmed' = [unconfirmed EXCEPT ![id] = @ - 1]
          /\ told' = [told EXCEPT ![id] = "UnconfirmedStarted"]
          /\ pc = "deliver" /\ unconfirmed[id] > 0
      BY <1>8 DEF DeliverUnconfirmed, UnconfirmedLeft, Tell, mapVars
    <2>2. unconfirmed[id] = 1
      BY <2>1
    <2>3. unconfirmed[id] - 1 = 0
      BY <2>2
    <2> HIDE DEF IsOpen, ToReport, Known
    <2>4. unconfirmed' = [unconfirmed EXCEPT ![id] = 0]
      BY <2>1, <2>3
    <2> USE DEF IsOpen, ToReport, Known
    <2> QED BY <1>0, <2>1, <2>2, <2>4 DEF EventTypes
  <1>9. ASSUME NEW id \in DeviceID, DeliverEnded(id) PROVE LifeInv'
    <2>1. /\ UNCHANGED <<pc, idToDevice, deviceInfo, updates, unconfirmed>>
          /\ id \in ended /\ ended' = ended \ {id} /\ updates = {}
          /\ \A i \in DeviceID : unconfirmed[i] = 0
          /\ told' = [told EXCEPT ![id] = "Ended"]
      BY <1>0, <1>9 DEF DeliverEnded, UnconfirmedLeft, Tell, mapVars
    <2> QED BY <1>0, <2>1 DEF EventTypes
  <1>10. ASSUME NEW e \in updates, DeliverUpdate(e) PROVE LifeInv'
    <2>1. /\ UNCHANGED <<pc, idToDevice, deviceInfo, ended, unconfirmed>>
          /\ updates' = updates \ {e} /\ pc = "deliver"
          /\ \A i \in DeviceID : unconfirmed[i] = 0
          /\ told' = [told EXCEPT ![e.id] = e.type]
          /\ e.id \in DeviceID /\ e.type \in {"Started", "Updated"}
      BY <1>0, <1>10 DEF DeliverUpdate, UnconfirmedLeft, Tell, mapVars
    <2> QED BY <1>0, <2>1 DEF EventTypes
  <1>11. CASE StartDiscover
    BY <1>11 DEF StartDiscover, Wake, ClearMap, mapVars, eventVars, ghostVars
  <1>12. CASE \/ GetNextAction \/ ChangeEpoch \/ FinishDiscover \/ FinishDrain
              \/ OutOfTime \/ FinishRound \/ \E id \in DeviceID : HandshakeWith(id)
    BY <1>12 DEF GetNextAction, ChangeEpoch, Wake, FinishDiscover, FinishDrain, OutOfTime,
                 FinishRound, HandshakeWith, mapVars, eventVars, ghostVars
  <1>13. CASE \/ \E p \in Phone : ShiftAddress(p) \/ Listen(p)
              \/ \E t \in ClockValues : SetClock(t)
    BY <1>13 DEF ShiftAddress, Listen, SetClock, mapVars, eventVars, ghostVars
  <1>14. CASE UNCHANGED vars
    BY <1>14 DEF vars, mapVars, eventVars, ghostVars
  <1> QED BY <1>1, <1>2, <1>3, <1>4, <1>5, <1>6, <1>7, <1>8, <1>9, <1>10, <1>11,
             <1>12, <1>13, <1>14 DEF Next, Controller, Environment

LEMMA LivesAreConsistent ==
    HystScheme = "Standard" => (Spec => [](IInv /\ RoundInv /\ EventsInv /\ LifeInv))
  <1> SUFFICES ASSUME HystScheme = "Standard"
               PROVE  Spec => [](IInv /\ RoundInv /\ EventsInv /\ LifeInv)
    OBVIOUS
  <1>1. HasMemory
    BY DEF HasMemory
  <1>2. IInv /\ RoundInv /\ EventsInv /\ LifeInv /\ [Next]_vars => LifeInv'
    BY <1>1, StepLifeInv
  <1> QED BY <1>2, InitLifeInv, EventsAreConsistent, PTL DEF Spec

(***************************************************************************)
(* An encounter the application was told of, and not told the end of, is   *)
(* timed whenever the controller sleeps: no encounter stays open for ever  *)
(* because the policy has lost it.                                         *)
(***************************************************************************)
THEOREM AnnouncedAreTimed ==
    HystScheme = "Standard" => (Spec => []AnnouncedIsTimed)
  <1> SUFFICES ASSUME HystScheme = "Standard" PROVE Spec => []AnnouncedIsTimed
    OBVIOUS
  <1>1. EventsInv /\ LifeInv => AnnouncedIsTimed
    BY DEF EventsInv, QueuesFillInOrder, LifeInv, OpenAreTimed, IsOpen, AnnouncedIsTimed
  <1> QED BY <1>1, LivesAreConsistent, PTL

-----------------------------------------------------------------------------
(***************************************************************************)
(* reported_ and what the application was told: a device is reported when  *)
(* its encounter has started, or is about to in this round; its next event *)
(* is an update just then.                                                 *)
(***************************************************************************)
ReportedHaveStarted ==
    \A id \in idToDevice :
        IF ToReport(id) THEN device[id].reported ELSE device[id].reported <=> HasStarted(id)

UpdatesHaveStarted == \A e \in updates : e.type = "Updated" <=> HasStarted(e.id)

ReportedInv == ReportedHaveStarted /\ UpdatesHaveStarted

LEMMA InitReportedInv == Init => ReportedInv
  BY DEF Init, MapInit, ReportedInv, ReportedHaveStarted, UpdatesHaveStarted

LEMMA StepReportedInv ==
    ASSUME IInv, RoundInv, EventsInv, LifeInv, ReportedInv, [Next]_vars
    PROVE  ReportedInv'
  <1> USE DEF ReportedInv, ReportedHaveStarted, UpdatesHaveStarted, ToReport, HasStarted
  <1>0. /\ MapInv /\ RestTypeOK /\ MapTypeOK
        /\ \A id \in idToDevice : id \in DeviceID /\ device[id] \in Device
        /\ told \in [DeviceID -> EventTypes \cup {"none"}]
        /\ \A e \in updates : e.id \in DeviceID /\ e.type \in {"Started", "Updated"}
    BY DEF IInv, MapInv, RestTypeOK, MapTypeOK, IndexesAgree
  <1>1. CASE ChangeEpoch
    <2>1. \A id \in idToDevice : device'[id].reported = device[id].reported
      BY <1>1, <1>0, EpochKeepsFlags DEF ChangeEpoch
    <2> QED BY <1>1, <2>1 DEF ChangeEpoch, eventVars, ghostVars
  <1>2. CASE StartDiscover
    BY <1>2 DEF StartDiscover, ClearMap, mapVars, eventVars, ghostVars
  <1>3. ASSUME NEW p \in Phone, NEW strong \in BOOLEAN, ProcessScanResponse(p, strong)
        PROVE  ReportedInv'
    <2>1. PICK id \in DeviceID :
            /\ FindOrCreate(air[p], id)
            /\ \E d \in ProcessAdvert(Resolved(air[p], id)) :
                 UseDevice(id, [d EXCEPT !.heard = TRUE])
      BY <1>3 DEF ProcessScanResponse
    <2>2. air[p] \in Address
      BY <1>0 DEF RestTypeOK
    <2>3. \A i \in idToDevice' :
            IF i \in idToDevice THEN device'[i].reported = device[i].reported
            ELSE ~device'[i].reported /\ told[i] = "none" /\ ~ToReport(i)
      BY <1>0, <2>1, <2>2, UsedDevice, UsedForScan, NewcomersAreUnused
    <2> QED BY <1>3, <2>3 DEF ProcessScanResponse, eventVars
  <1>4. CASE DrainListenAdvert
    <2>1. PICK id \in DeviceID :
            /\ FindOrCreate(Head(listenAdverts), id)
            /\ \E d \in ProcessActiveHandshake(Resolved(Head(listenAdverts), id)) :
                 UseDevice(id, [d EXCEPT !.shakenHands = TRUE])
      BY <1>4 DEF DrainListenAdvert
    <2>2. Head(listenAdverts) \in Address
      BY <1>0, <1>4 DEF DrainListenAdvert, RestTypeOK
    <2>3. \A i \in idToDevice' :
            IF i \in idToDevice THEN device'[i].reported = device[i].reported
            ELSE ~device'[i].reported /\ told[i] = "none" /\ ~ToReport(i)
      BY <1>0, <2>1, <2>2, UsedDevice, UsedForHandshake, NewcomersAreUnused
    <2> QED BY <1>4, <2>3 DEF DrainListenAdvert, eventVars, ghostVars
  <1>5. ASSUME NEW id \in DeviceID, HandshakeWith(id) PROVE ReportedInv'
    <2>1. PICK d \in ProcessActiveHandshake(device[id]) \cup {device[id]} : ShakeHands(id, d)
      BY <1>5 DEF HandshakeWith
    <2>2. id \in idToDevice /\ device[id] \in Device
      BY <1>0, <1>5 DEF HandshakeWith
    <2>3. [d EXCEPT !.shakenHands = TRUE].reported = device[id].reported
      BY <2>1, <2>2, HandshakeKeepsReported DEF ProcessActiveHandshake
    <2>4. \A i \in idToDevice : device'[i].reported = device[i].reported
      BY <1>0, <2>1, <2>3 DEF ShakeHands, MapTypeOK
    <2> QED BY <1>5, <2>4 DEF HandshakeWith, eventVars, ghostVars
  <1>6. CASE ReportDevices
    <2> DEFINE updated == {id \in HeardIn(discovered) \cap recentDevices :
                             IsUpdated(device[id], now, RSSIInterval)}
    <2>1. /\ updates' = {[id |-> id, type |-> EventType(device[id])] : id \in updated}
          /\ device' = [id \in DeviceID |->
                          IF id \in updated THEN Report(device[id], now) ELSE device[id]]
          /\ UNCHANGED <<idToDevice, told>> /\ pc = "report"
      BY <1>6 DEF ReportDevices, ghostVars
    <2>2. updates = {}
      BY <2>1 DEF EventsInv, QueuesFillInOrder
    <2>3. updated \subseteq idToDevice
      BY <2>1 DEF RoundInv, HeardAreHeld
    <2> HIDE DEF updated
    <2>4. \A id \in DeviceID : ToReport(id)' <=> id \in updated
      <3>1. \A e \in updates' : e.id \in updated
        BY <2>1
      <3>2. ASSUME NEW id \in updated PROVE \E e \in updates' : e.id = id
        <4> DEFINE e == [id |-> id, type |-> EventType(device[id])]
        <4>1. e \in updates' /\ e.id = id
          BY <2>1
        <4> QED BY <4>1
      <3> QED BY <3>1, <3>2
    <2>5. \A id \in updated : device'[id].reported
      BY <1>0, <2>1, <2>3, ReportFlags
    <2>6. \A id \in idToDevice \ updated : device'[id] = device[id]
      BY <1>0, <2>1
    <2>7. ReportedHaveStarted'
      BY <1>0, <2>1, <2>2, <2>4, <2>5, <2>6
    <2>8. UpdatesHaveStarted'
      <3>1. \A id \in updated : device[id].reported <=> HasStarted(id)
        BY <2>2, <2>3
      <3> QED BY <2>1, <3>1 DEF EventType
    <2> QED BY <2>7, <2>8
  <1>7. CASE ExpireDevices
    <2>1. /\ \A id \in idToDevice' : id \in idToDevice /\ device'[id] = device[id]
          /\ UNCHANGED <<told, updates>>
      BY <1>0, <1>7 DEF ExpireDevices, RemoveDevices, ghostVars
    <2> QED BY <2>1
  <1>8. ASSUME NEW id \in DeviceID, DeliverUnconfirmed(id) PROVE ReportedInv'
    <2>1. /\ told' = [told EXCEPT ![id] = "UnconfirmedStarted"]
          /\ UNCHANGED <<idToDevice, device, updates>>
          /\ unconfirmed[id] > 0
      BY <1>8 DEF DeliverUnconfirmed, UnconfirmedLeft, Tell, mapVars
    <2>2. told[id] = "none"
      BY <2>1 DEF LifeInv, AnnouncedOnce
    <2>3. \A i \in DeviceID : HasStarted(i)' <=> HasStarted(i)
      BY <1>0, <2>1, <2>2
    <2> QED BY <1>0, <2>1, <2>3
  <1>9. ASSUME NEW id \in DeviceID, DeliverEnded(id) PROVE ReportedInv'
    <2>1. /\ told' = [told EXCEPT ![id] = "Ended"] /\ updates = {}
          /\ UNCHANGED <<idToDevice, device, updates>>
          /\ id \notin idToDevice
      BY <1>9 DEF DeliverEnded, Tell, mapVars, LifeInv, EndedAreGone
    <2>2. \A i \in idToDevice : told'[i] = told[i]
      BY <1>0, <2>1
    <2> QED BY <2>1, <2>2
  <1>10. ASSUME NEW e \in updates, DeliverUpdate(e) PROVE ReportedInv'
    <2>1. /\ told' = [told EXCEPT ![e.id] = e.type] /\ updates' = updates \ {e}
          /\ UNCHANGED <<idToDevice, device>>
          /\ e.id \in DeviceID /\ e.type \in {"Started", "Updated"}
      BY <1>0, <1>10 DEF DeliverUpdate, Tell, mapVars
    <2>2. \A f \in updates' : f \in updates /\ f.id \in DeviceID /\ f.id # e.id
      BY <1>0, <2>1 DEF EventsInv, QueuesFillInOrder
    <2>3. /\ HasStarted(e.id)' /\ ~ToReport(e.id)'
          /\ \A i \in DeviceID \ {e.id} : /\ told'[i] = told[i]
                                          /\ ToReport(i)' <=> ToReport(i)
      BY <1>0, <2>1, <2>2
    <2>4. ReportedHaveStarted'
      BY <1>0, <2>1, <2>3
    <2>5. UpdatesHaveStarted'
      BY <2>2, <2>3
    <2> QED BY <2>4, <2>5
  <1>11. CASE \/ GetNextAction \/ FinishDiscover \/ HystDiscovered \/ FinishDrain
              \/ OutOfTime \/ HystEncountered \/ ExpireUnknownDevice \/ FinishRound
    BY <1>11 DEF GetNextAction, FinishDiscover, HystDiscovered, FinishDrain, OutOfTime,
                 HystEncountered, ExpireUnknownDevice, FinishRound, mapVars, eventVars, ghostVars
  <1>12. CASE \/ \E p \in Phone : ShiftAddress(p) \/ Listen(p)
              \/ \E t \in ClockValues : SetClock(t)
    BY <1>12 DEF ShiftAddress, Listen, SetClock, mapVars, eventVars, ghostVars
  <1>13. CASE UNCHANGED vars
    BY <1>13 DEF vars, mapVars, eventVars, ghostVars
  <1> QED BY <1>1, <1>2, <1>3, <1>4, <1>5, <1>6, <1>7, <1>8, <1>9, <1>10, <1>11,
             <1>12, <1>13 DEF Next, Controller, Environment

-----------------------------------------------------------------------------
(***************************************************************************)
(* Where nobody comes to us, every device is brought in by a scan: the     *)
(* policy knows it, or is about to, and what the policy times has been     *)
(* announced, or is about to be.                                           *)
(***************************************************************************)
OthersCome == Radio = "BT4" /\ UsesActive

HeldAreTimed ==
    /\ listenAdverts = <<>>
    /\ pc \notin {"scan", "hyst", "crashed"} => idToDevice \subseteq Known
    /\ pc \in {"scan", "hyst"} => idToDevice \subseteq Known \cup HeardIn(discovered)

TimedAreAnnounced ==
    \A id \in Known \cup ended : told[id] # "none" \/ unconfirmed[id] > 0

ScannedInv == HeldAreTimed /\ TimedAreAnnounced

LEMMA InitScannedInv == Init => ScannedInv
  BY DEF Init, MapInit, HystInit, ScannedInv, HeldAreTimed, TimedAreAnnounced, Known

\* A scan response adds its device to those heard, and loses none.
LEMMA HeardAfterAppend ==
    ASSUME NEW events \in Seq([id : DeviceID, strong : BOOLEAN]),
           NEW id \in DeviceID, NEW strong \in BOOLEAN
    PROVE  HeardIn(Append(events, [id |-> id, strong |-> strong]))
             = HeardIn(events) \cup {id}
  <1> DEFINE e == [id |-> id, strong |-> strong]
  <1>1. HeardIn(Append(events, e)) \subseteq HeardIn(events) \cup {id}
    BY HeardInAppend
  <1>2. /\ Len(events) \in Nat /\ DOMAIN events = 1 .. Len(events)
        /\ DOMAIN Append(events, e) = 1 .. Len(events) + 1
        /\ \A i \in DOMAIN events : Append(events, e)[i] = events[i]
        /\ Append(events, e)[Len(events) + 1] = e
    <2>1. ASSUME NEW S, NEW seq \in Seq(S), NEW x \in S
          PROVE  /\ Len(seq) \in Nat /\ DOMAIN seq = 1 .. Len(seq)
                 /\ DOMAIN Append(seq, x) = 1 .. Len(seq) + 1
                 /\ \A i \in DOMAIN seq : Append(seq, x)[i] = seq[i]
                 /\ Append(seq, x)[Len(seq) + 1] = x
      OBVIOUS
    <2>2. e \in [id : DeviceID, strong : BOOLEAN]
      OBVIOUS
    <2> QED BY <2>1, <2>2
  <1>3. e.id = id
    OBVIOUS
  <1> HIDE DEF e
  <1>4. \A i \in DOMAIN events : i \in DOMAIN Append(events, e)
    BY <1>2
  <1>5. Len(events) + 1 \in DOMAIN Append(events, e)
    BY <1>2
  <1>6. HeardIn(events) \cup {id} \subseteq HeardIn(Append(events, e))
    BY <1>2, <1>3, <1>4, <1>5 DEF HeardIn
  <1> QED BY <1>1, <1>6 DEF e

LEMMA StepScannedInv ==
    ASSUME HasMemory, ~OthersCome, IInv, RoundInv, EventsInv, LifeInv, ScannedInv,
           [Next]_vars
    PROVE  ScannedInv'
  <1> USE DEF ScannedInv, HeldAreTimed, TimedAreAnnounced
  <1>0. /\ MapInv /\ RestTypeOK /\ HystTypeOK
        /\ idToDevice \subseteq DeviceID
        /\ told \in [DeviceID -> EventTypes \cup {"none"}]
        /\ unconfirmed \in [DeviceID -> Nat]
        /\ \A e \in updates : e.id \in DeviceID /\ e.type \in {"Started", "Updated"}
        /\ now \in Nat /\ discovered \in Seq([id : DeviceID, strong : BOOLEAN])
    BY DEF IInv, MapInv, RestTypeOK, MapTypeOK
  <1>1. ASSUME NEW p \in Phone, NEW strong \in BOOLEAN, ProcessScanResponse(p, strong)
        PROVE  ScannedInv'
    <2>1. PICK id \in DeviceID :
            /\ FindOrCreate(air[p], id)
            /\ \E d : UseDevice(id, d)
            /\ discovered' = Append(discovered, [id |-> id, strong |-> strong])
      BY <1>1 DEF ProcessScanResponse
    <2>2. idToDevice' = idToDevice \cup {id}
      BY <1>0, <2>1, UsedDevice DEF RestTypeOK
    <2>3. HeardIn(discovered') = HeardIn(discovered) \cup {id}
      BY <1>0, <2>1, HeardAfterAppend
    <2>4. HeardIn(discovered)' = HeardIn(discovered') /\ Known' = Known
      BY <1>1 DEF HeardIn, ProcessScanResponse, Known
    <2>5. /\ pc' = "scan" /\ pc = "scan"
          /\ UNCHANGED <<listenAdverts, ended, told, unconfirmed>>
      BY <1>1 DEF ProcessScanResponse, eventVars
    <2> QED BY <2>2, <2>3, <2>4, <2>5
  <1>2. CASE DrainListenAdvert
    BY <1>2 DEF DrainListenAdvert
  <1>3. CASE HystDiscovered
    <2>1. /\ UNCHANGED <<idToDevice, ended, told, listenAdverts>>
          /\ pc = "hyst" /\ pc' = "drain"
          /\ deviceInfo' = AfterDiscovered(discovered, now)
          /\ unconfirmed' = NewlyDiscovered(discovered)
      BY <1>3 DEF HystDiscovered, mapVars, ghostVars
    <2>2. ended = {} /\ \A id \in DeviceID : ~(unconfirmed[id] > 0)
      BY <2>1 DEF EventsInv, QueuesFillInOrder, UnconfirmedLeft
    <2>3. Known' = Known \cup (HeardIn(discovered) \cap DeviceID)
      <3>1. ASSUME NEW id \in DeviceID, AfterDiscovered(discovered, now)[id] # NULL
            PROVE  id \in Known \/ id \in HeardIn(discovered)
        BY <1>0, <3>1, DiscoveredType
      <3>2. ASSUME NEW id \in DeviceID, id \in Known \/ id \in HeardIn(discovered)
            PROVE  AfterDiscovered(discovered, now)[id] # NULL
        BY <1>0, <3>2, StillEncountered
      <3> QED BY <2>1, <3>1, <3>2 DEF Known
    <2>4. \A id \in DeviceID : NewlyDiscovered(discovered)[id] =
            IF id \in HeardIn(discovered) /\ id \notin Known THEN 1 ELSE 0
      BY NewlyHeard
    <2>5. HeldAreTimed'
      BY <1>0, <2>1, <2>3
    <2>6. TimedAreAnnounced'
      <3>1. Known \subseteq DeviceID
        BY DEF Known
      <3> QED BY <2>1, <2>2, <2>3, <2>4, <3>1
    <2> QED BY <2>5, <2>6
  <1>4. CASE HystEncountered
    <2>1. PICK ids \in SUBSET idToDevice : deviceInfo' = AfterEncountered(ids, now)
      BY <1>4 DEF HystEncountered
    <2>2. /\ UNCHANGED <<idToDevice, eventVars, told, listenAdverts>>
          /\ pc = "connect" /\ pc' = "report"
      BY <1>4 DEF HystEncountered, mapVars, ghostVars
    <2>3. ids \in SUBSET DeviceID /\ ids \subseteq Known
      BY <1>0, <2>1, <2>2
    <2>4. Known' = Known
      <3>1. \A id \in DeviceID : deviceInfo'[id] # NULL => id \in Known \/ id \in ids
        BY <1>0, <2>1, <2>3, EncounteredType
      <3>2. \A id \in DeviceID : id \in Known => deviceInfo'[id] # NULL
        BY <1>0, <2>1, <2>3, AllEncountered DEF Known
      <3> QED BY <2>3, <3>1, <3>2 DEF Known
    <2> QED BY <2>2, <2>4 DEF eventVars
  <1>5. CASE ExpireDevices
    <2>1. /\ UNCHANGED <<told, unconfirmed, listenAdverts>>
          /\ pc = "expire" /\ pc' = "deliver"
          /\ ended' = Expired(now) /\ idToDevice' = idToDevice \ Expired(now)
          /\ deviceInfo' = Forget(Expired(now))
      BY <1>5 DEF ExpireDevices, RemoveDevices, ghostVars
    <2>2. Expired(now) \subseteq Known
      BY DEF Expired
    <2>3. Known' = Known \ Expired(now)
      BY <2>1 DEF Forget, Known
    <2> QED BY <2>1, <2>2, <2>3
  <1>6. CASE ExpireUnknownDevice
    <2>1. /\ UNCHANGED <<eventVars, told, listenAdverts>> /\ pc' = "crashed"
      BY <1>6 DEF ExpireUnknownDevice, ghostVars
    <2>2. Known' \subseteq Known
      BY <1>6 DEF ExpireUnknownDevice, Forget, Known
    <2> QED BY <2>1, <2>2 DEF eventVars
  <1>7. ASSUME NEW id \in DeviceID, DeliverUnconfirmed(id) PROVE ScannedInv'
    <2>1. /\ UNCHANGED <<pc, idToDevice, deviceInfo, ended, listenAdverts>>
          /\ unconfirmed' = [unconfirmed EXCEPT ![id] = @ - 1]
          /\ told' = [told EXCEPT ![id] = "UnconfirmedStarted"]
          /\ pc = "deliver"
      BY <1>7 DEF DeliverUnconfirmed, Tell, mapVars
    <2>2. \A i \in DeviceID : told'[i] # "none" \/ (told'[i] = told[i] /\ unconfirmed'[i] = unconfirmed[i])
      BY <1>0, <2>1
    <2>3. Known' = Known /\ Known \subseteq DeviceID /\ ended \subseteq DeviceID
      BY <1>0, <2>1 DEF Known, RestTypeOK
    <2> QED BY <2>1, <2>2, <2>3
  <1>8. ASSUME NEW id \in DeviceID, DeliverEnded(id) PROVE ScannedInv'
    <2>1. /\ UNCHANGED <<pc, idToDevice, deviceInfo, unconfirmed, listenAdverts>>
          /\ told' = [told EXCEPT ![id] = "Ended"] /\ ended' = ended \ {id}
          /\ pc = "deliver"
      BY <1>8 DEF DeliverEnded, Tell, mapVars
    <2>2. \A i \in DeviceID : told'[i] # "none" \/ told'[i] = told[i]
      BY <1>0, <2>1
    <2>3. Known' = Known /\ Known \subseteq DeviceID /\ ended \subseteq DeviceID
      BY <1>0, <2>1 DEF Known, RestTypeOK
    <2> QED BY <2>1, <2>2, <2>3
  <1>9. ASSUME NEW e \in updates, DeliverUpdate(e) PROVE ScannedInv'
    <2>1. /\ UNCHANGED <<pc, idToDevice, deviceInfo, unconfirmed, ended, listenAdverts>>
          /\ told' = [told EXCEPT ![e.id] = e.type] /\ pc = "deliver"
      BY <1>9 DEF DeliverUpdate, Tell, mapVars
    <2>2. \A i \in DeviceID : told'[i] # "none" \/ told'[i] = told[i]
      BY <1>0, <2>1
    <2>3. Known' = Known /\ Known \subseteq DeviceID /\ ended \subseteq DeviceID
      BY <1>0, <2>1 DEF Known, RestTypeOK
    <2> QED BY <2>1, <2>2, <2>3
  <1>10. CASE StartDiscover
    BY <1>10 DEF StartDiscover, Wake, ClearMap, mapVars, eventVars, ghostVars, Known
  <1>11. CASE \/ GetNextAction \/ ChangeEpoch \/ FinishDiscover \/ FinishDrain
              \/ OutOfTime \/ ReportDevices \/ FinishRound \/ \E id \in DeviceID : HandshakeWith(id)
    BY <1>11 DEF GetNextAction, ChangeEpoch, Wake, FinishDiscover, FinishDrain, OutOfTime,
                 FinishRound, ReportDevices, HandshakeWith, mapVars, eventVars, ghostVars, Known, HeardIn
  <1>12. CASE \/ \E p \in Phone : ShiftAddress(p) \/ Listen(p)
              \/ \E t \in ClockValues : SetClock(t)
    BY <1>12 DEF ShiftAddress, Listen, OthersCome, SetClock, mapVars, eventVars, ghostVars,
                 Known, HeardIn
  <1>13. CASE UNCHANGED vars
    BY <1>13 DEF vars, mapVars, eventVars, ghostVars, Known, HeardIn
  <1> QED BY <1>1, <1>2, <1>3, <1>4, <1>5, <1>6, <1>7, <1>8, <1>9, <1>10, <1>11,
             <1>12, <1>13 DEF Next, Controller, Environment

LEMMA ScansBringThemIn ==
    HystScheme = "Standard" /\ ~OthersCome => (Spec => []ScannedInv)
  <1> SUFFICES ASSUME HystScheme = "Standard", ~OthersCome PROVE Spec => []ScannedInv
    OBVIOUS
  <1>1. HasMemory
    BY DEF HasMemory
  <1>2. IInv /\ RoundInv /\ EventsInv /\ LifeInv /\ ScannedInv /\ [Next]_vars => ScannedInv'
    BY <1>1, StepScannedInv
  <1> QED BY <1>2, InitScannedInv, LivesAreConsistent, PTL DEF Spec

(***************************************************************************)
(* Between rounds every device the radio holds is timed by the policy, so  *)
(* that checkExpired will one day make the radio let go of it.  A device   *)
(* that came to us and was refused is the exception the Active run shows.  *)
(***************************************************************************)
THEOREM HeldDevicesAreTimed ==
    HystScheme = "Standard" /\ ~OthersCome => (Spec => []EveryDeviceIsTimed)
  <1> SUFFICES ASSUME HystScheme = "Standard", ~OthersCome
               PROVE  Spec => []EveryDeviceIsTimed
    OBVIOUS
  <1>1. ScannedInv => EveryDeviceIsTimed
    BY DEF ScannedInv, HeldAreTimed, EveryDeviceIsTimed
  <1> QED BY <1>1, ScansBringThemIn, PTL

-----------------------------------------------------------------------------
(***************************************************************************)
(* The events of every id come in the order EncounterLifecycle promises.   *)
(* Delivering one is a step of it; nothing else tells the application.     *)
(***************************************************************************)
LEMMA StepIsLifecycle ==
    ASSUME IInv, EventsInv, LifeInv, ReportedInv, ~OthersCome => ScannedInv, [Next]_vars
    PROVE  [Lifecycle!Next]_told
  <1>0. \A e \in updates : e.id \in DeviceID /\ e.type \in {"Started", "Updated"}
    BY DEF IInv, RestTypeOK
  <1>1. \A id \in DeviceID : told[id] \in EventTypes \cup {"none"}
    BY DEF IInv, RestTypeOK
  <1>2. ASSUME NEW id \in DeviceID, DeliverUnconfirmed(id) PROVE Lifecycle!Announce(id)
    <2>1. told[id] = "none"
      BY <1>2 DEF DeliverUnconfirmed, UnconfirmedLeft, LifeInv, AnnouncedOnce
    <2> QED BY <1>2, <2>1 DEF DeliverUnconfirmed, Tell, Lifecycle!Announce, Lifecycle!Tell
  <1>3. ASSUME NEW e \in updates, DeliverUpdate(e)
        PROVE  Lifecycle!Start(e.id) \/ Lifecycle!Update(e.id)
    <2>1. told[e.id] # "Ended"
      BY <1>0 DEF LifeInv, EndedAreGone, ToReport
    <2>2. ~OthersCome => told[e.id] # "none"
      <3>1. e.id \in Known \cup ended
        BY <1>0, <1>3 DEF DeliverUpdate, LifeInv, OpenAreTimed, ToReport
      <3>2. ~(unconfirmed[e.id] > 0)
        BY <1>0, <1>3 DEF DeliverUpdate, UnconfirmedLeft
      <3> QED BY <3>1, <3>2 DEF ScannedInv, TimedAreAnnounced
    <2>3. CASE e.type = "Started"
      <3>1. ~HasStarted(e.id)
        BY <2>3 DEF ReportedInv, UpdatesHaveStarted
      <3>2. told[e.id] \in Lifecycle!NotStarted
        BY <1>0, <1>1, <2>1, <2>2, <3>1
           DEF HasStarted, EventTypes, Lifecycle!NotStarted, OthersCome
      <3> QED BY <1>3, <2>3, <3>2 DEF DeliverUpdate, Tell, Lifecycle!Start, Lifecycle!Tell
    <2>4. CASE e.type = "Updated"
      <3>1. HasStarted(e.id)
        BY <2>4 DEF ReportedInv, UpdatesHaveStarted
      <3> QED BY <1>3, <2>4, <3>1
              DEF DeliverUpdate, Tell, HasStarted, Lifecycle!Update, Lifecycle!Tell
    <2> QED BY <1>0, <2>3, <2>4
  <1>4. ASSUME NEW id \in DeviceID, DeliverEnded(id) PROVE Lifecycle!End(id)
    <2>1. told[id] # "Ended"
      BY <1>4 DEF DeliverEnded, LifeInv, EndedAreGone
    <2>2. ~OthersCome => told[id] # "none"
      <3>1. ~(unconfirmed[id] > 0) /\ id \in ended
        BY <1>4 DEF DeliverEnded, UnconfirmedLeft
      <3> QED BY <3>1 DEF ScannedInv, TimedAreAnnounced
    <2>3. told[id] \in Lifecycle!Open
      BY <1>1, <2>1, <2>2 DEF EventTypes, Lifecycle!Open, Lifecycle!NotStarted, OthersCome
    <2> QED BY <1>4, <2>3 DEF DeliverEnded, Tell, Lifecycle!End, Lifecycle!Tell
  <1>5. CASE \/ GetNextAction \/ ChangeEpoch \/ StartDiscover \/ FinishDiscover
             \/ HystDiscovered \/ DrainListenAdvert \/ FinishDrain \/ OutOfTime \/ HystEncountered
             \/ ReportDevices \/ ExpireDevices \/ ExpireUnknownDevice \/ FinishRound
             \/ \E id \in DeviceID : HandshakeWith(id)
    BY <1>5 DEF GetNextAction, ChangeEpoch, StartDiscover, FinishDiscover,
                HystDiscovered, DrainListenAdvert, FinishDrain, OutOfTime, HystEncountered, ReportDevices,
                ExpireDevices, ExpireUnknownDevice, FinishRound, HandshakeWith, ghostVars
  <1>6. CASE Environment
    BY <1>6 DEF Environment, ProcessScanResponse, ShiftAddress, Listen, SetClock, ghostVars
  <1>7. CASE UNCHANGED vars
    BY <1>7 DEF vars, ghostVars
  <1> QED BY <1>0, <1>2, <1>3, <1>4, <1>5, <1>6, <1>7 DEF Next, Controller, Lifecycle!Next

(***************************************************************************)
(* With a policy that remembers, the controller implements the encounter   *)
(* life cycle: each id is announced, started, updated and ended in order,  *)
(* and is silent once ended, whatever the radio and the clock do.          *)
(***************************************************************************)
THEOREM ImplementsLifecycle == HystScheme = "Standard" => (Spec => KeepsLifecycle)
  <1> SUFFICES ASSUME HystScheme = "Standard" PROVE Spec => KeepsLifecycle
    OBVIOUS
  <1>1. Init => Lifecycle!Init
    BY DEF Init, Lifecycle!Init
  <1>2. IInv /\ RoundInv /\ EventsInv /\ LifeInv /\ ReportedInv /\ [Next]_vars => ReportedInv'
    BY StepReportedInv
  <1>3. Spec => []ReportedInv
    BY <1>2, InitReportedInv, LivesAreConsistent, PTL DEF Spec
  <1>4. CASE OthersCome
    <2>1. IInv /\ EventsInv /\ LifeInv /\ ReportedInv /\ [Next]_vars => [Lifecycle!Next]_told
      BY <1>4, StepIsLifecycle
    <2> QED BY <1>1, <1>3, <2>1, LivesAreConsistent, PTL
            DEF Spec, KeepsLifecycle, Lifecycle!Spec
  <1>5. CASE ~OthersCome
    <2>1. IInv /\ EventsInv /\ LifeInv /\ ReportedInv /\ ScannedInv /\ [Next]_vars
            => [Lifecycle!Next]_told
      BY StepIsLifecycle
    <2>2. Spec => []ScannedInv
      BY <1>5, ScansBringThemIn
    <2> QED BY <1>1, <1>3, <2>1, <2>2, LivesAreConsistent, PTL
            DEF Spec, KeepsLifecycle, Lifecycle!Spec
  <1> QED BY <1>4, <1>5

-----------------------------------------------------------------------------
(***************************************************************************)
(* Times, until somebody sets the clock: an entry's times are past and in  *)
(* order, and a device was last heard no later than its lastTime, but for  *)
(* those of a scan that discovered() has not seen yet.                     *)
(***************************************************************************)
TimesArePast ==
    /\ \A id \in DeviceID : lastHeard[id] <= now
    /\ \A id \in Known : /\ deviceInfo[id].firstTime <= deviceInfo[id].lastTime
                         /\ deviceInfo[id].lastTime <= now

HeardBefore ==
    \A id \in Known :
        \/ lastHeard[id] <= deviceInfo[id].lastTime
        \/ pc \in {"scan", "hyst"} /\ id \in HeardIn(discovered)

TimeInv == TimesArePast /\ HeardBefore

TimeInvUntilSet == clockSets = 0 => TimeInv

LEMMA InitTimeInv == Init => TimeInvUntilSet
  BY ControllerAssumption
     DEF Init, HystInit, TimeInvUntilSet, TimeInv, TimesArePast, HeardBefore, Known

\* A clock that has not been set by the end of a step was not set before it.
LEMMA NotSetBefore ==
    ASSUME IInv, [Next]_vars, clockSets' = 0
    PROVE  clockSets = 0 /\ ~ \E t \in ClockValues : SetClock(t)
  <1>0. clockSets \in Nat
    BY DEF IInv, RestTypeOK
  <1>1. CASE \E t \in ClockValues : SetClock(t)
    BY <1>0, <1>1 DEF SetClock
  <1>2. ASSUME \/ GetNextAction \/ ChangeEpoch \/ StartDiscover \/ FinishDiscover
               \/ HystDiscovered \/ DrainListenAdvert \/ FinishDrain \/ OutOfTime
               \/ HystEncountered \/ ReportDevices \/ ExpireDevices
               \/ ExpireUnknownDevice \/ FinishRound
               \/ \E id \in DeviceID : HandshakeWith(id)
        PROVE  clockSets' = clockSets
    BY <1>2 DEF GetNextAction, ChangeEpoch, StartDiscover, FinishDiscover, HystDiscovered,
                DrainListenAdvert, FinishDrain, OutOfTime, HystEncountered, ReportDevices,
                ExpireDevices, ExpireUnknownDevice, FinishRound, HandshakeWith, schedVars
  <1>3. ASSUME \/ \E id \in DeviceID : DeliverUnconfirmed(id) \/ DeliverEnded(id)
               \/ \E e \in updates : DeliverUpdate(e)
               \/ \E p \in Phone, strong \in BOOLEAN : ProcessScanResponse(p, strong)
               \/ \E p \in Phone : ShiftAddress(p) \/ Listen(p)
        PROVE  clockSets' = clockSets
    BY <1>3 DEF DeliverUnconfirmed, DeliverEnded, DeliverUpdate, ProcessScanResponse,
                ShiftAddress, Listen, schedVars
  <1>4. ASSUME UNCHANGED vars PROVE clockSets' = clockSets
    BY <1>4 DEF vars, schedVars
  <1>5. clockSets' = clockSets \/ \E t \in ClockValues : SetClock(t)
    BY <1>2, <1>3, <1>4 DEF Next, Controller, Environment
  <1> QED BY <1>1, <1>5

(***************************************************************************)
(* What discovered() makes of an entry whose times are past: its last time *)
(* is now, its first stays, its count does not fall, and it is encountered *)
(* only if it was, or if the entry has become stable.                      *)
(***************************************************************************)
LEMMA InfoOfHeard ==
    ASSUME HasMemory, HystTypeOK, NEW time \in Nat,
           NEW events \in Seq([id : DeviceID, strong : BOOLEAN]),
           NEW id \in DeviceID,
           id \in Known => deviceInfo[id].firstTime <= time
    PROVE  LET info == AfterDiscovered(events, time)[id]
           IN  IF id \in HeardIn(events)
               THEN /\ info \in DeviceInfo
                    /\ info.lastTime = time /\ info.firstTime <= time
                    /\ id \in Known => /\ info.firstTime = deviceInfo[id].firstTime
                                       /\ info.seen >= deviceInfo[id].seen
                    /\ info.state = "Encountered" =>
                         \/ Encountered(id)
                         \/ /\ info.seen >= StartSeen
                            /\ info.lastTime - info.firstTime >= MinStartTime
               ELSE info = deviceInfo[id]
  <1> DEFINE old  == IF deviceInfo[id] = NULL THEN NewInfo("Discovered", time)
                                              ELSE deviceInfo[id]
             info == [old EXCEPT !.lastTime = time, !.seen = @ + StrongIn(events, id)]
  <1>1. /\ old \in DeviceInfo /\ old.firstTime <= time
        /\ id \in Known => old = deviceInfo[id]
        /\ id \notin Known => old.state = "Discovered"
    <2>1. CASE id \in Known
      BY <2>1 DEF HystTypeOK, Known
    <2>2. CASE id \notin Known
      <3>1. old = NewInfo("Discovered", time)
        BY <2>2 DEF Known
      <3> HIDE DEF old
      <3> QED BY <2>2, <3>1, NewInfoType DEF NewInfo
    <2> QED BY <2>1, <2>2
  <1>2. StrongIn(events, id) \in Nat
    BY CountsAreNat
  <1>3. /\ info \in DeviceInfo /\ info.lastTime = time /\ info.state = old.state
        /\ info.firstTime = old.firstTime /\ info.seen >= old.seen
    <2>1. ASSUME NEW o \in DeviceInfo, NEW n \in Nat
          PROVE  /\ [o EXCEPT !.lastTime = time, !.seen = @ + n] \in DeviceInfo
                 /\ [o EXCEPT !.lastTime = time, !.seen = @ + n].lastTime = time
                 /\ [o EXCEPT !.lastTime = time, !.seen = @ + n].state = o.state
                 /\ [o EXCEPT !.lastTime = time, !.seen = @ + n].firstTime = o.firstTime
                 /\ [o EXCEPT !.lastTime = time, !.seen = @ + n].seen >= o.seen
      <3>1. o.seen + n \in Nat /\ o.seen + n >= o.seen
        BY DEF DeviceInfo
      <3> QED BY <3>1 DEF DeviceInfo
    <2> HIDE DEF old
    <2>2. old \in DeviceInfo
      BY <1>1
    <2> QED BY ONLY <1>2, <2>1, <2>2
  <1> HIDE DEF old, info
  <1>4. InfoAfter(events, id, time) =
          IF IsStable(info, time) THEN [info EXCEPT !.state = "Encountered"] ELSE info
    BY DEF InfoAfter, old, info
  <1>5. /\ InfoAfter(events, id, time) \in DeviceInfo
        /\ InfoAfter(events, id, time).lastTime = time
        /\ InfoAfter(events, id, time).firstTime = old.firstTime
        /\ InfoAfter(events, id, time).seen >= old.seen
        /\ InfoAfter(events, id, time).seen = info.seen
        /\ InfoAfter(events, id, time).state = "Encountered" =>
             old.state = "Encountered" \/ IsStable(info, time)
    BY <1>3, <1>4 DEF DeviceInfo
  <1>6. IsStable(info, time) =>
          info.seen >= StartSeen /\ time - old.firstTime >= MinStartTime
    BY <1>1, <1>3 DEF IsStable, Elapsed, DeviceInfo
  <1>7. AfterDiscovered(events, time)[id] =
          IF id \in HeardIn(events) THEN InfoAfter(events, id, time) ELSE deviceInfo[id]
    BY DEF AfterDiscovered
  <1>8. old.state = "Encountered" => Encountered(id)
    BY <1>1 DEF Encountered
  <1> QED BY <1>1, <1>5, <1>6, <1>7, <1>8

LEMMA StepTimeInv ==
    ASSUME HasMemory, IInv, TimeInv, [Next]_vars, clockSets' = 0
    PROVE  TimeInv'
  <1> USE DEF TimeInv, TimesArePast, HeardBefore
  <1>0. /\ MapInv /\ RestTypeOK /\ HystTypeOK
        /\ idToDevice \subseteq DeviceID /\ Known \subseteq DeviceID
        /\ now \in Nat /\ discovered \in Seq([id : DeviceID, strong : BOOLEAN])
        /\ timeUntil \in Nat
        /\ lastHeard \in [DeviceID -> Nat]
        /\ \A id \in Known : deviceInfo[id] \in DeviceInfo
    BY DEF IInv, MapInv, RestTypeOK, MapTypeOK, HystTypeOK, Known
  <1>1. ASSUME UNCHANGED <<deviceInfo, lastHeard>>, now' \in Nat, now <= now',
               \A id \in Known : pc \in {"scan", "hyst"} /\ id \in HeardIn(discovered) =>
                  pc' \in {"scan", "hyst"} /\ id \in HeardIn(discovered')
        PROVE  TimeInv'
    <2>1. Known' = Known /\ HeardIn(discovered)' = HeardIn(discovered')
      BY <1>1 DEF Known, HeardIn
    <2>2. TimesArePast'
      BY <1>0, <1>1, <2>1 DEF DeviceInfo
    <2>3. HeardBefore'
      BY <1>0, <1>1, <2>1
    <2> QED BY <1>1, <2>2, <2>3
  <1>2. CASE ChangeEpoch
    <2>1. now' \in Nat /\ now <= now'
      BY <1>0, <1>2 DEF ChangeEpoch, Wake
    <2>2. UNCHANGED <<deviceInfo, lastHeard>> /\ pc = "sleep"
      BY <1>2 DEF ChangeEpoch, Wake, ghostVars
    <2> QED BY <1>1, <2>1, <2>2
  <1>3. CASE StartDiscover
    <2>1. now' \in Nat /\ now <= now' /\ pc = "sleep"
      BY <1>0, <1>3 DEF StartDiscover, Wake
    <2> QED BY <1>1, <1>3, <2>1 DEF StartDiscover, ghostVars
  <1>4. ASSUME NEW p \in Phone, NEW strong \in BOOLEAN, ProcessScanResponse(p, strong)
        PROVE  TimeInv'
    <2>1. PICK id \in DeviceID :
            /\ discovered' = Append(discovered, [id |-> id, strong |-> strong])
            /\ lastHeard' = [lastHeard EXCEPT ![id] = now]
      BY <1>4 DEF ProcessScanResponse
    <2>2. /\ UNCHANGED <<deviceInfo, now>> /\ pc = "scan" /\ pc' = "scan"
      BY <1>4 DEF ProcessScanResponse, schedVars
    <2>3. HeardIn(discovered') = HeardIn(discovered) \cup {id}
      BY <1>0, <2>1, HeardAfterAppend
    <2>4. HeardIn(discovered)' = HeardIn(discovered') /\ Known' = Known
      BY <2>2 DEF HeardIn, Known
    <2> QED BY <1>0, <2>1, <2>2, <2>3, <2>4
  <1>5. CASE FinishDiscover
    <2>1. now' \in Nat /\ now <= now'
      BY <1>0, <1>5, ConstantsAreNat DEF FinishDiscover
    <2> QED BY <1>1, <1>5, <2>1 DEF FinishDiscover, ghostVars
  <1>6. CASE HystDiscovered
    <2>1. /\ UNCHANGED <<now, lastHeard>>
          /\ deviceInfo' = AfterDiscovered(discovered, now)
      BY <1>6 DEF HystDiscovered, schedVars, ghostVars
    <2>2. \A id \in Known : deviceInfo[id].firstTime <= now
      BY <1>0 DEF DeviceInfo
    <2>3. ASSUME NEW id \in Known'
          PROVE  /\ deviceInfo'[id].firstTime <= deviceInfo'[id].lastTime
                 /\ deviceInfo'[id].lastTime <= now
                 /\ lastHeard[id] <= deviceInfo'[id].lastTime
      <3>0. id \in DeviceID
        BY DEF Known
      <3>1. CASE id \in HeardIn(discovered)
        <4>1. /\ deviceInfo'[id].lastTime = now /\ deviceInfo'[id].firstTime <= now
          <5> HIDE DEF TimeInv, TimesArePast, HeardBefore
          <5> QED BY <1>0, <2>1, <2>2, <3>0, <3>1, InfoOfHeard
        <4> QED BY <1>0, <3>0, <4>1
      <3>2. CASE id \notin HeardIn(discovered)
        <4>1. deviceInfo'[id] = deviceInfo[id]
          BY <2>1, <3>0, <3>2 DEF AfterDiscovered
        <4>2. id \in Known
          BY <3>0, <4>1 DEF Known
        <4> QED BY <3>2, <4>1, <4>2
      <3> QED BY <3>1, <3>2
    <2> QED BY <1>0, <2>1, <2>3
  <1>7. CASE HystEncountered
    <2>1. PICK ids \in SUBSET idToDevice : deviceInfo' = AfterEncountered(ids, now)
      BY <1>7 DEF HystEncountered
    <2>2. UNCHANGED <<now, lastHeard>> /\ pc = "connect"
      BY <1>7 DEF HystEncountered, schedVars, ghostVars
    <2>3. ASSUME NEW id \in Known'
          PROVE  /\ deviceInfo'[id].firstTime <= deviceInfo'[id].lastTime
                 /\ deviceInfo'[id].lastTime <= now
                 /\ lastHeard[id] <= deviceInfo'[id].lastTime
      <3>0. id \in DeviceID
        BY DEF Known
      <3>1. CASE id \in Known
        <4>1. /\ deviceInfo'[id].firstTime = deviceInfo[id].firstTime
              /\ deviceInfo'[id].lastTime = deviceInfo[id].lastTime
          BY <1>0, <2>1, <3>0, <3>1 DEF AfterEncountered, DeviceInfo
        <4> QED BY <2>2, <3>1, <4>1
      <3>2. CASE id \notin Known
        <4>1. id \in ids
          BY <2>1, <3>0, <3>2 DEF AfterEncountered, Known
        <4>2. deviceInfo'[id] = NewInfo("Encountered", now)
          BY <2>1, <3>0, <3>2, <4>1 DEF AfterEncountered
        <4> QED BY <1>0, <3>0, <4>2 DEF NewInfo
      <3> QED BY <3>1, <3>2
    <2>4. TimesArePast'
      BY <2>2, <2>3
    <2> QED BY <1>0, <2>2, <2>3, <2>4
  <1>8. ASSUME NEW id \in DeviceID, HandshakeWith(id) PROVE TimeInv'
    <2>1. now' \in Nat /\ now <= now'
      BY <1>0, <1>8, ConstantsAreNat DEF HandshakeWith
    <2> QED BY <1>1, <1>8, <2>1 DEF HandshakeWith, ghostVars
  <1>9. CASE ExpireDevices \/ ExpireUnknownDevice
    <2>1. UNCHANGED <<now, lastHeard>> /\ pc = "expire"
      BY <1>9 DEF ExpireDevices, ExpireUnknownDevice, schedVars, ghostVars
    <2>2. \A id \in Known' : id \in Known /\ deviceInfo'[id] = deviceInfo[id]
      BY <1>9 DEF ExpireDevices, ExpireUnknownDevice, Forget, Known
    <2>3. TimesArePast'
      BY <2>1, <2>2
    <2>4. HeardBefore'
      BY <2>1, <2>2
    <2> QED BY <1>0, <2>1, <2>3, <2>4
  <1>10. CASE \/ GetNextAction \/ DrainListenAdvert \/ FinishDrain \/ OutOfTime
              \/ ReportDevices \/ FinishRound
              \/ \E id \in DeviceID : DeliverUnconfirmed(id) \/ DeliverEnded(id)
              \/ \E e \in updates : DeliverUpdate(e)
    <2>1. /\ UNCHANGED <<now, deviceInfo, lastHeard>> /\ pc \notin {"scan", "hyst"}
      BY <1>10 DEF GetNextAction, DrainListenAdvert, FinishDrain, OutOfTime, ReportDevices,
                   FinishRound, DeliverUnconfirmed, DeliverEnded, DeliverUpdate, schedVars, ghostVars
    <2> QED BY <1>0, <1>1, <2>1
  <1>11. CASE \E p \in Phone : ShiftAddress(p) \/ Listen(p)
    <2>1. UNCHANGED <<pc, now, deviceInfo, lastHeard, discovered>>
      BY <1>11 DEF ShiftAddress, Listen, schedVars, ghostVars
    <2> QED BY <1>0, <1>1, <2>1
  <1>12. CASE \E t \in ClockValues : SetClock(t)
    BY <1>12, NotSetBefore
  <1>13. CASE UNCHANGED vars
    <2>1. UNCHANGED <<pc, now, deviceInfo, lastHeard, discovered>>
      BY <1>13 DEF vars, schedVars, ghostVars
    <2> QED BY <1>0, <1>1, <2>1
  <1> QED BY <1>2, <1>3, <1>4, <1>5, <1>6, <1>7, <1>8, <1>9, <1>10, <1>11,
             <1>12, <1>13 DEF Next, Controller, Environment

LEMMA TimesAreInOrder ==
    HystScheme = "Standard" => (Spec => []TimeInvUntilSet)
  <1> SUFFICES ASSUME HystScheme = "Standard" PROVE Spec => []TimeInvUntilSet
    OBVIOUS
  <1>1. HasMemory
    BY DEF HasMemory
  <1>2. IInv /\ TimeInvUntilSet /\ [Next]_vars => TimeInvUntilSet'
    BY <1>1, NotSetBefore, StepTimeInv DEF TimeInvUntilSet
  <1> QED BY <1>2, InitTimeInv, TypesAndIndexes, PTL DEF Spec

\* Expire is the one action that ends anything, and it asks for the silence.
LEMMA StepEndsAfterSilence ==
    ASSUME MaxStartTime <= EndTime, IInv, EventsInv, TimeInvUntilSet, [Next]_vars
    PROVE  \A id \in ended' \ ended : clockSets = 0 /\ lastHeard[id] # 0 =>
              /\ now - lastHeard[id] > MaxStartTime
              /\ device[id].reported => now - lastHeard[id] > EndTime
  <1>1. CASE ExpireDevices
    <2>1. /\ pc = "expire" /\ Expired(now) \subseteq idToDevice /\ ended' = Expired(now)
      BY <1>1 DEF ExpireDevices
    <2>2. ASSUME NEW id \in Expired(now), clockSets = 0
          PROVE  /\ now - lastHeard[id] > MaxStartTime
                 /\ device[id].reported => now - lastHeard[id] > EndTime
      <3>1. /\ id \in Known /\ id \in idToDevice /\ id \in DeviceID
            /\ IsExpired(deviceInfo[id], now)
        BY <2>1, <2>2 DEF Expired, Known
      <3>2. /\ now \in Nat /\ lastHeard[id] \in Nat /\ deviceInfo[id] \in DeviceInfo
        BY <3>1 DEF IInv, RestTypeOK, HystTypeOK, Known
      <3>3. lastHeard[id] <= deviceInfo[id].lastTime /\ deviceInfo[id].lastTime <= now
        BY <2>1, <2>2, <3>1 DEF TimeInvUntilSet, TimeInv, TimesArePast, HeardBefore
      <3>4. Elapsed(now, deviceInfo[id].lastTime) = now - deviceInfo[id].lastTime
        BY <3>2, <3>3 DEF Elapsed, DeviceInfo
      <3>5. device[id].reported => deviceInfo[id].state = "Encountered"
        BY <2>1, <3>1 DEF EventsInv, ReportedAreEncountered, Encountered
      <3>6. MaxStartTime \in Nat /\ EndTime \in Nat
        BY HystAssumption
      <3>7. deviceInfo[id].lastTime \in Nat
        BY <3>2 DEF DeviceInfo
      <3> QED BY <3>1, <3>2, <3>3, <3>4, <3>5, <3>6, <3>7 DEF IsExpired
    <2> QED BY <2>1, <2>2
  <1>2. CASE \E id \in DeviceID : DeliverUnconfirmed(id) \/ DeliverEnded(id)
    BY <1>2 DEF DeliverUnconfirmed, DeliverEnded
  <1>3. CASE \/ GetNextAction \/ ChangeEpoch \/ StartDiscover \/ FinishDiscover
             \/ HystDiscovered \/ DrainListenAdvert \/ FinishDrain \/ OutOfTime \/ HystEncountered
             \/ ReportDevices \/ ExpireUnknownDevice \/ FinishRound
             \/ \E id \in DeviceID : HandshakeWith(id)
             \/ \E e \in updates : DeliverUpdate(e)
    BY <1>3 DEF GetNextAction, ChangeEpoch, StartDiscover, FinishDiscover,
                HystDiscovered, DrainListenAdvert, FinishDrain, OutOfTime, HystEncountered, ReportDevices,
                ExpireUnknownDevice, FinishRound, HandshakeWith, DeliverUpdate, eventVars
  <1>4. CASE Environment
    BY <1>4 DEF Environment, ProcessScanResponse, ShiftAddress, Listen, SetClock, eventVars
  <1>5. CASE UNCHANGED vars
    BY <1>5 DEF vars, eventVars
  <1> QED BY <1>1, <1>2, <1>3, <1>4, <1>5 DEF Next, Controller

(***************************************************************************)
(* Until the clock is set, an encounter that was heard by a scan ends only *)
(* after the silence the policy asks for.  The silence after a start is    *)
(* the longer one, as in the defaults (5 and 10 minutes, Config.h:40): a   *)
(* reported device waits for EndTime.                                      *)
(***************************************************************************)
THEOREM EndedAfterSilence ==
    HystScheme = "Standard" /\ MaxStartTime <= EndTime => (Spec => EndsAfterSilence)
  <1> SUFFICES ASSUME HystScheme = "Standard", MaxStartTime <= EndTime
               PROVE  Spec => EndsAfterSilence
    OBVIOUS
  <1>1. IInv /\ EventsInv /\ TimeInvUntilSet /\ [Next]_vars =>
          [\A id \in ended' \ ended : clockSets = 0 /\ lastHeard[id] # 0 =>
              /\ now - lastHeard[id] > MaxStartTime
              /\ device[id].reported => now - lastHeard[id] > EndTime]_vars
    BY StepEndsAfterSilence
  <1> QED BY <1>1, TimesAreInOrder, EventsAreConsistent, PTL DEF Spec, EndsAfterSilence

-----------------------------------------------------------------------------
(***************************************************************************)
(* Stability.  Where nobody comes to us, hands are shaken with devices the *)
(* policy has encountered only, and until somebody sets the clock it       *)
(* encounters stable ones only.                                            *)
(***************************************************************************)
EncounteredAreStable ==
    clockSets = 0 => \A id \in DeviceID : Encountered(id) =>
        /\ deviceInfo[id].seen >= StartSeen
        /\ deviceInfo[id].lastTime - deviceInfo[id].firstTime >= MinStartTime

ShakenAreEncountered ==
    /\ pc \in {"drain", "connect"} => \A id \in toHandshake : Encountered(id)
    /\ \A id \in idToDevice : device[id].shakenHands => Encountered(id)

StableInv == EncounteredAreStable /\ ShakenAreEncountered

LEMMA InitStableInv == Init => StableInv
  BY DEF Init, MapInit, HystInit, StableInv, EncounteredAreStable, ShakenAreEncountered,
         Encountered, Known

LEMMA StepStableInv ==
    ASSUME HasMemory, ~OthersCome, IInv, RadioKnows, TimeInvUntilSet, ScannedInv,
           StableInv, [Next]_vars
    PROVE  StableInv'
  <1> USE DEF StableInv, EncounteredAreStable, ShakenAreEncountered
  <1>0. /\ MapInv /\ MapTypeOK /\ IndexesAgree /\ RestTypeOK /\ HystTypeOK
        /\ \A id \in idToDevice : id \in DeviceID /\ device[id] \in Device
        /\ now \in Nat /\ discovered \in Seq([id : DeviceID, strong : BOOLEAN])
        /\ toHandshake \subseteq DeviceID
        /\ clockSets' = 0 => clockSets = 0
    BY NotSetBefore DEF IInv, MapInv, RestTypeOK, MapTypeOK, IndexesAgree
  <1>1. CASE ChangeEpoch
    <2>1. \A id \in idToDevice : device'[id].shakenHands = device[id].shakenHands
      BY <1>1, <1>0, EpochKeepsFlags DEF ChangeEpoch
    <2> QED BY <1>0, <1>1, <2>1 DEF ChangeEpoch, Encountered, Known
  <1>2. CASE StartDiscover
    BY <1>0, <1>2 DEF StartDiscover, ClearMap, mapVars, Encountered, Known
  <1>3. ASSUME NEW p \in Phone, NEW strong \in BOOLEAN, ProcessScanResponse(p, strong)
        PROVE  StableInv'
    <2>1. PICK id \in DeviceID :
            /\ FindOrCreate(air[p], id)
            /\ \E d \in ProcessAdvert(Resolved(air[p], id)) :
                 UseDevice(id, [d EXCEPT !.heard = TRUE])
      BY <1>3 DEF ProcessScanResponse
    <2>2. air[p] \in Address
      BY <1>0 DEF RestTypeOK
    <2>3. \A i \in idToDevice' : device'[i].shakenHands =>
            i \in idToDevice /\ device[i].shakenHands
      BY <1>0, <2>1, <2>2, UsedDevice, UsedForScan
    <2> QED BY <1>0, <1>3, <2>3 DEF ProcessScanResponse, Encountered, Known
  <1>4. CASE HystDiscovered
    <2>1. /\ UNCHANGED mapVars
          /\ deviceInfo' = AfterDiscovered(discovered, now)
          /\ toHandshake' = Selected(discovered, now)
      BY <1>4 DEF HystDiscovered
    <2>2. \A id \in Known : deviceInfo[id] \in DeviceInfo
      BY DEF IInv, RestTypeOK, HystTypeOK, Known
    <2>3. clockSets = 0 => \A id \in Known :
             /\ deviceInfo[id].firstTime <= deviceInfo[id].lastTime
             /\ deviceInfo[id].lastTime <= now
             /\ deviceInfo[id].firstTime <= now
      BY <1>0, <2>2 DEF TimeInvUntilSet, TimeInv, TimesArePast, DeviceInfo
    <2>4. EncounteredAreStable'
      <3> SUFFICES ASSUME clockSets = 0, NEW id \in DeviceID, Encountered(id)'
                   PROVE  /\ deviceInfo'[id].seen >= StartSeen
                          /\ deviceInfo'[id].lastTime - deviceInfo'[id].firstTime >= MinStartTime
        BY <1>0
      <3>1. CASE id \in HeardIn(discovered)
        <4>1. /\ deviceInfo'[id] \in DeviceInfo /\ deviceInfo'[id].lastTime = now
              /\ id \in Known => /\ deviceInfo'[id].firstTime = deviceInfo[id].firstTime
                                 /\ deviceInfo'[id].seen >= deviceInfo[id].seen
              /\ \/ Encountered(id)
                 \/ /\ deviceInfo'[id].seen >= StartSeen
                    /\ deviceInfo'[id].lastTime - deviceInfo'[id].firstTime >= MinStartTime
          BY <1>0, <2>1, <2>3, <3>1, InfoOfHeard DEF Encountered
        <4>2. CASE Encountered(id)
          <5>1. id \in Known /\ deviceInfo[id] \in DeviceInfo
            BY <2>2, <4>2 DEF Encountered
          <5>2. StartSeen \in Nat /\ MinStartTime \in Nat
            BY HystAssumption
          <5> QED BY <1>0, <2>3, <4>1, <4>2, <5>1, <5>2 DEF DeviceInfo
        <4> QED BY <4>1, <4>2
      <3>2. CASE id \notin HeardIn(discovered)
        <4>1. deviceInfo'[id] = deviceInfo[id]
          BY <2>1, <3>2 DEF AfterDiscovered
        <4> QED BY <4>1 DEF Encountered, Known
      <3> QED BY <3>1, <3>2
    <2>5. \A id \in DeviceID : Encountered(id) => Encountered(id)'
      BY <1>0, <2>1, StillEncountered DEF Encountered, Known
    <2>6. \A id \in toHandshake' : Encountered(id)'
      <3>1. \A id \in HeardIn(discovered) :
              id \in DeviceID /\ AfterDiscovered(discovered, now)[id] # NULL
        BY <1>0, HeardAreIDs, StillEncountered
      <3> QED BY <2>1, <3>1 DEF Selected, Encountered, Known
    <2> QED BY <1>0, <2>1, <2>4, <2>5, <2>6 DEF mapVars
  <1>5. CASE DrainListenAdvert
    BY <1>5 DEF DrainListenAdvert, ScannedInv, HeldAreTimed
  <1>6. ASSUME NEW id \in DeviceID, HandshakeWith(id) PROVE StableInv'
    <2>1. PICK d \in ProcessActiveHandshake(device[id]) \cup {device[id]} : ShakeHands(id, d)
      BY <1>6 DEF HandshakeWith
    <2>2. /\ device' = [device EXCEPT ![id] = [d EXCEPT !.shakenHands = TRUE]]
          /\ toHandshake' = toHandshake \ {id}
      BY <2>1 DEF ShakeHands
    <2>3. /\ pc = "connect" /\ id \in toHandshake
          /\ UNCHANGED <<pc, idToDevice, deviceInfo>>
      BY <1>6 DEF HandshakeWith, IsFirst
    <2>4. \A i \in idToDevice : i # id => device'[i] = device[i]
      BY <1>0, <2>2 DEF MapTypeOK
    <2> QED BY <1>0, <2>2, <2>3, <2>4 DEF Encountered, Known
  <1>7. CASE HystEncountered
    <2> DEFINE ids == {id \in idToDevice : device[id].shakenHands /\ device[id].confirmed}
    <2>1. /\ ids \in SUBSET DeviceID
          /\ deviceInfo' = AfterEncountered(ids, now)
          /\ UNCHANGED mapVars /\ pc' = "report"
      BY <1>0, <1>7 DEF HystEncountered
    <2>2. \A id \in ids : Encountered(id)
      OBVIOUS
    <2> HIDE DEF ids
    <2>3. \A id \in DeviceID : deviceInfo'[id] = deviceInfo[id]
      <3> SUFFICES ASSUME NEW id \in ids PROVE deviceInfo'[id] = deviceInfo[id]
        BY <2>1 DEF AfterEncountered
      <3>1. id \in DeviceID /\ id \in Known /\ deviceInfo[id].state = "Encountered"
        BY <2>1, <2>2 DEF Encountered
      <3>2. deviceInfo[id] \in DeviceInfo
        BY <1>0, <3>1 DEF HystTypeOK, Known
      <3> QED BY <2>1, <3>1, <3>2 DEF AfterEncountered, DeviceInfo
    <2> QED BY <1>0, <2>1, <2>3 DEF mapVars, Encountered, Known
  <1>8. CASE ReportDevices
    <2>1. \A id \in idToDevice : device'[id].shakenHands = device[id].shakenHands
      BY <1>8, <1>0, ReportFlags DEF ReportDevices
    <2> QED BY <1>0, <1>8, <2>1 DEF ReportDevices, Encountered, Known
  <1>9. CASE ExpireDevices
    <2>1. \A id \in DeviceID \ Expired(now) :
            device'[id] = device[id] /\ deviceInfo'[id] = deviceInfo[id]
      BY <1>9 DEF ExpireDevices, RemoveDevices, Forget
    <2>2. \A id \in Expired(now) : id \in DeviceID /\ deviceInfo'[id] = NULL
      BY <1>9 DEF ExpireDevices, Forget, Expired, Known
    <2>3. pc' = "deliver" /\ idToDevice' = idToDevice \ Expired(now)
      BY <1>9 DEF ExpireDevices, RemoveDevices
    <2> QED BY <1>0, <2>1, <2>2, <2>3 DEF Encountered, Known
  <1>10. CASE ExpireUnknownDevice
    BY <1>10 DEF ExpireUnknownDevice, RadioKnows, Expired
  <1>11. CASE FinishDrain
    BY <1>0, <1>11 DEF FinishDrain, mapVars, Encountered, Known
  <1>12. CASE OutOfTime
    BY <1>0, <1>12 DEF OutOfTime, mapVars, Encountered, Known
  <1>13. CASE \/ GetNextAction \/ FinishDiscover \/ FinishRound
              \/ \E id \in DeviceID : DeliverUnconfirmed(id) \/ DeliverEnded(id)
              \/ \E e \in updates : DeliverUpdate(e)
    BY <1>0, <1>13 DEF GetNextAction, FinishDiscover, FinishRound, DeliverUnconfirmed,
                 DeliverEnded, DeliverUpdate, mapVars, Encountered, Known
  <1>14. CASE \/ \E p \in Phone : ShiftAddress(p) \/ Listen(p)
              \/ \E t \in ClockValues : SetClock(t)
    BY <1>0, <1>14 DEF ShiftAddress, Listen, SetClock, mapVars, Encountered, Known
  <1>15. CASE UNCHANGED vars
    BY <1>0, <1>15 DEF vars, mapVars, Encountered, Known
  <1> QED BY <1>1, <1>2, <1>3, <1>4, <1>5, <1>6, <1>7, <1>8, <1>9, <1>10, <1>11,
             <1>12, <1>13, <1>14, <1>15 DEF Next, Controller, Environment

(***************************************************************************)
(* Hands are shaken only with a device the policy times, and until the     *)
(* clock is set only with one that stayed around.  Each hypothesis is      *)
(* needed: without memory every device is selected, one that comes to us   *)
(* need not have been heard, and a radio that forgets ends the process     *)
(* when the policy alone has let go of a device.                           *)
(***************************************************************************)
THEOREM StableBeforeHandshake ==
    HystScheme = "Standard" /\ MemoryScheme = "Standard" /\ ~OthersCome
      => (Spec => []OnlyStableHandshakes)
  <1> SUFFICES ASSUME HystScheme = "Standard", MemoryScheme = "Standard", ~OthersCome
               PROVE  Spec => []OnlyStableHandshakes
    OBVIOUS
  <1>1. HasMemory
    BY DEF HasMemory
  <1>2. IInv /\ RadioKnows /\ [Next]_vars => RadioKnows'
    BY StepRadioKnows
  <1>3. IInv /\ RadioKnows /\ TimeInvUntilSet /\ ScannedInv /\ StableInv /\ [Next]_vars => StableInv'
    BY <1>1, StepStableInv
  <1>4. IInv /\ StableInv => OnlyStableHandshakes
    <2>1. IInv => idToDevice \subseteq DeviceID
      BY DEF IInv, MapInv, MapTypeOK
    <2> QED BY <2>1 DEF StableInv, EncounteredAreStable, ShakenAreEncountered, Encountered,
                        OnlyStableHandshakes
  <1>5. Spec => []TimeInvUntilSet
    BY TimesAreInOrder
  <1>6. Spec => []ScannedInv
    BY ScansBringThemIn
  <1> QED BY <1>2, <1>3, <1>4, <1>5, <1>6, InitRadioKnows, InitStableInv,
             TypesAndIndexes, PTL DEF Spec
=============================================================================
