------------------------ MODULE EbNController_proofs ------------------------
(***************************************************************************)
(* What holds of EbNController for all constants: any number of devices    *)
(* and addresses, any radio, confirmation scheme and timing.               *)
(*                                                                         *)
(* The map of devices comes first (MapInv): the type of the device heap    *)
(* depends on the indexes leading to live devices only, so types, indexes  *)
(* and recent devices are one induction.                                   *)
(***************************************************************************)
EXTENDS EbNController, FiniteSetTheorems, TLAPS

\* A new id is new: no device in the map has an id not handed out yet.
FreshIDs == \A id \in idToDevice : id < nextDeviceID

MapInv == MapTypeOK /\ IndexesAgree /\ RecentAreLive /\ FreshIDs

-----------------------------------------------------------------------------
(***************************************************************************)
(* What is done to a device record yields a device record, at the same     *)
(* address.                                                                *)
(***************************************************************************)
LEMMA NewDeviceType ==
    ASSUME NEW address \in Address
    PROVE  NewDevice(address) \in Device /\ NewDevice(address).address = address
  BY DEF NewDevice, Device

LEMMA ProcessAdvertType ==
    ASSUME NEW d \in Device, NEW e \in ProcessAdvert(d)
    PROVE  /\ [e EXCEPT !.heard = TRUE] \in Device
           /\ [e EXCEPT !.heard = TRUE].address = d.address
  <1>1. Confirm(d) \in Device /\ Confirm(d).address = d.address
    BY DEF Confirm, Device
  <1>2. Decode(d) \in Device /\ Decode(d).address = d.address
    BY <1>1 DEF Decode, Device
  <1>3. \A s \in SecretAfter(d) : s \in Device /\ s.address = d.address
    BY <1>1, <1>2 DEF SecretAfter
  <1>4. e \in Device /\ e.address = d.address
    <2>1. \A s \in Device : ShrinkMatching(s) \in Device /\ ShrinkMatching(s).address = s.address
      BY DEF ShrinkMatching, Device
    <2> QED BY <1>3, <2>1 DEF ProcessAdvert
  <1> QED BY <1>4 DEF Device

LEMMA ActiveHandshakeType ==
    ASSUME NEW d \in Device, NEW e \in ProcessActiveHandshake(d)
    PROVE  /\ [e EXCEPT !.shakenHands = TRUE] \in Device
           /\ [e EXCEPT !.shakenHands = TRUE].address = d.address
  BY DEF ProcessActiveHandshake, Confirm, ShrinkMatching, Device

LEMMA EpochAndReportType ==
    ASSUME NEW d \in Device, NEW time \in Nat
    PROVE  /\ NewEpochSecret(d) \in Device /\ NewEpochSecret(d).address = d.address
           /\ Report(d, time) \in Device /\ Report(d, time).address = d.address
           /\ [d EXCEPT !.shakenHands = TRUE] \in Device
           /\ [d EXCEPT !.shakenHands = TRUE].address = d.address
  BY DEF NewEpochSecret, Report, Device

-----------------------------------------------------------------------------
(***************************************************************************)
(* Looking an address up: the device found, or made, starts from a record  *)
(* that bears the address.                                                 *)
(***************************************************************************)
LEMMA ResolvedType ==
    ASSUME MapInv, NEW address \in Address, NEW id \in DeviceID,
           FindOrCreate(address, id)
    PROVE  Resolved(address, id) \in Device /\ Resolved(address, id).address = address
  <1>1. CASE id = nextDeviceID
    BY <1>1, NewDeviceType DEF Resolved
  <1>2. CASE id # nextDeviceID
    <2>1. PICK key \in LookupKeys(address) : id = addressToDevice[key]
      BY <1>2 DEF FindOrCreate
    <2>2. key \in Address /\ addressToDevice[key] # NULL
      BY <2>1 DEF LookupKeys
    <2>3. id \in idToDevice /\ device[id] \in Device
      BY <2>1, <2>2 DEF MapInv, IndexesAgree, MapTypeOK
    <2> QED BY <1>2, <2>3 DEF Resolved, Device
  <1> QED BY <1>1, <1>2

(***************************************************************************)
(* Finding or creating the device of an address and replacing its record   *)
(* keeps the map consistent: re-keying moves one device, and the id of a   *)
(* new one is not in use.                                                  *)
(***************************************************************************)
LEMMA UseDeviceKeepsMap ==
    ASSUME MapInv, NEW address \in Address, NEW id \in DeviceID,
           FindOrCreate(address, id),
           NEW d \in Device, d.address = address, UseDevice(id, d)
    PROVE  MapInv'
  <1> USE MapAssumption
  <1>0. device' = [device EXCEPT ![id] = d] /\ recentDevices' = recentDevices \cup {id}
    BY DEF UseDevice
  <1>1. CASE \E key \in LookupKeys(address) :
                id = addressToDevice[key] /\ Find(address, key)
    <2>1. PICK key \in LookupKeys(address) :
             id = addressToDevice[key] /\ Find(address, key)
      BY <1>1
    <2>2. /\ key \in Address /\ addressToDevice[key] # NULL
          /\ addressToDevice[address] # NULL => key = address
      BY <2>1 DEF LookupKeys
    <2>3. id \in idToDevice /\ device[id].address = key
      BY <2>1, <2>2 DEF MapInv, IndexesAgree
    <2>4. /\ addressToDevice' = [addressToDevice EXCEPT ![key] = NULL, ![address] = id]
          /\ idToDevice' = idToDevice /\ nextDeviceID' = nextDeviceID
      BY <2>1 DEF Find
    <2>5. MapTypeOK'
      BY <1>0, <2>4 DEF MapInv, MapTypeOK
    <2>6. IndexesAgree'
      <3>1. ASSUME NEW i \in idToDevice
            PROVE  device'[i] # NULL /\ addressToDevice'[device'[i].address] = i
        <4>1. CASE i = id
          BY <4>1, <1>0, <2>4, <2>2 DEF MapInv, MapTypeOK
        <4>2. CASE i # id
          <5>1. device'[i] = device[i] /\ device[i] \in Device
            BY <4>2, <1>0 DEF MapInv, MapTypeOK, IndexesAgree
          <5>2. addressToDevice[device[i].address] = i /\ device[i].address \in Address
            BY <5>1 DEF MapInv, IndexesAgree, Device
          <5>3. device[i].address # key
            BY <5>2, <4>2, <2>1
          <5>4. device[i].address # address
            <6>1. addressToDevice[device[i].address] # NULL
              BY <5>2 DEF MapInv, MapTypeOK, DeviceID
            <6> QED BY <6>1, <5>3, <2>2
          <5> QED BY <5>1, <5>2, <5>3, <5>4, <2>4 DEF MapInv, MapTypeOK
        <4> QED BY <4>1, <4>2
      <3>2. ASSUME NEW a \in Address, addressToDevice'[a] # NULL
            PROVE  /\ addressToDevice'[a] \in idToDevice
                   /\ device'[addressToDevice'[a]].address = a
        <4>1. CASE a = address
          BY <4>1, <1>0, <2>3, <2>4 DEF MapInv, MapTypeOK
        <4>2. CASE a # address
          <5>1. a # key /\ addressToDevice'[a] = addressToDevice[a]
            BY <4>2, <3>2, <2>4 DEF MapInv, MapTypeOK
          <5>2. addressToDevice[a] \in idToDevice /\ device[addressToDevice[a]].address = a
            BY <5>1, <3>2 DEF MapInv, IndexesAgree
          <5>3. addressToDevice[a] # id
            BY <5>1, <5>2, <2>3
          <5> QED BY <5>1, <5>2, <5>3, <1>0 DEF MapInv, MapTypeOK
        <4> QED BY <4>1, <4>2
      <3> QED BY <3>1, <3>2, <2>4 DEF IndexesAgree
    <2>7. RecentAreLive'
      BY <1>0 DEF MapInv, MapTypeOK, RecentAreLive
    <2>8. FreshIDs'
      BY <2>4 DEF MapInv, FreshIDs
    <2> QED BY <2>5, <2>6, <2>7, <2>8 DEF MapInv
  <1>2. CASE LookupKeys(address) = {} /\ id = nextDeviceID /\ Create(address)
    <2>1. addressToDevice[address] = NULL
      BY <1>2 DEF LookupKeys
    <2>2. /\ addressToDevice' = [addressToDevice EXCEPT ![address] = id]
          /\ idToDevice' = idToDevice \cup {id}
          /\ nextDeviceID' = id + 1
          /\ id \notin idToDevice
      BY <1>2 DEF Create, MapInv, FreshIDs, MapTypeOK, DeviceID
    <2>3. MapTypeOK'
      BY <1>0, <2>2, <1>2 DEF MapInv, MapTypeOK, DeviceID
    <2>4. IndexesAgree'
      <3>1. ASSUME NEW i \in idToDevice'
            PROVE  device'[i] # NULL /\ addressToDevice'[device'[i].address] = i
        <4>1. CASE i = id
          BY <4>1, <1>0, <2>2 DEF MapInv, MapTypeOK
        <4>2. CASE i # id
          <5>1. i \in idToDevice /\ device'[i] = device[i] /\ device[i] \in Device
            BY <4>2, <1>0, <2>2 DEF MapInv, MapTypeOK, IndexesAgree
          <5>2. addressToDevice[device[i].address] = i /\ device[i].address \in Address
            BY <5>1 DEF MapInv, IndexesAgree, Device
          <5>3. device[i].address # address
            BY <5>1, <5>2, <2>1 DEF MapInv, MapTypeOK, DeviceID
          <5> QED BY <5>1, <5>2, <5>3, <2>2 DEF MapInv, MapTypeOK
        <4> QED BY <4>1, <4>2
      <3>2. ASSUME NEW a \in Address, addressToDevice'[a] # NULL
            PROVE  /\ addressToDevice'[a] \in idToDevice'
                   /\ device'[addressToDevice'[a]].address = a
        <4>1. CASE a = address
          BY <4>1, <1>0, <2>2 DEF MapInv, MapTypeOK
        <4>2. CASE a # address
          <5>1. addressToDevice'[a] = addressToDevice[a]
            BY <4>2, <2>2 DEF MapInv, MapTypeOK
          <5>2. addressToDevice[a] \in idToDevice /\ device[addressToDevice[a]].address = a
            BY <5>1, <3>2 DEF MapInv, IndexesAgree
          <5> QED BY <5>1, <5>2, <2>2, <1>0 DEF MapInv, MapTypeOK
        <4> QED BY <4>1, <4>2
      <3> QED BY <3>1, <3>2 DEF IndexesAgree
    <2>5. RecentAreLive'
      BY <1>0 DEF MapInv, MapTypeOK, RecentAreLive
    <2>6. FreshIDs'
      BY <2>2, <1>2 DEF MapInv, FreshIDs, MapTypeOK, DeviceID
    <2> QED BY <2>3, <2>4, <2>5, <2>6 DEF MapInv
  <1> QED BY <1>1, <1>2 DEF FindOrCreate

(***************************************************************************)
(* Expiry: forgetting devices of the map, each under its own address,      *)
(* leaves the others where they were.                                      *)
(***************************************************************************)
LEMMA RemoveDevicesKeepsMap ==
    ASSUME MapInv, NEW ids \in SUBSET idToDevice, RemoveDevices(ids)
    PROVE  MapInv'
  <1> USE MapAssumption
  <1>1. /\ addressToDevice' =
             [a \in Address |->
                IF \E id \in ids : device[id].address = a THEN NULL
                                                          ELSE addressToDevice[a]]
        /\ idToDevice' = idToDevice \ ids
        /\ device' = [id \in DeviceID |-> IF id \in ids THEN NULL ELSE device[id]]
        /\ recentDevices' = recentDevices \ ids
        /\ nextDeviceID' = nextDeviceID
    BY DEF RemoveDevices
  <1>2. MapTypeOK'
    BY <1>1 DEF MapInv, MapTypeOK
  <1>3. IndexesAgree'
    <2>1. ASSUME NEW i \in idToDevice'
          PROVE  device'[i] # NULL /\ addressToDevice'[device'[i].address] = i
      <3>1. /\ i \in idToDevice /\ i \notin ids /\ i \in DeviceID
            /\ device'[i] = device[i] /\ device[i] \in Device
        BY <1>1 DEF MapInv, MapTypeOK, IndexesAgree
      <3>2. addressToDevice[device[i].address] = i /\ device[i].address \in Address
        BY <3>1 DEF MapInv, IndexesAgree, Device
      <3>3. ~ \E id \in ids : device[id].address = device[i].address
        BY <3>1, <3>2 DEF MapInv, IndexesAgree
      <3> QED BY <3>1, <3>2, <3>3, <1>1
    <2>2. ASSUME NEW a \in Address, addressToDevice'[a] # NULL
          PROVE  /\ addressToDevice'[a] \in idToDevice'
                 /\ device'[addressToDevice'[a]].address = a
      <3>1. /\ addressToDevice'[a] = addressToDevice[a]
            /\ ~ \E id \in ids : device[id].address = a
        BY <2>2, <1>1
      <3>2. addressToDevice[a] \in idToDevice /\ device[addressToDevice[a]].address = a
        BY <3>1, <2>2 DEF MapInv, IndexesAgree
      <3> QED BY <3>1, <3>2, <1>1 DEF MapInv, MapTypeOK
    <2> QED BY <2>1, <2>2 DEF IndexesAgree
  <1>4. RecentAreLive'
    BY <1>1 DEF MapInv, MapTypeOK, RecentAreLive
  <1>5. FreshIDs'
    BY <1>1 DEF MapInv, FreshIDs
  <1> QED BY <1>2, <1>3, <1>4, <1>5 DEF MapInv

\* clear() empties both indexes at once, and frees no device.
LEMMA ClearMapKeepsMap == ASSUME MapInv, ClearMap PROVE MapInv'
  <1> USE MapAssumption
  <1>1. MapTypeOK'
    BY DEF ClearMap, MapInv, MapTypeOK
  <1>2. IndexesAgree' /\ RecentAreLive' /\ FreshIDs'
    BY DEF ClearMap, MapInv, IndexesAgree, RecentAreLive, FreshIDs
  <1> QED BY <1>1, <1>2 DEF MapInv

(***************************************************************************)
(* Devices may be replaced by devices at the same address: what an epoch,  *)
(* a handshake and a report do.                                            *)
(***************************************************************************)
SameMap == UNCHANGED <<addressToDevice, idToDevice, nextDeviceID, recentDevices>>

Replaced ==
    /\ device' \in [DeviceID -> Device \cup {NULL}]
    /\ \A id \in DeviceID :
         device[id] # NULL => device'[id] # NULL /\ device'[id].address = device[id].address

LEMMA ReplaceKeepsMap == ASSUME MapInv, SameMap, Replaced PROVE MapInv'
  <1> USE MapAssumption
  <1>1. MapTypeOK'
    BY DEF SameMap, Replaced, MapInv, MapTypeOK
  <1>2. IndexesAgree'
    <2>1. \A i \in idToDevice : i \in DeviceID /\ device[i] # NULL
      BY DEF MapInv, MapTypeOK, IndexesAgree
    <2>2. \A i \in idToDevice :
            device'[i] # NULL /\ device'[i].address = device[i].address
      BY <2>1 DEF Replaced
    <2> QED BY <2>2 DEF SameMap, MapInv, IndexesAgree
  <1>3. RecentAreLive'
    BY DEF SameMap, Replaced, MapInv, MapTypeOK, RecentAreLive
  <1>4. FreshIDs'
    BY DEF SameMap, MapInv, FreshIDs
  <1> QED BY <1>1, <1>2, <1>3, <1>4 DEF MapInv

LEMMA UnchangedKeepsMap == ASSUME MapInv, UNCHANGED mapVars PROVE MapInv'
  BY DEF mapVars, MapInv, MapTypeOK, IndexesAgree, RecentAreLive, FreshIDs

-----------------------------------------------------------------------------
\* The policy's counts are numbers: a scan's list is finite.
LEMMA CountsAreNat ==
    ASSUME NEW events \in Seq([id : DeviceID, strong : BOOLEAN]), NEW id \in DeviceID
    PROVE  StrongIn(events, id) \in Nat /\ TimesIn(events, id) \in Nat
  <1>1. PICK n \in Nat : DOMAIN events = 1 .. n
    <2>1. Len(events) \in Nat /\ DOMAIN events = 1 .. Len(events)
      OBVIOUS
    <2> QED BY <2>1
  <1>2. IsFiniteSet(1 .. n)
    BY <1>1, FS_Interval
  <1>3. ASSUME NEW S \in SUBSET (1 .. n) PROVE Cardinality(S) \in Nat
    BY <1>2, FS_Subset, FS_CardinalityType
  <1> QED BY <1>1, <1>3 DEF StrongIn, TimesIn

LEMMA HeardAreIDs ==
    ASSUME NEW events \in Seq([id : DeviceID, strong : BOOLEAN])
    PROVE  HeardIn(events) \subseteq DeviceID
  <1>1. ASSUME NEW S, NEW seq \in Seq(S) PROVE \A i \in DOMAIN seq : seq[i] \in S
    OBVIOUS
  <1>2. \A i \in DOMAIN events : events[i] \in [id : DeviceID, strong : BOOLEAN]
    BY <1>1
  <1> QED BY <1>2 DEF HeardIn

LEMMA NewInfoType ==
    ASSUME NEW state \in {"Discovered", "Encountered"}, NEW time \in Nat
    PROVE  NewInfo(state, time) \in DeviceInfo
  BY DEF NewInfo, DeviceInfo

\* What the policy makes of one scan has its type.
LEMMA DiscoveredType ==
    ASSUME HystTypeOK, NEW time \in Nat,
           NEW events \in Seq([id : DeviceID, strong : BOOLEAN])
    PROVE  /\ AfterDiscovered(events, time) \in [DeviceID -> DeviceInfo \cup {NULL}]
           /\ NewlyDiscovered(events) \in [DeviceID -> Nat]
           /\ Selected(events, time) \subseteq HeardIn(events)
           /\ \A id \in DeviceID : AfterDiscovered(events, time)[id] # NULL =>
                 id \in Known \/ id \in HeardIn(events)
  <1>1. ASSUME NEW id \in DeviceID PROVE InfoAfter(events, id, time) \in DeviceInfo
    <2> DEFINE old == IF deviceInfo[id] = NULL THEN NewInfo("Discovered", time)
                                               ELSE deviceInfo[id]
               info == [old EXCEPT !.lastTime = time, !.seen = @ + StrongIn(events, id)]
    <2>1. old \in DeviceInfo
      BY NewInfoType DEF HystTypeOK
    <2>2. StrongIn(events, id) \in Nat
      BY CountsAreNat
    <2>3. info \in DeviceInfo /\ [info EXCEPT !.state = "Encountered"] \in DeviceInfo
      <3>1. ASSUME NEW o \in DeviceInfo, NEW n \in Nat
            PROVE  /\ [o EXCEPT !.lastTime = time, !.seen = @ + n] \in DeviceInfo
                   /\ [o EXCEPT !.state = "Encountered"] \in DeviceInfo
        <4>1. o.seen \in Nat /\ o.seen + n \in Nat
          BY DEF DeviceInfo
        <4>2. \A m \in Nat : [o EXCEPT !.lastTime = time, !.seen = m] \in DeviceInfo
          BY DEF DeviceInfo
        <4>3. [o EXCEPT !.state = "Encountered"] \in DeviceInfo
          BY DEF DeviceInfo
        <4> QED BY <4>1, <4>2, <4>3
      <3>2. info \in DeviceInfo
        BY <2>1, <2>2, <3>1
      <3> HIDE DEF info
      <3> QED BY <3>1, <3>2
    <2>4. InfoAfter(events, id, time) =
            IF IsStable(info, time) THEN [info EXCEPT !.state = "Encountered"] ELSE info
      BY DEF InfoAfter
    <2> QED BY <2>3, <2>4
  <1>2. AfterDiscovered(events, time) \in [DeviceID -> DeviceInfo \cup {NULL}]
    BY <1>1 DEF AfterDiscovered, HystTypeOK
  <1>3. NewlyDiscovered(events) \in [DeviceID -> Nat]
    BY CountsAreNat DEF NewlyDiscovered
  <1>4. Selected(events, time) \subseteq HeardIn(events)
    BY DEF Selected
  <1>5. \A id \in DeviceID : AfterDiscovered(events, time)[id] # NULL =>
           id \in Known \/ id \in HeardIn(events)
    BY DEF AfterDiscovered, Known
  <1> QED BY <1>2, <1>3, <1>4, <1>5

LEMMA EncounteredType ==
    ASSUME HystTypeOK, NEW time \in Nat, NEW ids \in SUBSET DeviceID
    PROVE  /\ AfterEncountered(ids, time) \in [DeviceID -> DeviceInfo \cup {NULL}]
           /\ \A id \in DeviceID : AfterEncountered(ids, time)[id] # NULL =>
                 id \in Known \/ id \in ids
  <1>1. ASSUME NEW id \in Known
        PROVE  [deviceInfo[id] EXCEPT !.state = "Encountered"] \in DeviceInfo
    BY DEF Known, HystTypeOK, DeviceInfo
  <1>2. NewInfo("Encountered", time) \in DeviceInfo
    BY NewInfoType
  <1> QED BY <1>1, <1>2 DEF AfterEncountered, HystTypeOK, Known

LEMMA ForgetType ==
    ASSUME HystTypeOK, NEW ids
    PROVE  /\ Forget(ids) \in [DeviceID -> DeviceInfo \cup {NULL}]
           /\ \A id \in DeviceID : Forget(ids)[id] # NULL => id \in Known /\ id \notin ids
  BY DEF Forget, HystTypeOK, Known

-----------------------------------------------------------------------------
(***************************************************************************)
(* Types and indexes as one inductive invariant.  FreshIDs is what makes   *)
(* it inductive: without it a new device could take the id of another.     *)
(***************************************************************************)
RestTypeOK ==
    /\ HystTypeOK
    /\ pc \in Phases
    /\ now \in Nat /\ clockSets \in Nat /\ nextDiscover \in Nat /\ nextChangeEpoch \in Nat
    /\ timeUntil \in Nat
    /\ air \in [Phone -> Address]
    /\ listenAdverts \in Seq(Address)
    /\ discovered \in Seq([id : DeviceID, strong : BOOLEAN])
    /\ toHandshake \in SUBSET DeviceID
    /\ unconfirmed \in [DeviceID -> Nat]
    /\ updates \in SUBSET [id : DeviceID, type : {"Started", "Updated"}]
    /\ ended \in SUBSET DeviceID
    /\ told \in [DeviceID -> EventTypes \cup {"none"}]
    /\ lastHeard \in [DeviceID -> Nat]

IInv == MapInv /\ RestTypeOK

LEMMA IInvImplies == IInv => TypeOK /\ IndexesAgree /\ RecentAreLive
  BY DEF IInv, MapInv, RestTypeOK, TypeOK

LEMMA InitIInv == Init => IInv
  <1> SUFFICES ASSUME Init PROVE IInv
    OBVIOUS
  <1> USE MapAssumption, HystAssumption, ControllerAssumption
  <1>1. MapInv
    BY DEF Init, MapInit, MapInv, MapTypeOK, IndexesAgree, RecentAreLive, FreshIDs
  <1>2. RestTypeOK
    <2>1. EpochInterval \in Nat /\ StartTime \in Nat
      BY DEF ControllerAssumption
    <2> QED BY <2>1 DEF Init, HystInit, RestTypeOK, HystTypeOK, Phases, EventTypes,
                        ControllerAssumption
  <1> QED BY <1>1, <1>2 DEF IInv

\* The scheduling constants are numbers.
LEMMA ConstantsAreNat ==
    /\ {HybridLimit, HandshakeTime, EpochInterval, RSSIInterval, QuietAt, MaxTime,
        MaxResponses, MaxIncoming, MaxClockSets} \subseteq Nat
    /\ EpochInterval \in Nat /\ MaxTime \in Nat /\ MaxDevices \in Nat
    /\ \A t \in ScanTimes \cup ConnectTimes \cup DiscoverIntervals \cup ClockValues : t \in Nat
  BY MapAssumption, ControllerAssumption

\* Looking up an address, from the scan and from the listener.
LEMMA ScanKeepsMap ==
    ASSUME MapInv, NEW address \in Address, NEW id \in DeviceID,
           FindOrCreate(address, id),
           NEW d \in ProcessAdvert(Resolved(address, id)),
           UseDevice(id, [d EXCEPT !.heard = TRUE])
    PROVE  MapInv'
  BY ResolvedType, ProcessAdvertType, UseDeviceKeepsMap

LEMMA DrainKeepsMap ==
    ASSUME MapInv, NEW address \in Address, NEW id \in DeviceID,
           FindOrCreate(address, id),
           NEW d \in ProcessActiveHandshake(Resolved(address, id)),
           UseDevice(id, [d EXCEPT !.shakenHands = TRUE])
    PROVE  MapInv'
  BY ResolvedType, ActiveHandshakeType, UseDeviceKeepsMap

\* Every step keeps the map of devices consistent.
LEMMA StepKeepsMap == ASSUME IInv, [Next]_vars PROVE MapInv'
  <1> USE DEF IInv
  <1>1. CASE ChangeEpoch
    <2>1. SameMap
      BY <1>1 DEF ChangeEpoch, SameMap
    <2>2. \A id \in idToDevice : device[id] \in Device
      BY DEF MapInv, MapTypeOK, IndexesAgree
    <2>3. \A id \in idToDevice :
            /\ NewEpochSecret(device[id]) \in Device
            /\ NewEpochSecret(device[id]).address = device[id].address
      BY <2>2, EpochAndReportType
    <2>4. Replaced
      BY <1>1, <2>3, MapAssumption DEF ChangeEpoch, Replaced, MapInv, MapTypeOK
    <2> QED BY <2>1, <2>4, ReplaceKeepsMap
  <1>2. CASE StartDiscover
    BY <1>2, ClearMapKeepsMap, UnchangedKeepsMap DEF StartDiscover
  <1>3. ASSUME NEW p \in Phone, NEW strong \in BOOLEAN, ProcessScanResponse(p, strong)
        PROVE  MapInv'
    <2>1. air[p] \in Address
      BY DEF RestTypeOK
    <2> QED BY <1>3, <2>1, ScanKeepsMap DEF ProcessScanResponse
  <1>4. CASE DrainListenAdvert
    <2>1. Head(listenAdverts) \in Address
      BY <1>4 DEF DrainListenAdvert, RestTypeOK
    <2> QED BY <1>4, <2>1, DrainKeepsMap DEF DrainListenAdvert
  <1>5. ASSUME NEW id \in DeviceID, HandshakeWith(id) PROVE MapInv'
    <2>1. SameMap /\ id \in idToDevice
      BY <1>5 DEF HandshakeWith, SameMap
    <2>2. device[id] \in Device
      BY <2>1 DEF MapInv, MapTypeOK, IndexesAgree
    <2>3. PICK d \in ProcessActiveHandshake(device[id]) \cup {device[id]} : ShakeHands(id, d)
      BY <1>5 DEF HandshakeWith
    <2>4. /\ [d EXCEPT !.shakenHands = TRUE] \in Device
          /\ [d EXCEPT !.shakenHands = TRUE].address = device[id].address
      BY <2>2, <2>3, ActiveHandshakeType DEF ProcessActiveHandshake
    <2>5. device' = [device EXCEPT ![id] = [d EXCEPT !.shakenHands = TRUE]]
      BY <2>3 DEF ShakeHands
    <2>6. Replaced
      BY <2>4, <2>5, MapAssumption DEF Replaced, MapInv, MapTypeOK
    <2> QED BY <2>1, <2>6, ReplaceKeepsMap
  <1>6. CASE ReportDevices
    <2> DEFINE updated == {id \in HeardIn(discovered) \cap recentDevices :
                             IsUpdated(device[id], now, RSSIInterval)}
    <2>1. SameMap
      BY <1>6 DEF ReportDevices, SameMap
    <2>2. \A id \in updated : device[id] \in Device
      BY DEF MapInv, MapTypeOK, RecentAreLive
    <2>3. \A id \in updated : /\ Report(device[id], now) \in Device
                              /\ Report(device[id], now).address = device[id].address
      BY <2>2, EpochAndReportType DEF RestTypeOK
    <2>4. device' = [id \in DeviceID |->
                       IF id \in updated THEN Report(device[id], now) ELSE device[id]]
      BY <1>6 DEF ReportDevices
    <2> HIDE DEF updated
    <2>5. Replaced
      BY <2>3, <2>4, MapAssumption DEF Replaced, MapInv, MapTypeOK
    <2> QED BY <2>1, <2>5, ReplaceKeepsMap
  <1>7. CASE ExpireDevices
    BY <1>7, RemoveDevicesKeepsMap DEF ExpireDevices
  <1>8. CASE \/ GetNextAction \/ FinishDiscover \/ HystDiscovered \/ FinishDrain
             \/ OutOfTime \/ HystEncountered \/ ExpireUnknownDevice \/ FinishRound
    BY <1>8, UnchangedKeepsMap
       DEF GetNextAction, FinishDiscover, HystDiscovered, FinishDrain, OutOfTime,
           HystEncountered, ExpireUnknownDevice, FinishRound
  <1>9. CASE \/ \E id \in DeviceID : DeliverUnconfirmed(id) \/ DeliverEnded(id)
             \/ \E e \in updates : DeliverUpdate(e)
    BY <1>9, UnchangedKeepsMap DEF DeliverUnconfirmed, DeliverEnded, DeliverUpdate
  <1>10. CASE \/ \E p \in Phone : ShiftAddress(p) \/ Listen(p)
              \/ \E t \in ClockValues : SetClock(t)
    BY <1>10, UnchangedKeepsMap DEF ShiftAddress, Listen, SetClock
  <1>11. CASE UNCHANGED vars
    BY <1>11, UnchangedKeepsMap DEF vars
  <1> QED BY <1>1, <1>2, <1>3, <1>4, <1>5, <1>6, <1>7, <1>8, <1>9, <1>10, <1>11
          DEF Next, Controller, Environment

\* Every step keeps the types of what is not in the map.
LEMMA StepKeepsRest == ASSUME IInv, [Next]_vars PROVE RestTypeOK'
  <1> USE ConstantsAreNat DEF IInv, RestTypeOK, HystTypeOK, Phases
  <1>1. CASE ChangeEpoch
    BY <1>1 DEF ChangeEpoch, Wake, eventVars, ghostVars
  <1>2. CASE StartDiscover
    BY <1>2 DEF StartDiscover, Wake, eventVars, ghostVars
  <1>22. CASE GetNextAction
    <2>1. timeUntil' \in Nat
      BY <1>22 DEF GetNextAction, TimeUntilNextAction
    <2> QED BY <1>22, <2>1 DEF GetNextAction, eventVars, ghostVars
  <1>3. ASSUME NEW p \in Phone, NEW strong \in BOOLEAN, ProcessScanResponse(p, strong)
        PROVE  RestTypeOK'
    <2>1. PICK id \in DeviceID :
            /\ discovered' = Append(discovered, [id |-> id, strong |-> strong])
            /\ lastHeard' = [lastHeard EXCEPT ![id] = now]
      BY <1>3 DEF ProcessScanResponse
    <2>2. [id |-> id, strong |-> strong] \in [id : DeviceID, strong : BOOLEAN]
      OBVIOUS
    <2>3. discovered' \in Seq([id : DeviceID, strong : BOOLEAN])
      <3>1. ASSUME NEW S, NEW seq \in Seq(S), NEW e \in S PROVE Append(seq, e) \in Seq(S)
        OBVIOUS
      <3> QED BY <2>1, <2>2, <3>1
    <2>4. lastHeard' \in [DeviceID -> Nat]
      BY <2>1
    <2> QED BY <1>3, <2>3, <2>4 DEF ProcessScanResponse, schedVars, eventVars
  <1>4. CASE FinishDiscover
    <2>1. now' \in Nat
      BY <1>4 DEF FinishDiscover
    <2>2. nextDiscover' \in Nat
      BY <1>4 DEF FinishDiscover
    <2> QED BY <1>4, <2>1, <2>2 DEF FinishDiscover, eventVars, ghostVars
  <1>5. CASE HystDiscovered
    <2>1. /\ deviceInfo' \in [DeviceID -> DeviceInfo \cup {NULL}]
          /\ unconfirmed' \in [DeviceID -> Nat]
          /\ toHandshake' \in SUBSET DeviceID
      BY <1>5, DiscoveredType, HeardAreIDs DEF HystDiscovered
    <2> QED BY <1>5, <2>1 DEF HystDiscovered, schedVars, ghostVars
  <1>6. CASE DrainListenAdvert
    <2>1. listenAdverts' \in Seq(Address)
      BY <1>6 DEF DrainListenAdvert
    <2> QED BY <1>6, <2>1 DEF DrainListenAdvert, schedVars, eventVars, ghostVars
  <1>7. CASE FinishDrain
    BY <1>7 DEF FinishDrain, schedVars, eventVars, ghostVars
  <1>8. ASSUME NEW id \in DeviceID, HandshakeWith(id) PROVE RestTypeOK'
    <2>1. toHandshake' \in SUBSET DeviceID
      BY <1>8 DEF HandshakeWith, ShakeHands
    <2>2. now' \in Nat
      BY <1>8 DEF HandshakeWith
    <2> QED BY <1>8, <2>1, <2>2 DEF HandshakeWith, eventVars, ghostVars
  <1>9. CASE OutOfTime
    BY <1>9 DEF OutOfTime, schedVars, eventVars, ghostVars
  <1>10. CASE HystEncountered
    <2>1. deviceInfo' \in [DeviceID -> DeviceInfo \cup {NULL}]
      BY <1>10, EncounteredType DEF HystEncountered, MapInv, MapTypeOK
    <2> QED BY <1>10, <2>1 DEF HystEncountered, schedVars, eventVars, ghostVars
  <1>11. CASE ReportDevices
    <2>1. updates' \in SUBSET [id : DeviceID, type : {"Started", "Updated"}]
      <3>1. HeardIn(discovered) \subseteq DeviceID
        BY HeardAreIDs
      <3>2. \A id \in DeviceID : EventType(device[id]) \in {"Started", "Updated"}
        BY DEF EventType
      <3> QED BY <1>11, <3>1, <3>2 DEF ReportDevices
    <2> QED BY <1>11, <2>1 DEF ReportDevices, schedVars, ghostVars
  <1>12. CASE ExpireDevices
    <2>1. deviceInfo' \in [DeviceID -> DeviceInfo \cup {NULL}]
      BY <1>12, ForgetType DEF ExpireDevices
    <2>2. ended' \in SUBSET DeviceID
      BY <1>12 DEF ExpireDevices, Expired, Known
    <2> QED BY <1>12, <2>1, <2>2 DEF ExpireDevices, schedVars, ghostVars
  <1>13. CASE ExpireUnknownDevice
    <2>1. deviceInfo' \in [DeviceID -> DeviceInfo \cup {NULL}]
      BY <1>13, ForgetType DEF ExpireUnknownDevice
    <2> QED BY <1>13, <2>1 DEF ExpireUnknownDevice, schedVars, eventVars, ghostVars
  <1>14. ASSUME NEW id \in DeviceID, DeliverUnconfirmed(id) PROVE RestTypeOK'
    <2>1. unconfirmed' \in [DeviceID -> Nat]
      <3>1. unconfirmed[id] - 1 \in Nat
        BY <1>14 DEF DeliverUnconfirmed, UnconfirmedLeft
      <3> QED BY <1>14, <3>1 DEF DeliverUnconfirmed
    <2> QED BY <1>14, <2>1 DEF DeliverUnconfirmed, Tell, EventTypes, schedVars
  <1>15. ASSUME NEW id \in DeviceID, DeliverEnded(id) PROVE RestTypeOK'
    BY <1>15 DEF DeliverEnded, Tell, EventTypes, schedVars
  <1>16. ASSUME NEW e \in updates, DeliverUpdate(e) PROVE RestTypeOK'
    BY <1>16 DEF DeliverUpdate, Tell, EventTypes, schedVars
  <1>17. CASE FinishRound
    BY <1>17 DEF FinishRound, schedVars, eventVars, ghostVars
  <1>18. ASSUME NEW p \in Phone, ShiftAddress(p) PROVE RestTypeOK'
    BY <1>18 DEF ShiftAddress, schedVars, eventVars, ghostVars
  <1>19. ASSUME NEW p \in Phone, Listen(p) PROVE RestTypeOK'
    BY <1>19 DEF Listen, schedVars, eventVars, ghostVars
  <1>20. ASSUME NEW t \in ClockValues, SetClock(t) PROVE RestTypeOK'
    BY <1>20 DEF SetClock, eventVars, ghostVars
  <1>21. CASE UNCHANGED vars
    BY <1>21 DEF vars, schedVars, eventVars, ghostVars
  <1> QED BY <1>1, <1>2, <1>3, <1>4, <1>5, <1>6, <1>7, <1>8, <1>9, <1>10, <1>11,
             <1>12, <1>13, <1>14, <1>15, <1>16, <1>17, <1>18, <1>19, <1>20, <1>21, <1>22
          DEF Next, Controller, Environment

LEMMA TypesAndIndexes == Spec => []IInv
  <1>1. IInv /\ [Next]_vars => IInv'
    BY StepKeepsMap, StepKeepsRest DEF IInv
  <1> QED BY <1>1, InitIInv, PTL DEF Spec

\* EbNController's variables keep their types, whatever the constants.
THEOREM TypeCorrect == Spec => []TypeOK
  BY TypesAndIndexes, IInvImplies, PTL

\* The radio's two indexes always agree: no address rotation, incoming
\* handshake, expiry or clear() leaves one leading where the other does not,
\* so remove(id) always finds the address it erases.
THEOREM IndexesAlwaysAgree == Spec => []IndexesAgree
  BY TypesAndIndexes, IInvImplies, PTL

\* fillBloomFilter and getDeviceEvent never follow the pointer of a device
\* that was deleted, not even after clear().
THEOREM RecentDevicesAreLive == Spec => []RecentAreLive
  BY TypesAndIndexes, IInvImplies, PTL

-----------------------------------------------------------------------------
(***************************************************************************)
(* Null pointers.  The policy's ids stay in the radio's map as long as     *)
(* nothing clears the map behind the policy's back: then an id only leaves *)
(* it when checkExpired has just dropped it, between two scans.            *)
(***************************************************************************)
RadioKnows ==
    /\ Known \subseteq idToDevice
    /\ pc \in {"scan", "hyst"} => HeardIn(discovered) \subseteq idToDevice
    /\ pc \in {"drain", "connect"} => toHandshake \subseteq idToDevice

LEMMA InitRadioKnows == Init => RadioKnows
  BY DEF Init, HystInit, RadioKnows, Known, HeardIn

LEMMA RadioKnowsImplies == RadioKnows => NoNullDereference
  BY DEF RadioKnows, NoNullDereference, Expired

\* The ids in a scan's list after one more response.
LEMMA HeardInAppend ==
    ASSUME NEW events \in Seq([id : DeviceID, strong : BOOLEAN]),
           NEW id \in DeviceID, NEW strong \in BOOLEAN
    PROVE  HeardIn(Append(events, [id |-> id, strong |-> strong]))
             \subseteq HeardIn(events) \cup {id}
  <1> DEFINE e == [id |-> id, strong |-> strong]
  <1>1. \A i \in DOMAIN Append(events, e) :
          Append(events, e)[i] = e \/ (i \in DOMAIN events /\ Append(events, e)[i] = events[i])
    <2>1. ASSUME NEW S, NEW seq \in Seq(S), NEW x \in S
          PROVE  \A i \in DOMAIN Append(seq, x) :
                   Append(seq, x)[i] = x \/ (i \in DOMAIN seq /\ Append(seq, x)[i] = seq[i])
      OBVIOUS
    <2>2. e \in [id : DeviceID, strong : BOOLEAN]
      OBVIOUS
    <2> QED BY <2>1, <2>2
  <1>2. e.id = id
    OBVIOUS
  <1> HIDE DEF e
  <1>3. HeardIn(Append(events, e)) \subseteq HeardIn(events) \cup {id}
    BY <1>1, <1>2 DEF HeardIn
  <1> QED BY <1>3 DEF e

\* A lookup forgets no id, and ends with the one it found in the map.
LEMMA FindOrCreateInMap ==
    ASSUME IndexesAgree, NEW address \in Address, NEW id \in DeviceID,
           FindOrCreate(address, id)
    PROVE  idToDevice \subseteq idToDevice' /\ id \in idToDevice'
  BY DEF FindOrCreate, Find, Create, LookupKeys, IndexesAgree

LEMMA StepRadioKnows ==
    ASSUME MemoryScheme = "Standard", IInv, RadioKnows, [Next]_vars
    PROVE  RadioKnows'
  <1> USE DEF RadioKnows
  <1>0. MapTypeOK /\ IndexesAgree /\ RestTypeOK /\ HystTypeOK
    BY DEF IInv, MapInv, RestTypeOK
  <1>1. CASE ChangeEpoch
    BY <1>1 DEF ChangeEpoch, Known, HeardIn
  <1>2. CASE StartDiscover
    BY <1>2 DEF StartDiscover, mapVars, Known, HeardIn
  <1>3. ASSUME NEW p \in Phone, NEW strong \in BOOLEAN, ProcessScanResponse(p, strong)
        PROVE  RadioKnows'
    <2>1. PICK id \in DeviceID :
            /\ FindOrCreate(air[p], id)
            /\ discovered' = Append(discovered, [id |-> id, strong |-> strong])
      BY <1>3 DEF ProcessScanResponse
    <2>2. idToDevice \subseteq idToDevice' /\ id \in idToDevice'
      BY <2>1, <1>0, FindOrCreateInMap DEF RestTypeOK
    <2>3. HeardIn(discovered') \subseteq HeardIn(discovered) \cup {id}
      BY <2>1, <1>0, HeardInAppend DEF RestTypeOK
    <2>4. HeardIn(discovered)' = HeardIn(discovered')
      BY DEF HeardIn
    <2>5. pc' = "scan" /\ pc = "scan" /\ Known' = Known
      BY <1>3 DEF ProcessScanResponse, Known
    <2> QED BY <2>2, <2>3, <2>4, <2>5
  <1>4. CASE FinishDiscover
    BY <1>4 DEF FinishDiscover, mapVars, Known, HeardIn
  <1>5. CASE HystDiscovered
    <2>1. /\ pc = "hyst" /\ pc' = "drain" /\ idToDevice' = idToDevice
          /\ deviceInfo' = AfterDiscovered(discovered, now)
          /\ toHandshake' = Selected(discovered, now)
      BY <1>5 DEF HystDiscovered, mapVars
    <2>2. Known' \subseteq Known \cup HeardIn(discovered)
      BY <2>1, <1>0, DiscoveredType DEF Known, RestTypeOK
    <2>3. toHandshake' \subseteq HeardIn(discovered)
      BY <2>1, <1>0, DiscoveredType DEF RestTypeOK
    <2> QED BY <2>1, <2>2, <2>3
  <1>6. CASE DrainListenAdvert
    <2>1. PICK id \in DeviceID : FindOrCreate(Head(listenAdverts), id)
      BY <1>6 DEF DrainListenAdvert
    <2>2. Head(listenAdverts) \in Address
      BY <1>6, <1>0 DEF DrainListenAdvert, RestTypeOK
    <2>3. idToDevice \subseteq idToDevice'
      BY <2>1, <2>2, <1>0, FindOrCreateInMap
    <2> QED BY <1>6, <2>3 DEF DrainListenAdvert, Known
  <1>7. CASE FinishDrain
    BY <1>7 DEF FinishDrain, mapVars, Known
  <1>8. ASSUME NEW id \in DeviceID, HandshakeWith(id) PROVE RadioKnows'
    BY <1>8 DEF HandshakeWith, ShakeHands, Known
  <1>9. CASE OutOfTime
    BY <1>9 DEF OutOfTime, mapVars, Known
  <1>10. CASE HystEncountered
    <2>1. PICK ids \in SUBSET idToDevice : deviceInfo' = AfterEncountered(ids, now)
      BY <1>10 DEF HystEncountered
    <2>2. Known' \subseteq Known \cup ids
      BY <2>1, <1>0, EncounteredType DEF Known, RestTypeOK, MapTypeOK
    <2> QED BY <1>10, <2>2 DEF HystEncountered, mapVars
  <1>11. CASE ReportDevices
    BY <1>11 DEF ReportDevices, Known
  <1>12. CASE ExpireDevices
    <2>1. Known' \subseteq Known \ Expired(now)
      BY <1>12, <1>0, ForgetType DEF ExpireDevices, Known
    <2> QED BY <1>12, <2>1 DEF ExpireDevices, RemoveDevices
  <1>13. CASE ExpireUnknownDevice
    <2>1. Known' \subseteq Known
      BY <1>13, <1>0, ForgetType DEF ExpireUnknownDevice, Known
    <2> QED BY <1>13, <2>1 DEF ExpireUnknownDevice, mapVars
  <1>14. CASE \/ \E id \in DeviceID : DeliverUnconfirmed(id) \/ DeliverEnded(id)
              \/ \E e \in updates : DeliverUpdate(e)
    BY <1>14 DEF DeliverUnconfirmed, DeliverEnded, DeliverUpdate, mapVars, Known
  <1>15. CASE GetNextAction \/ FinishRound
    BY <1>15 DEF GetNextAction, FinishRound, mapVars, Known
  <1>16. CASE \/ \E p \in Phone : ShiftAddress(p) \/ Listen(p)
              \/ \E t \in ClockValues : SetClock(t)
    BY <1>16 DEF ShiftAddress, Listen, SetClock, mapVars, Known, HeardIn
  <1>17. CASE UNCHANGED vars
    BY <1>17 DEF vars, mapVars, Known, HeardIn
  <1> QED BY <1>1, <1>2, <1>3, <1>4, <1>5, <1>6, <1>7, <1>8, <1>9, <1>10, <1>11,
             <1>12, <1>13, <1>14, <1>15, <1>16, <1>17
          DEF Next, Controller, Environment

(***************************************************************************)
(* While the radio keeps its memory, handshake() and doneWithDevice()      *)
(* never look up an id in vain, whatever scheme the policy follows and     *)
(* however the clock is set.  (With NoMemory they do: see the churn runs.) *)
(***************************************************************************)
THEOREM NeverNull == MemoryScheme = "Standard" => (Spec => []NoNullDereference)
  <1> SUFFICES ASSUME MemoryScheme = "Standard" PROVE Spec => []NoNullDereference
    OBVIOUS
  <1>1. IInv /\ RadioKnows /\ [Next]_vars => RadioKnows'
    BY StepRadioKnows
  <1>2. RadioKnows => NoNullDereference
    BY RadioKnowsImplies
  <1> QED BY <1>1, <1>2, InitRadioKnows, TypesAndIndexes, PTL DEF Spec
=============================================================================
