---------------------------- MODULE EbNDeviceMap ----------------------------
(***************************************************************************)
(* EbNDeviceMap: the radio's two indexes over its devices, by address and  *)
(* by id, and the recently discovered devices EbNRadio keeps beside them.  *)
(* A device's address rotates: a lookup that finds no exact match looks    *)
(* for the key this address is a shift of and re-keys the device.          *)
(***************************************************************************)
EXTENDS EbNDevice, Sequences, FiniteSets

CONSTANTS Shift,        \* <<a, b>> in Shift: a.isShift(b)
          MaxDevices,   \* bound: device ids are handed out below this one
          NULL          \* no pointer, no entry

ASSUME MapAssumption ==
    /\ MaxDevices \in Nat
    /\ Shift \subseteq Address \X Address
    /\ NULL \notin Nat
    /\ NULL \notin Device

DeviceID == 0 .. (MaxDevices - 1)

VARIABLES addressToDevice,   \* addressToDevice_
          idToDevice,        \* the keys of idToDevice_
          device,            \* the EbNDevice objects on the heap, by id
          nextDeviceID,      \* nextDeviceID_
          recentDevices      \* recentDevices_, as a set: its order is never used

mapVars == <<addressToDevice, idToDevice, device, nextDeviceID, recentDevices>>

MapTypeOK ==
    /\ addressToDevice \in [Address -> DeviceID \cup {NULL}]
    /\ idToDevice \in SUBSET DeviceID
    /\ device \in [DeviceID -> Device \cup {NULL}]
    /\ nextDeviceID \in 0 .. MaxDevices
    /\ recentDevices \in SUBSET DeviceID

MapInit ==
    /\ addressToDevice = [a \in Address |-> NULL]
    /\ idToDevice = {}
    /\ device = [id \in DeviceID |-> NULL]
    /\ nextDeviceID = 0
    /\ recentDevices = {}

-----------------------------------------------------------------------------
(***************************************************************************)
(* get(address): the keys it can end at are the address itself, or else an *)
(* address this one is a shift of (two devices whose random half addresses *)
(* coincide make several: the first of the hash bucket wins).              *)
(***************************************************************************)
LookupKeys(address) ==
    IF addressToDevice[address] # NULL
    THEN {address}
    ELSE {key \in Address : addressToDevice[key] # NULL /\ <<address, key>> \in Shift}

\* Bug: the device found under an old address stays there as well.
BugFindKeepsKey(address, key) ==
    /\ addressToDevice' = [addressToDevice EXCEPT ![address] = addressToDevice[key]]
    /\ UNCHANGED <<idToDevice, nextDeviceID>>

(***************************************************************************)
(* What the scan and the incoming handshakes both do with an address:      *)
(* findExactMatch or findShiftedMatch, where the device found under key    *)
(* takes the address, or else generateDeviceID and add().                  *)
(***************************************************************************)
Find(address, key) ==
    /\ addressToDevice' = [addressToDevice EXCEPT ![key] = NULL,
                                                  ![address] = addressToDevice[key]]
    /\ UNCHANGED <<idToDevice, nextDeviceID>>

Create(address) ==
    /\ nextDeviceID \in DeviceID
    /\ nextDeviceID' = nextDeviceID + 1
    /\ addressToDevice' = [addressToDevice EXCEPT ![address] = nextDeviceID]
    /\ idToDevice' = idToDevice \cup {nextDeviceID}

FindOrCreate(address, id) ==
    \/ \E key \in LookupKeys(address) :
          id = addressToDevice[key] /\ Find(address, key)
    \/ LookupKeys(address) = {} /\ id = nextDeviceID /\ Create(address)

\* The device before anything is done with it.
Resolved(address, id) ==
    IF id = nextDeviceID THEN NewDevice(address)
                         ELSE [device[id] EXCEPT !.address = address]

\* Then the device becomes d, and the most recent one.
UseDevice(id, d) ==
    /\ device' = [device EXCEPT ![id] = d]
    /\ recentDevices' = recentDevices \cup {id}

\* Bug: only the address index is cleaned.
BugRemoveByAddress(ids) ==
    /\ addressToDevice' =
          [a \in Address |->
             IF \E id \in ids : device[id].address = a THEN NULL ELSE addressToDevice[a]]
    /\ UNCHANGED <<idToDevice, device, nextDeviceID, recentDevices>>

\* remove(id) and removeRecentDevice(id), for every id of a set.
RemoveDevices(ids) ==
    /\ addressToDevice' =
          [a \in Address |->
             IF \E id \in ids : device[id].address = a THEN NULL ELSE addressToDevice[a]]
    /\ idToDevice' = idToDevice \ ids
    /\ device' = [id \in DeviceID |-> IF id \in ids THEN NULL ELSE device[id]]
    /\ recentDevices' = recentDevices \ ids
    /\ UNCHANGED nextDeviceID

\* Bug: the devices are deleted with the indexes.
BugClearDeletes ==
    /\ addressToDevice' = [a \in Address |-> NULL]
    /\ idToDevice' = {}
    /\ device' = [id \in DeviceID |-> NULL]
    /\ UNCHANGED <<nextDeviceID, recentDevices>>

\* clear() empties the indexes only: the devices stay allocated, and recent.
ClearMap ==
    /\ addressToDevice' = [a \in Address |-> NULL]
    /\ idToDevice' = {}
    /\ UNCHANGED <<device, nextDeviceID, recentDevices>>

-----------------------------------------------------------------------------
(***************************************************************************)
(* The two indexes agree: every device is found under its own address, and *)
(* every address leads to a live device that bears it.  remove(id) erases  *)
(* addressToDevice_.find(device->getAddress()) without looking, so a       *)
(* device missing there would be undefined behaviour.                      *)
(***************************************************************************)
IndexesAgree ==
    /\ \A id \in idToDevice :
          device[id] # NULL /\ addressToDevice[device[id].address] = id
    /\ \A a \in Address : addressToDevice[a] # NULL =>
          /\ addressToDevice[a] \in idToDevice
          /\ device[addressToDevice[a]].address = a

(***************************************************************************)
(* No pointer in recentDevices_ outlives its device: fillBloomFilter and   *)
(* getDeviceEvent follow them.                                             *)
(***************************************************************************)
RecentAreLive == \A id \in recentDevices : device[id] # NULL
=============================================================================
