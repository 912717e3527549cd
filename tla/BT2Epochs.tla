------------------------------ MODULE BT2Epochs ------------------------------
(***************************************************************************)
(* EbNRadioBT2: what a node puts on the air through its adapter, and how   *)
(* another one tells the epochs of it apart.                               *)
(*                                                                         *)
(* Every advertisement carries the whole public value of the key, less its *)
(* Y bit, which is in the address.  A new epoch draws a key, changes the   *)
(* address, for which the adapter has to go down and come up again, and    *)
(* puts the first payload on; each of these is a command of its own, and   *)
(* a device may answer an inquiry between any two.  The receiver knows an  *)
(* epoch by number and time alone.                                         *)
(*                                                                         *)
(* A key, like an address, is the number of the sender's epoch.  Time      *)
(* jumps to whatever is due next.  The scheme is Passive.                  *)
(***************************************************************************)
EXTENDS BluetoothAdapter, Sequences

CONSTANTS AdvN,           \* ADV_N, the advertisements of an epoch
          Slack,          \* the 3 of processAdvert
          DiscInterval,   \* DISC_INTERVAL
          EpochInterval,  \* EPOCH_INTERVAL
          FirstDiscover,  \* the 10 seconds before the first discovery
          InquiryTime,    \* how long an inquiry lasts
          EndTime,        \* endTime_: how long a device is kept unheard
          SendJitter,     \* the intervals the sender draws between rounds
          ScanJitter,     \* the same for the receiver
          Offsets,        \* when the receiver may start
          MaxTime         \* bound: the run stops at this time

AdvertNum == 0 .. (AdvN - 1)

\* What the constants have to be: every epoch that begins by MaxTime has an
\* address, and any unique advertisement of it can be a payload.
ASSUME BT2EpochsAssumption ==
    /\ {AdvN, Slack, DiscInterval, EpochInterval, FirstDiscover, InquiryTime, EndTime,
        MaxTime} \subseteq Nat
    /\ Slack < AdvN
    /\ SendJitter \cup ScanJitter \cup Offsets \subseteq Nat \ {0}
    /\ EpochInterval > 0
    /\ PublicAddress \subseteq Nat \ {0}
    /\ 1 .. (MaxTime \div EpochInterval + 1) \subseteq PublicAddress
    /\ Payload = [num : AdvertNum, key : PublicAddress]

Quickest == CHOOSE i \in SendJitter : \A j \in SendJitter : i <= j
Slowest  == CHOOSE i \in SendJitter : \A j \in SendJitter : j <= i

\* How far the number of an advertisement and its time may disagree: the round
\* before it, the one it is on for, and what is drawn over an epoch.
Spread == Quickest + Slowest + (AdvN - 1) * (Slowest - Quickest)

(***************************************************************************)
(* What the code's constants leave room for: rounds of 60 s, give or take  *)
(* 1 s, and the rounds of an epoch of 900 s, of which Slack are 3          *)
(* (EbNRadioBT2.h:22-24, .cpp:62).  The first discovery comes sooner.      *)
(***************************************************************************)
ASSUME BT2TimesAssumption ==
    /\ {Quickest, Slowest} \subseteq SendJitter
    /\ \A i \in SendJitter : Quickest <= i /\ i <= Slowest
    /\ Quickest <= DiscInterval /\ DiscInterval <= Slowest /\ FirstDiscover <= Slowest
    /\ EpochInterval <= AdvN * DiscInterval
    /\ Spread < Slack * DiscInterval
    /\ Spread < (AdvN - Slack) * DiscInterval
    /\ Spread + Slack * DiscInterval <= EpochInterval
    /\ Spread + (AdvN - Slack) * DiscInterval <= EpochInterval

\* EbNDeviceBT2::Epoch; remote is dhRemotePublic.
DeviceEpoch == [lastAdvertNum : AdvertNum, lastAdvertTime : Nat, remote : PublicAddress]

\* yCoord: the address the Y bit was taken from.  0 is none.
Secret == [own : Nat, remote : PublicAddress \cup {0}, yCoord : PublicAddress \cup {0}]

VARIABLES
    now,
    \* the sender
    key,              \* dhExchange_
    advertNum,        \* advertNum_
    commands,         \* what is left of initialize, changeEpoch or changeAdvert
    sendDue,          \* its nextDiscover_
    keyDue,           \* its nextChangeEpoch_
    \* the receiver
    scanning,         \* whether its inquiry is on
    scanDue,          \* its nextDiscover_
    ownKey,           \* its dhExchange_
    ownKeyDue,        \* its nextChangeEpoch_
    device,           \* the address it knows the sender by, or Unset
    lastTime,         \* when it last heard the sender
    epochs,           \* epochs_
    secrets,          \* sharedSecrets_
    lastKey           \* ghost: the key of the advertisement heard last

senderVars == <<key, advertNum, commands, sendDue, keyDue>>
receiverVars == <<scanning, scanDue, ownKey, ownKeyDue>>
deviceVars == <<device, lastTime, epochs, secrets, lastKey>>
bt2Vars == <<now, adapterVars, senderVars, receiverVars, deviceVars>>

BT2TypeOK ==
    /\ AdapterTypeOK
    /\ {now, sendDue, keyDue, scanDue, ownKey, ownKeyDue, lastTime, lastKey} \subseteq Nat
    /\ key \in PublicAddress /\ advertNum \in 0 .. AdvN
    /\ commands \in Seq({"hide", "address", "advert", "mode", "show", "connect"})
    /\ scanning \in BOOLEAN
    /\ device \in PublicAddress \cup {Unset}
    /\ epochs \in Seq(DeviceEpoch) /\ Len(epochs) <= 1
    /\ secrets \subseteq Secret

-----------------------------------------------------------------------------
(***************************************************************************)
(* The sender.                                                             *)
(***************************************************************************)
InitializeCommands == <<"hide", "address", "advert", "mode", "show", "connect">>

\* Bug: the new payload goes on before the address is changed.
BugChangeEpochCommands == <<"advert", "address", "hide", "mode", "show">>

ChangeEpochCommands == <<"address", "hide", "advert", "mode", "show">>

BT2Init ==
    /\ AdapterInit
    /\ now = 1 /\ key = 1 /\ advertNum = 0 /\ commands = InitializeCommands
    /\ sendDue = 1 + FirstDiscover /\ keyDue = 1 + EpochInterval
    /\ scanning = FALSE /\ ownKey = 1
    /\ \E start \in Offsets :
         scanDue = start + FirstDiscover /\ ownKeyDue = start + EpochInterval
    /\ device = Unset /\ lastTime = 0 /\ epochs = <<>> /\ secrets = {} /\ lastKey = 0

SenderIdle == commands = <<>> /\ enablePc = "idle"

SenderChangesEpoch ==
    /\ SenderIdle /\ now = keyDue /\ keyDue < sendDue
    /\ key' = key + 1
    /\ advertNum' = 0
    /\ commands' = ChangeEpochCommands
    /\ keyDue' = keyDue + EpochInterval
    /\ UNCHANGED <<now, adapterVars, sendDue, receiverVars, deviceVars>>

SenderDiscovers ==
    /\ SenderIdle /\ now = sendDue /\ sendDue <= keyDue
    /\ commands' = <<"advert">>
    /\ \E i \in SendJitter : sendDue' = sendDue + i
    /\ UNCHANGED <<now, adapterVars, key, advertNum, keyDue, receiverVars, deviceVars>>

Done(command) ==
    /\ enablePc = "idle"
    /\ commands # <<>> /\ Head(commands) = command
    /\ commands' = Tail(commands)

\* Bug: the numbers go on after the last unique advertisement.
BugChangeAdvert ==
    /\ Done("advert")
    /\ WriteExtInquiryResponse([num |-> advertNum, key |-> key])
    /\ advertNum' = advertNum + 1
    /\ UNCHANGED <<now, key, sendDue, keyDue, receiverVars, deviceVars>>

\* changeAdvert leaves the last unique advertisement on until the epoch ends.
ChangeAdvert ==
    /\ Done("advert")
    /\ IF advertNum >= AdvN THEN UNCHANGED <<adapterVars, advertNum>>
       ELSE /\ WriteExtInquiryResponse([num |-> advertNum, key |-> key])
            /\ advertNum' = advertNum + 1
    /\ UNCHANGED <<now, key, sendDue, keyDue, receiverVars, deviceVars>>

Command ==
    /\ \/ Done("hide") /\ SetDiscoverable(FALSE)
       \/ Done("show") /\ SetDiscoverable(TRUE)
       \/ Done("connect") /\ SetConnectable(TRUE)
       \/ Done("mode") /\ SetInquiryMode
       \/ Done("address") /\ StartSetPublicAddress
    /\ UNCHANGED <<now, key, advertNum, sendDue, keyDue, receiverVars, deviceVars>>

SenderFails ==
    /\ commands # <<>> /\ Head(commands) # "address" /\ enablePc = "idle"
    /\ CommandFails
    /\ UNCHANGED <<now, senderVars, receiverVars, deviceVars>>

\* The address is the first one, or the former one shifted.
SetPublicAddress ==
    /\ Disable(key) \/ BtEnable
    /\ UNCHANGED <<now, senderVars, receiverVars, deviceVars>>

-----------------------------------------------------------------------------
(***************************************************************************)
(* processAdvert: which epoch advertisement n, heard now, belongs to.      *)
(* Times and numbers are those of the first one heard of an epoch.         *)
(***************************************************************************)
\* Bug: an advertisement of the same number is always a duplicate.
BugIsDuplicate(epoch, n) == epoch.lastAdvertNum = n

IsDuplicate(epoch, n) ==
    /\ epoch.lastAdvertNum = n
    /\ now - epoch.lastAdvertTime < (AdvN - Slack) * DiscInterval

IsCurrent(epoch, n) ==
    /\ epoch.lastAdvertNum < n
    /\ now - epoch.lastAdvertTime < (n - epoch.lastAdvertNum + Slack) * DiscInterval

\* The device known by the address, or by the one it is a shift of.
IsKnown == device # Unset /\ adapter.address \in {device, device + 1}

\* processAdvert, and processEpochs, which keeps the latest epoch only.
ProcessAdvert(n, remote) ==
    LET old == IF IsKnown THEN epochs ELSE <<>>
        had == IF IsKnown THEN secrets ELSE {}
        new == [own |-> ownKey, remote |-> remote, yCoord |-> adapter.address]
    IN  IF old # <<>> /\ (IsDuplicate(old[1], n) \/ IsCurrent(old[1], n))
        THEN epochs' = old /\ secrets' = had
        ELSE /\ epochs' = <<[lastAdvertNum |-> n, lastAdvertTime |-> now, remote |-> remote]>>
             /\ secrets' = had \cup {new}

-----------------------------------------------------------------------------
(***************************************************************************)
(* The receiver.                                                           *)
(***************************************************************************)
StartInquiry ==
    /\ ~scanning /\ now = scanDue /\ scanDue <= ownKeyDue
    /\ scanning' = TRUE
    /\ UNCHANGED <<now, adapterVars, senderVars, scanDue, ownKey, ownKeyDue, deviceVars>>

\* A response without the payload of this protocol is dropped.
ProcessEIRResponse ==
    /\ scanning
    /\ "up" \in adapter.on /\ adapter.discoverable /\ adapter.eir # Unset
    /\ ProcessAdvert(adapter.eir.num, adapter.eir.key)
    /\ device' = adapter.address
    /\ lastTime' = now
    /\ lastKey' = adapter.eir.key
    /\ UNCHANGED <<now, adapterVars, senderVars, receiverVars>>

\* After the inquiry the policy lets go of a device that was silent.
EndInquiry ==
    /\ scanning /\ now = scanDue + InquiryTime
    /\ scanning' = FALSE
    /\ \E i \in ScanJitter : scanDue' = scanDue + i
    /\ IF device # Unset /\ now - lastTime > EndTime
       THEN device' = Unset /\ epochs' = <<>> /\ secrets' = {} /\ UNCHANGED <<lastTime, lastKey>>
       ELSE UNCHANGED deviceVars
    /\ UNCHANGED <<now, adapterVars, senderVars, ownKey, ownKeyDue>>

\* changeEpoch hands computeSharedSecret the X value alone, which reads it as
\* an encoding with its Y: that fails, or yields a secret with nobody.
ReceiverChangesEpoch ==
    /\ ~scanning /\ now >= ownKeyDue /\ ownKeyDue < scanDue
    /\ ownKey' = ownKey + 1
    /\ ownKeyDue' = ownKeyDue + EpochInterval
    /\ \/ UNCHANGED secrets
       \/ /\ epochs # <<>>
          /\ secrets' = secrets \cup {[own |-> ownKey + 1, remote |-> 0, yCoord |-> 0]}
    /\ UNCHANGED <<now, adapterVars, senderVars, scanning, scanDue, device, lastTime,
                   epochs, lastKey>>

Dues == {sendDue, keyDue} \cup IF scanning THEN {scanDue + InquiryTime}
                               ELSE {scanDue, ownKeyDue}

Tick ==
    /\ SenderIdle
    /\ now' \in Dues /\ now' > now /\ now' <= MaxTime
    /\ \A due \in Dues : now' <= due
    /\ UNCHANGED <<adapterVars, senderVars, receiverVars, deviceVars>>

BT2Next ==
    \/ SenderChangesEpoch \/ SenderDiscovers \/ ChangeAdvert \/ Command \/ SenderFails
    \/ SetPublicAddress
    \/ StartInquiry \/ ProcessEIRResponse \/ EndInquiry \/ ReceiverChangesEpoch
    \/ Tick

BT2Spec == BT2Init /\ [][BT2Next]_bt2Vars

-----------------------------------------------------------------------------
(***************************************************************************)
(* Whatever failed on the way and was tried again, and whatever the reset  *)
(* lost: when the radio goes back to sleep the adapter is up with the      *)
(* current key's address and payload, and can be found and connected to.   *)
(***************************************************************************)
AdapterIsAsKnown ==
    SenderIdle =>
        /\ adapter.on = Parts
        /\ adapter.address = key
        /\ adapter.eir = [num |-> advertNum - 1, key |-> key]
        /\ adapter.mode = "WithRSSIAndEIR"
        /\ adapter.discoverable /\ adapter.connectable

(***************************************************************************)
(* Number and time tell the epochs apart: while the device is known, an    *)
(* advertisement starts an epoch exactly if its key is not the one of the  *)
(* latest epoch, whatever was missed in between.                           *)
(***************************************************************************)
AdvertsAreAttributed ==
    [][epochs # <<>> /\ epochs' # <<>> =>
          (epochs' = epochs <=> lastKey' = epochs[1].remote)]_bt2Vars

(***************************************************************************)
(* A secret made when an epoch is first heard takes the Y bit, which is in *)
(* the address, of the same key as the X value, which is in the payload:   *)
(* whichever step of an epoch change a device answers an inquiry at, it    *)
(* answers with the address and the payload of one key.                    *)
(***************************************************************************)
SecretsHaveTheirY == \A s \in secrets : s.yCoord = s.remote
=============================================================================
