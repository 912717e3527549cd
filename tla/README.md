# A TLA+ development of EbN / SDDR

EbN (encounter-based networking) runs on Android phones. A phone advertises its
presence over Bluetooth with a public Diffie-Hellman value and with Bloom
filters that recognise shared link values, scans for others, decides which of
them have stayed around long enough to be an *encounter*, confirms a shared
secret with them and reports the events to an application. Addresses and keys
change every epoch so that nobody can follow a phone without knowing its values.

This directory models the control of the system in `src/source` and
`src/include`, checks it with TLC on small instances, and proves with TLAPS, for
every instance, the safety properties of the controller, of the handshake, epochs
and sessions of the radios, of the adapter, of the server and of the sleep.

## 1. The system

```
 application                 EbNController::run  (one thread)
     ^  EncounterEvents   +-----------------------------------------+
     |   (RPC, Main.cpp)  | sleep until getNextAction               |
     +--------------------|   ChangeEpoch -> radio.changeEpoch      |
                          |   Discover    -> radio.discover         |
  EbNHystPolicy  <------- |       policy.discovered                 |
   deviceInfo_            |       radio.handshake -> encountered    |
                          |       policy.checkExpired               |
                          |         -> radio.doneWithDevice         |
                          |       deliver events                    |
                          +---------------|-------------------------+
                                          v
        EbNRadio  (recentDevices_, nextDeviceID_, getHandshakeScheme)
        EbNRadioBT4 / BT4AR / BT2 / BT2NR / BT2PSI
          deviceMap_ (address -> device, id -> device)
          advertiser: dhExchange_, advertBloom_, advertNum_, RS symbols
          listener thread (BT4, BT2PSI) -- listenAdverts_, two mutexes
                                          v
                          BluetoothHCI (scan, advertise, L2CAP, RFCOMM)
```

| Component (source) | State it keeps | Operations | Hard behaviours | What makes it correct |
|---|---|---|---|---|
| Controller (`EbNController.cpp`) | events of a round, last report times | `run`, `doneWithDevice`, event delivery | five calls that each walk another component's list; the wall clock may be set; the handshake may run out of time | each id's events in one order; an encounter opened is closed |
| Hysteresis policy (`EbNHystPolicy.cpp`) | `deviceInfo_`: first/last time, times seen, state | `discovered`, `encountered`, `checkExpired` | unsigned time differences, ids it was told of by another route, schemes that differ in what they remember | handshake only with devices that stayed; a device ends after silence only |
| Radio base (`EbNRadio.cpp`) | `recentDevices_`, `nextDeviceID_` | `getDeviceEvent`, `getHandshakeScheme`, `fillBloomFilter` | raw pointers to devices others delete | no entry outlives its device |
| Device map (`EbNDeviceMap.h`) | two indexes of the same devices | `get` (which re-keys a device found under a shifted address), `add`, `remove`, `clear` | the address of a device changes under it | the indexes agree |
| Device (`EbNDevice*.cpp`) | secrets, matching set, flags, epochs | `isConfirmed`, `getEncounterInfo`, `decodeBloom`... | the report differs by what was reported before | started before updated before ended |
| BT4 radio (`EbNRadioBT4.cpp`) | key, advert, listener's list | `discover`, `processAdvert`, `processEpochs`, `changeEpoch`, `handshake`, `listen` | two threads, two mutexes; lost and repeated adverts; epochs of two phones that are not aligned | keys of a secret are the ones exchanged; epochs never mixed; K adverts decode |
| BT2, BT2NR, BT4AR radios (`EbNRadioBT2.cpp`, ...) | key, advert number, the secrets and epochs of devices | the same interface | an epoch change is five commands to an adapter that is reset in between; a name that holds key and filter as text | X and Y of a secret are of one key; what is put into an advert comes out of it |
| BT2PSI radio (`EbNRadioBT2PSI.cpp`) | `discDevices_`, a session | the same interface, `listen` | a session of several messages in which the roles change, under a time limit | the two ends agree on the step they are at |
| ECDH, Reed-Solomon, Bloom filters | keys, symbols, segments | exchange, add symbol, decode, query | decode needs symbols of one key only | -- |
| Address, BitMap, LinkValue, BinaryToUTF8, Base64 | values | pure conversions | bit offsets, boundaries, zero bytes | what goes in comes out; a shift is recognised |
| Bluetooth HCI and the platform's stack (`BluetoothHCI.cpp`, `AndroidBluetooth.cpp`) | the adapter, `lastKnownState_` | scan flags, payload, name, change of address, connect, send | every step may fail, a reset forgets everything | the adapter is as the code believes |
| AWake (`AWakeService.java`, `AndroidWake.cpp`) | the alarm, a socket | sleep request, alarm, wake byte, stop | two threads of the service, either process restarted | the sleeper wakes |
| Server (`Main.cpp`) | the client socket, the controller thread | accept, message loop, callbacks | a client leaves in the middle, or stops reading | whole messages are installed, in order |
| Config, Logger, Timing, protocol buffers | defaults, output | -- | the wall clock | -- |
| Third-party code (Jerasure, OpenSSL, GMP, protobuf, BlueZ) | -- | -- | -- | not this project's |

`PROJECT.json` lists the same components with the modules that model them, and
under "hazards" every place where the code is exposed to a thing tests hardly
reach, with the properties that would notice.

## 2. The modules

| Module | Models | Composed with |
|---|---|---|
| `EbNDevice` | one device of the radio: address, secret, flags, what it reports | -- |
| `EbNDeviceMap` | `EbNDeviceMap` with `recentDevices_` and `nextDeviceID_`: `Get` with its re-keying, `Create`, `Remove`, `Clear` | EXTENDS `EbNDevice` |
| `EbNHystPolicy` | `deviceInfo_` and the three entry points, as functions of the time read at their start | EXTENDS `EbNDeviceMap` |
| `EbNController` | `run()` over all of these, the listener's deliveries, phones that shift their addresses, a clock that is set | EXTENDS `EbNHystPolicy` |
| `EncounterLifecycle` | the abstract promise to the application | refined by `EbNController` |
| `EbNController_proofs` | theorems: types, the two indexes, pointers | EXTENDS `EbNController` |
| `EbNControllerEvents_proofs` | theorems: what is reported and when, whom the policy times, the refinement | EXTENDS `EbNController_proofs` |
| `MCEbNController` | two phones, three addresses, one shift | EXTENDS `EbNController` |
| `BT4Handshake` | active confirmation: main and listener thread of each radio, sockets, mutexes, epochs | -- |
| `MCBT4Handshake` | two radios and their symmetry | EXTENDS `BT4Handshake` |
| `BT4Handshake_proofs` | theorems: entries, keys and secrets of the two threads | EXTENDS `BT4Handshake` |
| `BT4Epochs` | the advert stream of a sender and the receiver that puts it back together | -- |
| `BT4Epochs_proofs` | theorems: filters and secrets of the epochs, and that the epochs of a sender stay apart | EXTENDS `BT4Epochs` |
| `BT2PSI` | the private set intersection sessions of `EbNRadioBT2PSI` over RFCOMM, in both roles, and `discDevices_` | -- |
| `BT2PSI_proofs` | theorems: what waits at each end of a session | EXTENDS `BT2PSI` |
| `BluetoothAdapter` | the adapter under Bluetooth 2.1, and how `BluetoothHCI` and `AndroidBluetooth` reset it | -- |
| `BT2Epochs` | `EbNRadioBT2`: a sender that changes epochs through its adapter, and a receiver that tells them apart | EXTENDS `BluetoothAdapter` |
| `BT2Epochs_proofs` | theorems: the adapter after a change of epoch, the keys of secrets, and which epoch an advert is taken for | EXTENDS `BT2Epochs` |
| `BitMap` | `bitcpy` and `BinaryToUTF8`, on bytes | -- |
| `Address` | generation, shift, Y bit and checksum of an address, on bytes | -- |
| `BT2NR` | `EbNRadioBT2NR`: names that carry a key and a Bloom filter | EXTENDS `BitMap`, `Address` |
| `MCBT2` | the radios over Bluetooth 2.1 | EXTENDS `BT2PSI`, `BT2Epochs`, INSTANCE `BT2NR` |
| `Server` | the message loop, the controller thread beside it, and the application | -- |
| `Server_proofs` | theorem: messages are installed in order | EXTENDS `Server` |
| `AndroidWake` | the sleeping daemon, the service that wakes it, and alarms | -- |
| `AndroidWake_proofs` | theorem: the sleep ends early once at most | EXTENDS `AndroidWake` |
| `MCLive` | liveness of handshakes, server and sleep | EXTENDS `Server`, `AndroidWake`, INSTANCE `BT4Handshake` |

### 2.1 The controller

`pc` is where the controller thread is. A handler is one action unless it
blocks (a scan, a connection) or walks a list whose order matters:

| Action | Code |
|---|---|
| `GetNextAction` | `getNextAction`, up to the sleep: how long it will be (`timeUntil`) |
| `ChangeEpoch` | the end of the sleep (`Wake`), `changeEpoch` |
| `StartDiscover`, `ProcessScanResponse`, `FinishDiscover` | the end of the sleep, `discover`: `clear` under the memoryless scheme, one callback per response, the next time |
| `HystDiscovered` | `hystPolicy_.discovered` and the `UnconfirmedStarted` events |
| `DrainListenAdvert`, `FinishDrain`, `HandshakeWith`, `OutOfTime`, `HystEncountered` | `handshake`, its two loops, its two early ends, and `encountered` |
| `ReportDevices` | `getDeviceEvent` of the devices discovered in this round |
| `ExpireDevices`, `ExpireUnknownDevice` | `checkExpired` and `doneWithDevice`; an id the radio does not know is a null pointer, after which `pc` is `"crashed"` |
| `DeliverUnconfirmed`, `DeliverUpdate`, `DeliverEnded`, `FinishRound` | the three groups of events in the order of the code |
| `ShiftAddress`, `Listen`, `SetClock` | the environment: other phones, the listener thread, the user, at any moment |

The sleep is relative. Its length is decided by the wall clock when it begins, and when it is over the action is
taken without another look at the clock (`EbNController.cpp:39-57`): `Wake` adds `timeUntil` to whatever the time is
by then. A clock set back meanwhile, or later in the round, makes a round run at a time before what the
policy has noted.

Data that is abstracted: a Diffie-Hellman value and its decoding are the state
of a device's best secret (`"none"`, `"decoded"`, `"pending"`) and whether one is
confirmed, chosen as the radio may find them; RSSI readings are strong or not; link values, keys and Bloom filters
are not there. What a device reports is kept with the same tests as the code.
Two ghosts, `told` and `lastHeard`, remember what the application was told and
when a scan last heard each id; no action reads them.

### 2.2 The active handshake

Each node has a main thread and a listener. `dhExchange_` is copied and
replaced under `dhExchangeMutex_` without waiting in between, so each of those is
one step; `listenAdvertsMutex_` is held across the drain loop and is modelled
(`lock`). A connection is a pair of directions holding at most one message each,
because neither side sends a second time. Every connect, accept, send and
receive may fail. A listener whose accept fails closes its socket and opens
another after five seconds, which drops what was waiting: `AcceptFails`.

### 2.3 Adverts and epochs

The sender advances its advert number, appends the leftover symbols of the
epoch, and starts again at an epoch change. The receiver hears any subset of
the adverts and runs `processAdvert`, `processEpochs` and `changeEpoch`, with the
symbols and Bloom segments as (number, key) pairs: whether symbols of two
epochs ever meet in a decoder is then visible in the state.

### 2.4 The intersection sessions

`handshake()` and `listen()` of `EbNRadioBT2PSI` each walk through a fixed order of
sends and receives, `ConnectorScript` and `ListenerScript`: public values first, then
the intersection with the connector as client, then with the listener as client.
The `success` flag skips the rest at the first failure. `MainStep` and `ListenStep` take the
next step of the script; a message is its size and its body together, which
the code always sends as one. A connection is two byte streams, in which
messages of several steps may wait.

`recv` (`BluetoothHCI.cpp:879-912`) returns true when its time is up between two
reads, with a part of the message. `RecvPart` is that outcome: the connection is `torn`
from then on, what is read of it means nothing, and the end concerned is taken
to run through. A `torn` or failed connection is also `broken`, a ghost.

`discDevices_` keeps whom a node was in contact with since it last discovered. If the
next device is there, `handshake()` leaves its loop (`break`, line 131), and the
devices after it are not visited: `LeaveLoop`. The listener uses `dhExchange_`
without a lock while `changeEpoch` may write it, so that a value sent across an
epoch change may or may not confirm the device: `MayConfirm`.

### 2.5 The adapter and the epochs of BT2

`initialize`, `changeEpoch` and `changeAdvert` of `EbNRadioBT2` are lists of commands
(`ChangeEpochCommands` and so on); `Command` carries out the next one, and a receiver
may hear the adapter between any two. `setPublicAddress` is a command with steps of its
own: `Disable`, `PowerOn`, `StartHCIAttach`, `IoctlUp`, `StartBluetoothd`, `BtIsEnabled`.
Each may fail, undoes what the code undoes, and is tried again from `Catch`. Failures that
nobody catches (`CommandFails`, `BtDisableThrows`) end the process: `enablePc` is `"crashed"`.
That the firmware takes its address from the file, that a controller without power forgets
its settings, and that `bluetoothd` may set the scan flags as it is configured are the model's
assumptions on the platform.

The receiver has `processAdvert` with its two tests of number and time, `processEpochs`,
`changeEpoch` and the expiry of the policy. Bloom filters are left out here: see section 5.

### 2.6 Names

`BT2NR` computes real names. `Advert` is the bit map, `Encode` its text, `CString` the strings it
goes through, `Decode` and `ReadKey` the other side; `Bitcpy` is `BitMap::bitcpy` with
its three phases and the byte it reads beyond the source. `Address` makes the bytes of the
addresses by which the device map knows a device again. The other radios put the Y bit of their key into an
address, `SetPartial`, and read it back with `PartialValue`. The hash of a value under
a prefix is the constant `Positions`, and `Filters` draws from `Noise` what `addRandom` sets.

### 2.7 Server and application

A stream is a sequence of units, any number of which a `read` brings: `RecvAll` is one `read` and
what `recvAll` makes of it. `RecvFails` is the one error a local stream has, the reset after a
client left with events unread; because the result is kept in a `size_t`, the error is
taken for -1 bytes. The end of a connection (0 bytes) changes nothing and is tried again for ever;
there is no step for it, and no second client. The controller thread is the calls
of `EbNController::run` that touch what it shares with the main thread: `Fill` and `Filled` hold
`setMutex_`, `NotifyEncounter` and `RequestSleep` write to the socket, which blocks without room
and kills the process (SIGPIPE) when the client has gone.

### 2.8 Sleep

`AndroidWake` has the loop of `sleep()` (`Sleep`, `Read`), the controller's action after it (`Act`), and of
`AWakeService` the thread of `run()` (`Accept`, `Serve`, `ReadRequest`, `EndConnection`) and
the one of alarms and `onDestroy`. `accept()` and the assignment of `clientSock` are two steps, since alarms
and `onDestroy` look at `clientSock`. `Kill` ends the daemon anywhere; its new
connection may wait behind the old one. `early` counts actions taken before they were due.

## 3. The runs

| Run | Question | Properties |
|---|---|---|
| `passive` | Two phones, one shifting its address, under passive confirmation; both leave, and the clock may be set once, at any moment, also back | `EveryDeviceIsTimed`, `OnlyStableHandshakes`, `AnnouncedIsTimed`, `EndsAfterSilence`, `KeepsLifecycle` (refinement), `QuietEndsEverything` (liveness) |
| `active` | The same phones staying, with devices that come to us and handshakes that run out of time | `TypeOK`, `IndexesAgree`, `NoNullDereference`, `ConfirmedIsTimed`, `KeepsLifecycle` |
| `churn` | The `--churn` configuration: a BT2 radio, a policy and a map without memory | `RecentAreLive` |
| `churn_memory` | Does that policy remember nothing? **Violated** | `ChurnRemembersNothing` |
| `handshake` | Two radios that connect to each other, with failures and epoch changes; deadlock is checked | `HandshakeTypeOK`, `StoredIsProcessedOnce`, `ConnectorUsesKeysSent`, `SecretsAgreeWithinEpoch` |
| `handshake_epoch` | Does the listener use the key it sent? **Violated** | `ListenerUsesKeySent` |
| `epochs` | A receiver that misses adverts at will | `EpochsTypeOK`, `EpochsAreUnmixed`, `UndecodedHasBloom`, `LatestHasSecret`, `KPlus2Decode` |
| `epochs_consecutive` | Do any K consecutive adverts decode? **Violated** | `KConsecutiveDecode` |
| `epochs_seen` | Is an advert already seen skipped? **Violated** | `EvidenceCountsOnce` |
| `epochs_mixed` | Do leftover symbols go to the previous epoch? **Violated** | `SecretsAreOfKeys` |
| `bt2` | The radios over Bluetooth 2.1. Sessions: do the scripts of two nodes that connect at once fit? Epochs: does the adapter end up as the code believes, whatever fails, and does a receiver tell keys apart? Names: does what goes in come out? | `PSITypeOK`, `ScriptsFit`, `ListenerResultIsLast`, `NobodyWaitsForEver`; `BT2TypeOK`, `AdapterIsAsKnown`, `SecretsHaveTheirY`, `AdvertsAreAttributed`; `NameIsAccepted`, `KeyIsRead`, `SharedIsFound`, `DeviceFollowsShift`, `AddressCarriesY` |
| `live` | Do rounds and services end, are messages installed in order, and does whoever sleeps wake? | `RoundsEnd`, `ConfirmedIsProcessed`, `SetsFollowMessages`, `MessagesAreInstalled`, `EarlyOnceWhenLost`, `SleepersWake` |

`bt2` and `live` check modules that share no state. A variable (`radio`, `part`) says whose
behaviour it is; the others keep their initial states, so the state space is the sum
of theirs, and each part of `live` is under its own fairness only.

What the constants of `BT2NR`, which is only instantiated, have to be is assumed, and so evaluated, in `MCBT2`.

Every property of a passing run has a mutant beside the definition it changes
(operators named `Bug...`): a slip in the code under which the property fails.
They are used by no specification.

### What the violations show

* `churn_memory`. `Main.cpp:412-415` describes `--churn` as "to immediately
  request handshakes (and not remember devices)". `encountered()` inserts every
  id into `deviceInfo_` whatever the scheme (`EbNHystPolicy.cpp:93`). The radio
  clears its map at every scan, so when the remembered device expires
  `doneWithDevice` (`EbNRadioBT2.cpp:143-146`) looks up an id that is not there
  and follows the null pointer. `NeverNull` proves that this cannot happen under
  the standard memory scheme.
* `handshake_epoch`. A comment at `EbNRadioBT4.cpp:680-682` says `dhExchange_` cannot
  change while a handshake is under way. That is true of the connecting side,
  whose epoch change is on the same thread (`ConnectorUsesKeysSent`). It is not
  true of the listening side, which answers with a copy (line 741) and computes
  the secret later with whatever the key is then (line 699).
  `SecretsAgreeWithinEpoch` says this is the only way the two ends differ.
* `epochs_consecutive`. The duplicate test compares an advert with the first
  one heard of the epoch for 904.5 s, and an epoch lasts 900 s. The first
  advert of the next epoch with that number is dropped, against the comment at
  `EbNRadioBT4.cpp:324-326`. `KPlus2Decode` bounds the loss: two more adverts
  always suffice.
* `epochs_seen`. `lastAdvertNum` is set when an epoch is created and never
  again, so "Skip processing any advertisement that we have already seen"
  (`EbNRadioBT4.cpp:485`) holds of the first advert only; a later one heard twice
  counts its Bloom filter twice.
* `epochs_mixed`. The first adverts of an epoch carry a symbol left over from the
  previous one (`EbNRadioBT4.cpp:504-506`), and the code takes the latest epoch it has
  for that (`prevEpoch = curEpoch`, line 490). If the adverts heard of the key in
  between were all taken for duplicates, by the same window of 904.5 s, that
  epoch is of the key before that: the symbol completes the wrong decoder, and the
  secret is one with nobody. `EpochsAreUnmixed` says that nothing else of two keys
  ever meets.

### Bounds, and why they are enough

*Controller.* Phones `p` and `q`; addresses `a1`, `a2`, `b1`, where `a2` is what
`p` shifts to. Ids are never reused, so `MaxDevices` is the number of devices met
in a run: 3 lets `p` expire and be met again (5 for `churn`, where every scan
forgets). Times are in units of the shortest interval; the code's (`Config.h`
37-42) are ratios of these. No sleep ends, by the clock it began with, after `MaxTime`. `passive` begins at `StartTime` 4, and its clock may be set to 1 or
8, before everything the policy can have noted or ahead of it. Phones answer the scans that are due before `QuietAt` 8,
which is two, the second with a handshake; the rest of the run, up to 15, is the silence and an epoch change.
Whether somebody is around is a matter of the schedule, which goes on however the clock is set.
In `active` they answer in every scan, so that started encounters are updated. `MaxResponses` 2 lets one device answer a scan twice or both
once; `MaxIncoming` 1 lets a device come to us between any two drains. `TimeModulus`
stands for the range of the time type: the clock set back in `passive` makes the
unsigned differences of the policy wrap. A round then finds itself before `firstTime` or `lastTime`, a device is stable at once
and every device expires. What `passive` says of such a round is the rest: whom the policy
times, the order of events, and that everything ends. `OnlyStableHandshakes` (but for being timed) and `EndsAfterSilence` are
about the time until the clock is set (`clockSets = 0`); without that condition TLC refutes both in this run.
The controller sleeps for ever at `MaxTime`, so these configurations do not check deadlock.

*Handshake.* Two radios, one connection each way or two the same way, one epoch
change each: enough for a change at any point of a connection and for both
threads to meet at the lock. `live` has one connection and no epoch
change: what keeps a round from ending is the other thread, not a change.

*Epochs.* In the code `ADV_N` = 134, a scan every 13.5 s, a public value of 24 bytes
in K = 4 symbols of 6, and an epoch of 900 s, 4.5 s short of
`(ADV_N / 2) * SCAN_INTERVAL`. The model keeps these relations: `AdvN` 12, `K` 3,
`ScanInterval` 27, `EpochInterval` 153 = 6 * 27 - 27/3. `EndTime` (10 min of 15) is 81,
so that with one round it is below `EpochInterval - ScanInterval`. `ScanJitter`
lets the receiver drift both ways against the sender. The receiver starts at 230, in the middle of
the sender's second epoch, late enough for adverts of the third to fall into the duplicate window of the
second, and `MaxTime` 516 reaches into the fourth, so that a third key pushes the first one heard out of the two
that are kept, and leftover symbols of a key that was not noticed arrive. The sender is on time: `KPlus2Decode` counts adverts
that are heard, and a sender all of whose rounds are slow can leave the window of the current epoch. `AddressAtOnce` is TRUE: the controller changes the address
on the air when it is told to. The invariants were found to hold with FALSE as
well, in a state space twice as large.

*Sessions.* Two nodes, of which one may change its epoch; two discoveries and two
connections in the whole run, so that the two may connect to each other at
once, one after the other, or the same way twice. That is the most that can
interfere: a thread serves one connection at a time. Every run of this model ends
when the bounds are used up, so deadlock is not checked. In its place `NobodyWaitsForEver`
says of every state that a thread in a session which is not broken can go on, or
the other end of it can. A connection has finitely many steps, so no session needs a time-out to end.

*BT2 epochs.* Six adverts (15 in the code) a round of 12 apart, an epoch of 72, `Slack` 3
as in the code, and an `EndTime` of four rounds. The receiver starts 4 after the sender and its rounds are 11 or 13
long, by its choice each time, so that it drifts over the sender's both ways and adverts are missed and repeated at
every place of an epoch; the sender's are 12, its jitter being a matter of the proof; `MaxTime` 160 is two changes of the key. Every step of every reset may fail.
Time stands still while commands run, so a whole reset may fall into one inquiry.

*Names.* 8 bits of key and 33 of filter instead of 192 and 1529: as in the code the name is not a whole
number of bytes nor of sevens, and the text's last character is padded. X is 0 or 137, so that runs
of zeros occur at the start, and with an empty filter at the end and everywhere. Three values of which a filter takes
two, random bits none or all, and three epochs, so that a device is met after one
and after two shifts.

*Server.* Two messages of a two-unit length and a two-unit body: a message may be cut in its length, between
length and body and in its body, and what is read may belong to two messages. The socket
takes two events and a round has up to two, so that the controller blocks in the middle of a round.

*Sleep.* One or three time units, so that an alarm may be due before, at and after the broadcast of another one;
two restarts of the daemon and two stops of the service, which lets one connection end, the next wait
and a third replace it.

### Fairness

`EbNController!FairSpec` is weak fairness of the controller thread alone: no other
thread holds anything it waits for, and a scan ends after `SCAN_WINDOW` whoever answers. Nothing is
assumed of the other phones. `BT4Handshake!FairSpec` has weak fairness of each
thread, whose blocking calls all have time-outs, and strong fairness of the two
actions that take `listenAdvertsMutex_`. The mutex makes no promise by itself, but
the main thread sleeps for seconds between rounds without it and the listener
holds it only to append, so it is free again and again and for long. Nothing is
assumed of epoch changes, of devices selected, or of failures. `BT4Epochs` is
checked for safety only, and so is `BT2PSI`. What its `NobodyWaitsForEver` takes for going on is `Proceed` and `Serve`:
a failure is among them only where the session is broken already, as the time-outs of `send` and `recv` see to; the time-out
of an unbroken session is possible but never relied on, which is the point of the property.

`Server!Fairness` is weak fairness of both threads, and strong fairness of the two steps that take `setMutex_`:
the controller holds it for a computation and sleeps for seconds without it. Nothing is assumed
of the application; it may leave, or stay and never read. `AndroidWake!WakeFairness` lets time pass, the
threads run and broadcasts arrive, in any order and as late as they like. Nobody has to
start the service or the daemon. `BT2Epochs` and `BT2NR` are checked for safety only.

## 4. What is proved

Each theorem holds for every value of the constants that satisfies the named assumptions: any sets of nodes,
addresses and shifts, any bounds, numbers and intervals. Every invariant below holds on the component's runs too,
which TLC was asked before the provers. Each proof has one lemma or step per action.

### The controller

`EbNController_proofs` and `EbNControllerEvents_proofs`, from `RadioAssumption`, `MapAssumption`, `HystAssumption` and
`ControllerAssumption`. The hypotheses beyond these are conditions under which the property is meant, and without
which it is false:

| Theorem | Property | Hypotheses |
|---|---|---|
| `TypeCorrect` | `TypeOK` | -- |
| `IndexesAlwaysAgree` | `IndexesAgree`: an address leads to a device that has this address, and to every device leads its address | -- |
| `RecentDevicesAreLive` | `RecentAreLive`: every pointer in `recentDevices_` is to a device the map holds | -- |
| `NeverNull` | `NoNullDereference` | the Standard memory scheme |
| `ConfirmedAreTimed` | `ConfirmedIsTimed`: the policy times every confirmed device | -- |
| `AnnouncedAreTimed` | `AnnouncedIsTimed`: and every announced one that has not ended | the Standard hysteresis scheme |
| `ImplementsLifecycle` | `KeepsLifecycle`: `EbNController` implements `EncounterLifecycle` | the same |
| `HeldDevicesAreTimed` | `EveryDeviceIsTimed`: and every device of the radio | the same, and nobody comes to us |
| `EndedAfterSilence` | `EndsAfterSilence` (an action property): until the clock is set | the same, `MaxStartTime <= EndTime` |
| `StableBeforeHandshake` | `OnlyStableHandshakes`: whom the policy times and, until the clock is set, finds stable | Standard schemes, nobody comes to us |

The schemes are the defaults. `MaxStartTime` and `EndTime` are 5 and 10 minutes in `Config.h:40`. "Nobody comes to us" is
`~OthersCome`: the scheme is passive, or the radio has no listener that hands devices over. A device that
comes to us and is refused is held without being timed (the run `active` therefore checks `ConfirmedIsTimed` instead), and
one that comes to us and is confirmed was not necessarily seen before. A clock that is set back makes the unsigned
difference of two times wrap, and every device old: the last two properties are about the time until then, `clockSets = 0`, and
everything else holds however often the clock is set.

`IndexesAgree` and `RecentAreLive` are not inductive. A new device takes the id
`nextDeviceID_`, and were that id in use already its old address would lead to a
device that no longer has it. The strengthening is

```
MapInv == MapTypeOK /\ IndexesAgree /\ RecentAreLive /\ FreshIDs
IInv   == MapInv /\ RestTypeOK
```

where `FreshIDs` says that ids from `nextDeviceID_` on are used nowhere. There is
one lemma per operation of the map (look up and re-key, create, update, remove,
clear), each from `MapInv` to `MapInv'`, and one step per action of the controller
that cites them. `NeverNull` needs the relation between the two components:
`RadioKnows` says that every id the policy keeps, and every one on a list the
controller has yet to walk, is one the radio holds. It is inductive only when
`clear()` does not run, which is the hypothesis of the theorem, and `churn_memory`
shows that the hypothesis is needed.

The second module stacks invariants on `IInv`, each proved from those before it:

* `RoundInv`: what a scan heard is held until something expires (`HeardAreHeld`), and from `encountered()` to the end of the
  round whoever shook hands and is confirmed is encountered (`ConfirmedAreEncountered`). This gives `ConfirmedAreTimed`.
* `EventsInv`: the lists of events fill in the order of the phases (`QueuesFillInOrder`), an id not handed out is unknown
  everywhere (`UnusedAreUnknown`), a reported device is encountered (`ReportedAreEncountered`).
* `LifeInv`: whoever was announced, or is about to be, is timed until its end is queued (`OpenAreTimed`); what ended is gone
  from radio and policy (`EndedAreGone`); nobody is announced twice (`AnnouncedOnce`). This gives `AnnouncedAreTimed`.
* `ReportedInv`: a device's `reported_` is what the application was told, up to the reports of this round. With `LifeInv`
  each delivery is then the step of `EncounterLifecycle` its type names, and every other step a stutter.
* `ScannedInv`: a device the radio holds is timed or was just heard (`HeldAreTimed`), which gives `HeldDevicesAreTimed`,
  and what is timed was announced or is about to be (`TimedAreAnnounced`).
* `TimeInv`: times of the policy are past and in order (`TimesArePast`), and no device was heard later than its
  entry says, but for those of a scan `discovered()` has not seen (`HeardBefore`). It holds until the clock is set
  (`TimeInvUntilSet`). This gives `EndedAfterSilence`.
* `StableInv`: what is encountered, and so whatever hands are shaken with, has an entry and, until the clock is set,
  the times of a stable device.

### The radios

| Theorem | Property |
|---|---|
| `BT4Handshake_proofs!TypesAreKept` | `HandshakeTypeOK` |
| `BT4Handshake_proofs!EntriesAreProcessedOnce` | `StoredIsProcessedOnce`: no entry of `listenAdverts_` is lost or processed twice |
| `BT4Handshake_proofs!ConnectorsUseKeysSent` | `ConnectorUsesKeysSent` |
| `BT4Handshake_proofs!SecretsAgree` | `SecretsAgreeWithinEpoch` |
| `BT4Epochs_proofs!EpochTypes` | `EpochsTypeOK` |
| `BT4Epochs_proofs!BloomsAreThere` | `UndecodedHasBloom` |
| `BT4Epochs_proofs!SecretsAreLatest` | `LatestHasSecret` |
| `BT4Epochs_proofs!EpochsStayUnmixed` | `EpochsAreUnmixed` |
| `BT2PSI_proofs!PSITypes` | `PSITypeOK` |
| `BT2PSI_proofs!MessagesAreExpected` | `ScriptsFit` |
| `BT2PSI_proofs!ListenerIsLast` | `ListenerResultIsLast` |
| `BT2Epochs_proofs!BT2Types` | `BT2TypeOK` |
| `BT2Epochs_proofs!AdapterIsSet` | `AdapterIsAsKnown` |
| `BT2Epochs_proofs!SecretsAreOfOneKey` | `SecretsHaveTheirY` |
| `BT2Epochs_proofs!AdvertsStayAttributed` | `AdvertsAreAttributed` (an action property) |

*Handshake* (`HandshakeAssumption`). `IInv` adds to the types who holds `listenAdvertsMutex_` (`LockInv`), how far the drain
loop is (`LoopInv`), and what a thread has at each place: the connector its socket and the key it sent
(`SocketInv`), the listener its client, the copy of its key and the message (`ClientInv`), an entry the key of a connection
that was answered (`EntryInv`), a secret the two keys of its connection (`SecretInv`). That request and reply are set once and never
change (`ConnsGrow`) keeps these facts alive while the other thread works. `StoredIsProcessedOnce` counts: how often a connection
was processed and how often it is still ahead in the list make one together if it was stored. `Ahead` is the set of
places ahead, and the lemmas about it follow an append, a step of the loop and `clear()`.

*Epochs of BT4* (`EpochsAssumption`). `EpochsInv` adds that adverts go out in pairs of even numbers (`PairsInv`), that keys
are numbered by the intervals gone by (`KeysInv`, from which the types of keys follow within `MaxTime`), and `LatestInv`:
the latest epoch has a secret with the receiver's key of now if it is decoded, and has that key among those its decoding will
use if it is not. The types and the filters are one induction: a decoding takes `blooms.back()`.

`EpochsStayUnmixed` needs `TimesAssumption` too: between the quickest and the slowest interval the sender may draw, the
rounds of an epoch fit into it as they do in the code. `SenderInv` bounds the time of each round of the sender from both
sides, `n` quick rounds and `n` slow ones after the epoch began. `UnmixedInv` has a witness for every epoch: the key it is of (`OfOneKey`), and
that its first advert was heard when that key was on the air with that number (`Dated`). An advert of a later key is
then outside the window of the current epoch (`ComesTooLate`), and if the duplicate window takes it, it is dropped with
everything it carries. That leftover symbols (of an index from `AdvN` on) may be of another key is the exception that `epochs_mixed` shows to be needed:
it concerns the undecoded epoch before the latest only, and one that decodes there is let go of in the same step.

*Sessions* (`PSIAssumption`). `ConnsInv` says of a connection that was not torn that the inbox of either end is exactly what the other
end has sent, less what this one has received. Sent and received at a place of a script are tables (`Sent`, `Received`,
`Stream`), and `ScriptStep` is the lemma that one step of a script moves one entry. `ThreadsInv` ties the threads to their
connections. That one result comes before the other is then a comparison of the two scripts.

*Adapter and epochs of BT2* (`AdapterAssumption`, `BT2EpochsAssumption`; there is an address for every epoch that begins
within `MaxTime`). `CommandsInv`: the commands that are left are an end of one
of the three lists, and a reset is under way at two of them only. `CarriedOutInv`: outside a reset, whatever is no longer to come
has been carried out, and nothing later undid it. `ResetInv`: what each step of a reset can rely on, the
payload being gone since the power went off. `OneKeyInv`: whenever there is a payload it is of the key the address is of, which
is what makes `SecretsHaveTheirY` inductive. `KeysInv` counts the keys.

`AdvertsStayAttributed` is under `BT2TimesAssumption`: `Spread` is the most by which the number of an advert and its time can
disagree in an epoch, one quick round, one slow round and what the jitter adds up to, and the windows of `processAdvert` are
wider than it and leave that much of an epoch. The code's numbers satisfy it: rounds of 59 to 61 s, 15 of them in 900 s and a slack of 3
give 148 s of spread for windows of 180 s and 720 s. `RoundInv` says when the round of a command can have begun, `AirInv` when the payload that is on
could have been put on (`Aired`), which the last unique one keeps to as well since it goes with the epoch. `EpochInv`: the receiver's epoch is of the key its address is of,
was heard when it was on the air, and nothing before it is on any more. Two adverts of a key are then closer, in units of the
interval between their numbers, than `Spread` (`SameEpoch`), and two of different keys an `EpochInterval` farther
apart less `Spread` (`LaterEpoch`); the action property compares both with the windows.

### Server and sleep

| Theorem | Property |
|---|---|
| `Server_proofs!SetsFollow` | `SetsFollowMessages` (an action property) |
| `AndroidWake_proofs!EarlyOnlyOnce` | `EarlyOnceWhenLost` |

*Server* (`ServerAssumption`). What is on its way is the stream from the place on that has been read (`StreamInv`), and that place
is the beginning of a header or a body, or in it as far as `received` goes (`PlaceInv`), until the application has gone
and all is read (`Over`): from there on a failing read may lose the place, and no message comes any more. The unit
at a place is written with `\div` and `%`, so that messages may have any size.

*Sleep* (`AndroidWakeAssumption`). A sleep that ends too soon has ended behind a lost connection, which stays lost until
the daemon is killed (`FirstEarly`, `LaterNone`).

### Model-checked only

* Liveness: `QuietEndsEverything`, `RoundsEnd`, `ConfirmedIsProcessed`, `MessagesAreInstalled`, `SleepersWake`;
  and `NobodyWaitsForEver`, which is written with `ENABLED`. The prover reaches neither.
* `KPlus2Decode`: it counts the adverts that two windows let through, and holds of a sender on time only, which is
  an assumption of the run and not one the code justifies.
* `NameIsAccepted`, `KeyIsRead`, `SharedIsFound`, `DeviceFollowsShift` of `BT2NR` and `AddressCarriesY` of `MCBT2`: loops over bits and bytes. What a recursive
  definition computes for every input needs induction over data, which the provers cannot instantiate.
* The violations of section 3, which are counterexamples.

## 5. What is not modelled

* `EbNRadioBT4AR`, which the code leaves unfinished (`handshake()` shakes hands with nobody, `processAdvert` is
  empty). Of BT2PSI, the sets, the values of the
  intersection, which the code does not use yet (lines 244 and 442), and what
  `parsePSIMessage` does with the lengths in a torn stream.
* `EbNController::stop()` and what follows the message loop in `Main.cpp:614-624`: never reached. The options
  of the command line.
* The choice of secrets for a filter (`fillBloomFilter` under passive confirmation) and the Bloom filters of BT2.
* Wake locks, and a wall clock that is set while `AndroidWake` sleeps: set back, `sleep()` returns at
  once (the difference is unsigned), and the alarm, by the same clock, is late.
* The contents of values: elliptic-curve arithmetic, the code
  matrix, hashes. They are numbers, or choices over the outcomes.
* Real probabilities: a Bloom filter's false positives are a choice where the
  controller depends on it, a thing counted (`counted`) in `BT4Epochs`, and bits in `BT2NR`.
* I/O with the adapter under Bluetooth 4: success, failure and time-out are choices.
* Logging, configuration text, protocol buffers, Base64, SipHash, generated and third-party code.

### Where the code contradicts itself

Met while modelling, beside the violations of section 3. No line of the repository states
a property they break, or what they do is up to the platform, so no run shows them.

* `EbNRadioBT2.cpp:321` reads the Bloom filter from where the key begins; `generateAdvert` (line 243) puts it after the
  key, with another length.
* `EbNRadioBT2.cpp:95` computes the secret of a new epoch without the Y bit of the remote key.
* `EbNRadio.cpp:100` says the most confident secrets go into a filter; the order of `LinkValue.h:53` makes `top()` the least
  confident.
* `Main.cpp:73` and `93` keep the result of `write` and `read` in a `size_t` and test it for < 0.
* `BluetoothHCI.cpp:162` calls `bt_disable` in a handler, where what it throws ends the process, and
  `recover()`, for which `lastKnownState_` is kept, is not implemented.
* `BinaryToUTF8.cpp:133` writes a byte past a bit map of 1723 bits, and the bits that belong there are lost.
* `EbNDeviceBT4AR.cpp:43-45` skips the element after each it erases. `EbNRadioBT4AR.cpp:123` reads `listenSet_` without
  `setMutex_`.
* `AndroidWake.cpp:49` walks a set from which `release` erases.
* `AWakeService.java:134`: a service stopped between `accept()` and the assignment of its result keeps a connection
  open that nobody will wake. `SleepersWake` makes an exception for that state.

## 6. The plan

Done: the controller with its policy and maps; `BT4Handshake`, `BT4Epochs` and `BT2PSI`; `BT2Epochs` with the adapter,
`BT2NR` with `BitMap` and `Address`; `Server`; `AndroidWake`; the theorems of section 4. What would come next:

1. `KPlus2Decode` with a bound on the jitter under which it holds, and a proof of it.
2. The lemmas on `Shifted` and `IsShift` behind `DeviceFollowsShift`, where they need no recursion.
3. `fillBloomFilter` with the secrets of passive confirmation, and the filters of BT2.
4. The devices that `LeaveLoop` of `BT2PSI` leaves unvisited, against the log message of line 130.
