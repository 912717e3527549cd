------------------------------- MODULE MCBT2 -------------------------------
(***************************************************************************)
(* The radios over Bluetooth 2.1 for TLC: in a behaviour BT2PSI, BT2Epochs *)
(* or BT2NR takes its steps, and the other two stand still.                *)
(***************************************************************************)
EXTENDS BT2PSI, BT2Epochs

CONSTANTS n1, n2, u, v, w, Beyond

\* BT2PSI.
TwoNodes == {n1, n2}
OneNode  == {n2}

-----------------------------------------------------------------------------
(* BT2Epochs: two and a third epochs of 72 time units, six advertisements  *)
(* in each, rounds of 12; the receiver is a little faster or slower.       *)
Keys == 1 .. 3
Payloads == [num : 0 .. 5, key : Keys]

-----------------------------------------------------------------------------
(* BT2NR: the key 0 and an empty filter make names of nothing but zeros;   *)
(* the last bits of the filter are in the byte that does not come out      *)
(* whole.                                                                  *)
Xs == {0, 137}
Values == {u, v, w}
Hashes(x, z) ==
    CASE z = u -> {(x + 28) % 33, 30, 12}
      [] z = v -> {x % 33, 32, 5}
      [] z = w -> {(x + 9) % 33, 31, (3 * x) % 33}
HashTable == [p \in Xs \X Values |-> Hashes(p[1], p[2])]
NoiseSets == {{}, 0 .. 32}
RandomBytes == {<<11, 200, 16>>, <<255, 0, 80>>}
SetLists == {<<v>>, <<u, v, w>>}
Start == <<<<75, 200, 20>>, <<255, 0, 83>>>>
StartKey == [x |-> 0, y |-> 1]

VARIABLES address, dhExchange, nrEpoch, advertised, name, listen, nrDevice, readKeys, inName

NR == INSTANCE BT2NR
        WITH KeyBits <- 8, FilterBits <- 33, BFN <- 2, MaxEpochs <- 3,
             Value <- Values, KeyX <- Xs, Positions <- HashTable, Noise <- NoiseSets,
             Random <- RandomBytes, Lists <- SetLists,
             FirstAddress <- Start, FirstKey <- StartKey,
             epoch <- nrEpoch, device <- nrDevice, keys <- readKeys

ASSUME NR!BeyondAssumption /\ NR!NRAssumption

nrVars == <<address, dhExchange, nrEpoch, advertised, name, listen, nrDevice, readKeys, inName>>

-----------------------------------------------------------------------------
VARIABLE radio

\* The scan flags BT2Epochs starts with make no difference to the others.
MCInit ==
    /\ radio \in {"BT2", "BT2PSI", "BT2NR"}
    /\ Init /\ BT2Init /\ NR!Init
    /\ radio # "BT2" => ~lastKnownState.discoverable /\ ~lastKnownState.connectable

PSIStep   == radio = "BT2PSI" /\ Next /\ UNCHANGED <<radio, bt2Vars, nrVars>>
BT2Step   == radio = "BT2" /\ BT2Next /\ UNCHANGED <<radio, vars, nrVars>>
BT2NRStep == radio = "BT2NR" /\ NR!Next /\ UNCHANGED <<radio, vars, bt2Vars>>

MCNext == PSIStep \/ BT2Step \/ BT2NRStep

MCSpec == MCInit /\ [][MCNext]_<<radio, vars, bt2Vars, nrVars>>

-----------------------------------------------------------------------------
(* The promises of BT2NR, where they are explained.                        *)

\* The name changeAdvert writes is one handshake() accepts.
NameIsAccepted == NR!NameIsAccepted

\* handshake() reads keys the sender had.
KeyIsRead == NR!KeyIsRead

\* updateMatching strikes no value that is in the filter.
SharedIsFound == NR!SharedIsFound

\* The device map recognises a shifted address.
DeviceFollowsShift == NR!DeviceFollowsShift

(***************************************************************************)
(* The radios with a Y bit (EbNRadioBT2, EbNRadioBT4) put it into the byte *)
(* of the address their checksum begins with.  Whatever address a node has *)
(* come to, the next one with either bit is one that scans accept          *)
(* (EbNRadioBT2.cpp:175, EbNRadioBT4.cpp:400), and processAdvert reads     *)
(* that bit from it; so does it from the address a node starts with.       *)
(***************************************************************************)
AddressCarriesY ==
    radio = "BT2NR" =>
        \A y \in 0 .. 1 :
            \A a \in NR!Generate(RandomBytes, {y}) \cup NR!Shifted(address, RandomBytes, {y}) :
                NR!VerifyChecksum(a) /\ NR!PartialValue(a) = y
=============================================================================
