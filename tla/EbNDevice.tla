----------------------------- MODULE EbNDevice -----------------------------
(***************************************************************************)
(* A remote device as the radio remembers it (EbNDevice, EbNDeviceBT4).    *)
(*                                                                         *)
(* The record keeps what steers the encounter life cycle: the address the  *)
(* device was last seen under, how far its shared secret has got, and what *)
(* is still to be reported.  Secrets, Bloom filters and matching sets are  *)
(* data: whether an advertisement completes the DH decoding, and whether   *)
(* its Bloom filter holds the secret, is a choice.                         *)
(***************************************************************************)
EXTENDS Naturals

CONSTANTS Address,        \* Bluetooth addresses
          Radio,          \* "BT2" or "BT4": which radio class runs
          ConfirmScheme,  \* "None", "Passive", "Active" or "Hybrid"
          TimeModulus     \* the range of uint64_t, larger than every time

ASSUME RadioAssumption ==
    /\ Radio \in {"BT2", "BT4"}
    /\ ConfirmScheme \in {"None", "Passive", "Active", "Hybrid"}

\* (scheme & Passive) != 0 and (scheme & Active) != 0: Hybrid has both bits.
UsesPassive == ConfirmScheme \in {"Passive", "Hybrid"}
UsesActive  == ConfirmScheme \in {"Active", "Hybrid"}

(***************************************************************************)
(* secret is the state of the best secret that is not yet confirmed:       *)
(* "none", "decoded" (the remote DH value is known but no secret was       *)
(* computed) or "pending" (an unconfirmed secret is in sharedSecrets_).    *)
(***************************************************************************)
Device ==
    [address    : Address,
     heard      : BOOLEAN,   \* an advertisement has been processed
     secret     : {"none", "decoded", "pending"},
     confirmed  : BOOLEAN,   \* confirmed_
     shakenHands: BOOLEAN,   \* shakenHands_
     reported   : BOOLEAN,   \* reported_
     news       : BOOLEAN,   \* secretsToReport_ or updatedMatching_
     lastReport : Nat]       \* lastReportTime_

NewDevice(address) ==
    [address |-> address, heard |-> FALSE, secret |-> "none",
     confirmed |-> FALSE, shakenHands |-> FALSE, reported |-> FALSE,
     news |-> FALSE, lastReport |-> 0]

\* addSharedSecret with a secret that is already confirmed.
Confirm(d) == [d EXCEPT !.confirmed = TRUE, !.news = TRUE]

(***************************************************************************)
(* What processing one advertisement may make of the device.  A BT2        *)
(* advertisement carries the whole DH value, and is ignored under Active;  *)
(* a BT4 one carries too few symbols for the first to decode.  Decoding    *)
(* confirms at once under None, yields an unconfirmed secret under         *)
(* Passive, and under BT4 Hybrid only stores the value: changeEpoch        *)
(* computes the secret.  A later Bloom filter may confirm a pending        *)
(* secret, and any filter of a decoded device may shrink its matching set. *)
(* A repeated or unlucky advertisement changes nothing.                    *)
(***************************************************************************)
CanDecode(d) == IF Radio = "BT2" THEN ConfirmScheme # "Active" ELSE d.heard

Decode(d) ==
    IF ConfirmScheme = "None" THEN Confirm(d)
    ELSE IF ConfirmScheme = "Passive" \/ Radio = "BT2"
         THEN [d EXCEPT !.secret = "pending"]
         ELSE [d EXCEPT !.secret = IF d.secret = "none" THEN "decoded" ELSE @]

SecretAfter(d) ==
    {d}
      \cup (IF CanDecode(d) /\ ConfirmScheme # "Active" THEN {Decode(d)} ELSE {})
      \cup (IF UsesPassive /\ d.heard /\ d.secret = "pending"
            THEN {Confirm(d)} ELSE {})

\* updateMatching erased a value: updatedMatching_ is set.
ShrinkMatching(d) == [d EXCEPT !.news = TRUE]

ProcessAdvert(d) ==
    SecretAfter(d)
      \cup (IF CanDecode(d) THEN {ShrinkMatching(e) : e \in SecretAfter(d)} ELSE {})

\* What changeEpoch does to a device: a new secret from the decoded value.
NewEpochSecret(d) ==
    IF UsesPassive /\ d.secret = "decoded"
    THEN [d EXCEPT !.secret = "pending"] ELSE d

\* processActiveHandshake: the secret computed from the message is confirmed,
\* unless the public value in the message is not a point of the curve; either
\* way the message's Bloom filter may shrink the matching set.  d: no message.
ProcessActiveHandshake(d) == {d, Confirm(d), ShrinkMatching(d)}

\* Differences of times are unsigned: the clock may have been set back.
Elapsed(time, since) ==
    IF time >= since THEN time - since ELSE TimeModulus - (since - time)

(***************************************************************************)
(* getEncounterInfo for a device that was just discovered: rssiToReport_   *)
(* is not empty, so the interval alone decides on an RSSI update.          *)
(***************************************************************************)
IsUpdated(d, time, interval) ==
    d.confirmed /\ d.shakenHands /\ (d.news \/ Elapsed(time, d.lastReport) > interval)

EventType(d) == IF d.reported THEN "Updated" ELSE "Started"

Report(d, time) ==
    [d EXCEPT !.reported = TRUE, !.news = FALSE, !.lastReport = time]
=============================================================================
