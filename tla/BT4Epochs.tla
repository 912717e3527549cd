------------------------------ MODULE BT4Epochs ------------------------------
(***************************************************************************)
(* How an EbNRadioBT4 puts the epochs of another one back together.        *)
(*                                                                         *)
(* A sender spreads the public value of its key, and Bloom filters made    *)
(* with that key, over numbered advertisements, two to a round, and starts *)
(* again with a new key and a shifted address every epoch.  A receiver     *)
(* scans on a schedule of its own, misses some, and must tell from number  *)
(* and time alone which epoch each one belongs to: symbols of different    *)
(* keys decode to nonsense, and a Bloom filter read with the wrong key     *)
(* strikes values out of the matching set for good.                        *)
(*                                                                         *)
(* A key, like an address, is the number of the sender's epoch; 0 is none. *)
(* A symbol or Bloom segment is known by its index and the key it is of.   *)
(* Time jumps to whatever is due next; a scan takes none.  The scheme is   *)
(* Passive, and SCAN_ACTIVE is on, as the code has it.                     *)
(***************************************************************************)
EXTENDS Naturals, Sequences, FiniteSets

CONSTANTS NULL,
          AdvN,           \* ADV_N, the advertisements of an epoch
          K,              \* RS_K, the symbols that decode
          ScanInterval,   \* SCAN_INTERVAL
          EpochInterval,  \* EPOCH_INTERVAL
          EndTime,        \* endTime_: how long a device is kept unheard
          SendJitter,     \* the intervals the sender draws between rounds
          ScanJitter,     \* the same for the receiver
          Offsets,        \* when the receiver may start
          AddressAtOnce,  \* whether the controller changes an address on air
          MaxTime         \* bound: the run stops at this time

ASSUME EpochsAssumption ==
    /\ {AdvN, K, ScanInterval, EpochInterval, EndTime, MaxTime} \subseteq Nat
    /\ EpochInterval > 0 /\ AdvN % 2 = 0 /\ 1 < K /\ K <= AdvN
    /\ SendJitter \cup ScanJitter \cup Offsets \subseteq Nat \ {0}
    /\ AddressAtOnce \in BOOLEAN /\ NULL \notin Nat

Quickest == CHOOSE i \in SendJitter : \A j \in SendJitter : i <= j
Slowest  == CHOOSE i \in SendJitter : \A j \in SendJitter : j <= i

(***************************************************************************)
(* What the code's constants leave room for: rounds of 13.5 s, give or     *)
(* take 1 s, 134 adverts and 900 s (EbNRadioBT4.h:24-30, .cpp:78).  All    *)
(* rounds but one fit into an epoch, with six slow ones to spare, and the  *)
(* quick ones that carry the unique adverts take longer than the slack of  *)
(* the test for the current epoch.                                         *)
(***************************************************************************)
ASSUME TimesAssumption ==
    /\ {Quickest, Slowest} \subseteq SendJitter
    /\ \A i \in SendJitter : Quickest <= i /\ i <= Slowest
    /\ ScanInterval <= Slowest
    /\ 4 * Slowest + 7 * ScanInterval + (AdvN - 2) * (Slowest - Quickest)
         <= 2 * EpochInterval
    /\ 2 * Slowest + 7 * ScanInterval <= (AdvN - 2) * Quickest

B == 2                    \* BF_B, the segments of a Bloom filter

AdvertNum == 0 .. (AdvN - 1)
\* RS_K + RS_M = ADV_N symbols of an epoch, and those left for the next one.
SymbolNum == 0 .. (AdvN + K - 2)
Key == 0 .. (MaxTime \div EpochInterval + 1)

Symbol  == [index : SymbolNum, of : Key]
Segment == [num : AdvertNum, of : Key]

BloomNum == 0 .. (AdvN \div B)

\* fresh: the segments whose pFalse is not yet taken.
Bloom == [num : BloomNum, segments : SUBSET Segment, fresh : SUBSET Segment]

(***************************************************************************)
(* EbNDeviceBT4::Epoch.  symbols is what dhDecoder holds until it decodes; *)
(* decodeBloomNum is NULL until then.  dhExchanges are own keys.  Ghosts:  *)
(* remote, the key that was decoded, and counted, the segments whose       *)
(* evidence was taken for confirmation.                                    *)
(***************************************************************************)
Epoch ==
    [lastAdvertNum  : AdvertNum,
     lastAdvertTime : Nat,
     symbols        : SUBSET Symbol,
     decodeBloomNum : BloomNum \cup {NULL},
     remote         : Key,
     dhExchanges    : SUBSET Key,
     yCoord         : Key,             \* the address its Y bit was taken from
     blooms         : Seq(Bloom),
     counted        : SUBSET Segment]

VARIABLES
    now,
    \* the sender
    key,              \* dhExchange_
    advertNum,        \* advertNum_
    onAir,            \* the first number, and the key, of the pair on the air
    address,          \* the address on the air
    sendDue,          \* its nextDiscover_
    keyDue,           \* its nextChangeEpoch_
    \* the receiver
    scanPc,           \* "idle", or what of a response it may hear next
    scanDue,          \* its nextDiscover_
    ownKey,           \* its dhExchange_
    ownKeyDue,        \* its nextChangeEpoch_
    device,           \* the address it knows the sender by, or NULL
    lastTime,         \* when it last heard the sender
    epochs,           \* epochs_
    secrets,          \* sharedSecrets_: own key, remote key, Y bit
    \* ghosts
    inARow,           \* adverts of the key on air heard with none missed
    heard,            \* which of the pair on air were heard
    twice             \* some segment's evidence was taken twice

senderVars == <<key, advertNum, onAir, address, sendDue, keyDue>>
deviceVars == <<device, lastTime, epochs, secrets>>
ghostVars  == <<inARow, heard, twice>>
vars == <<now, senderVars, scanPc, scanDue, ownKey, ownKeyDue, deviceVars, ghostVars>>

EpochsTypeOK ==
    /\ {now, sendDue, keyDue, scanDue, ownKeyDue, lastTime, inARow} \subseteq Nat
    /\ key \in Key /\ ownKey \in Key /\ address \in Key
    /\ advertNum \in 0 .. AdvN
    /\ onAir \in [num : AdvertNum, key : Key]
    /\ scanPc \in {"idle", "advert", "response", "expire"}
    /\ device \in Key \cup {NULL}
    /\ epochs \in Seq(Epoch) /\ Len(epochs) <= 2
    /\ secrets \subseteq [own : Key, remote : Key, yCoord : Key]
    /\ heard \subseteq {0, 1} /\ twice \in BOOLEAN

\* initialize() has set the first pair and the first address.
Init ==
    /\ now = 1
    /\ key = 1 /\ advertNum = 2 /\ onAir = [num |-> 0, key |-> 1] /\ address = 1
    /\ sendDue = 1 /\ keyDue = 1 + EpochInterval
    /\ scanPc = "idle" /\ ownKey = 1
    /\ \E start \in Offsets : scanDue = start /\ ownKeyDue = start + EpochInterval
    /\ device = NULL /\ lastTime = 0 /\ epochs = <<>> /\ secrets = {}
    /\ inARow = 0 /\ heard = {} /\ twice = FALSE

-----------------------------------------------------------------------------
(***************************************************************************)
(* The sender.  changeEpoch draws a new key but leaves the advertisement   *)
(* of the old one on the air until the next round.                         *)
(***************************************************************************)
SenderChangesEpoch ==
    /\ now = keyDue /\ keyDue < sendDue
    /\ key' = key + 1
    /\ advertNum' = 0
    /\ keyDue' = keyDue + EpochInterval
    /\ address' = IF AddressAtOnce THEN key + 1 ELSE address
    /\ UNCHANGED <<now, onAir, sendDue, scanPc, scanDue, ownKey, ownKeyDue,
                   deviceVars, ghostVars>>

NextRound == \E i \in SendJitter : sendDue' = sendDue + i

\* Bug: the last unique advert is not waited on.
BugChangeAdvertAlways ==
    /\ now = sendDue /\ sendDue <= keyDue
    /\ onAir' = [num |-> advertNum, key |-> key]
    /\ advertNum' = advertNum + 2
    /\ address' = key
    /\ heard' = {}
    /\ inARow' = IF heard = {0, 1} /\ key = onAir.key THEN inARow ELSE 0
    /\ NextRound
    /\ UNCHANGED <<now, key, keyDue, scanPc, scanDue, ownKey, ownKeyDue, deviceVars,
                   twice>>

\* Setting the advertisement parameters enables advertising anew, by then
\* with the address that was set last.
ChangeAdvert ==
    /\ now = sendDue /\ sendDue <= keyDue
    /\ advertNum < AdvN
    /\ onAir' = [num |-> advertNum, key |-> key]
    /\ advertNum' = advertNum + 2
    /\ address' = key
    /\ heard' = {}
    /\ inARow' = IF heard = {0, 1} /\ key = onAir.key THEN inARow ELSE 0
    /\ NextRound
    /\ UNCHANGED <<now, key, keyDue, scanPc, scanDue, ownKey, ownKeyDue, deviceVars,
                   twice>>

WaitForEpoch ==
    /\ now = sendDue /\ sendDue <= keyDue
    /\ advertNum >= AdvN
    /\ NextRound
    /\ UNCHANGED <<now, key, advertNum, onAir, address, keyDue, scanPc, scanDue,
                   ownKey, ownKeyDue, deviceVars, ghostVars>>

-----------------------------------------------------------------------------
(***************************************************************************)
(* processAdvert: which epoch advert n, heard now, belongs to.             *)
(***************************************************************************)
Back(s) == s[Len(s)]

\* Only the first advert heard of an epoch is remembered as the last one; the
\* number below it is taken for its scan response.
IsDuplicate(epoch, n) ==
    /\ n \in {epoch.lastAdvertNum, epoch.lastAdvertNum - 1}
    /\ now - epoch.lastAdvertTime < (AdvN \div 2) * ScanInterval

\* Bug: any later number is of this epoch.
BugIsCurrentAnyTime(epoch, n) == epoch.lastAdvertNum < n

\* Bug: the time for each advert without the slack.
BugIsCurrentTight(epoch, n) ==
    /\ epoch.lastAdvertNum < n
    /\ now - epoch.lastAdvertTime
         < ((n - epoch.lastAdvertNum) * ScanInterval) \div 2

IsCurrent(epoch, n) ==
    /\ epoch.lastAdvertNum < n
    /\ now - epoch.lastAdvertTime
         < ((n - epoch.lastAdvertNum + 6) * ScanInterval) \div 2

NewEpoch(n) ==
    [lastAdvertNum |-> n, lastAdvertTime |-> now, symbols |-> {},
     decodeBloomNum |-> NULL, remote |-> 0, dhExchanges |-> {ownKey}, yCoord |-> address,
     blooms |-> <<>>, counted |-> {}]

IsDecoded(epoch) == epoch.decodeBloomNum # NULL

\* setSymbol keeps the first symbol of an index; a decoder that has decoded
\* is asked for nothing but the result.
SetSymbol(epoch, symbol) ==
    IF IsDecoded(epoch) \/ \E s \in epoch.symbols : s.index = symbol.index
    THEN epoch
    ELSE [epoch EXCEPT !.symbols = @ \cup {symbol}]

\* The segment goes into the latest filter, or into a new one.
SetSegment(bloom, segment) ==
    LET others == {s \in bloom.segments : s.num # segment.num}
    IN  [bloom EXCEPT !.segments = others \cup {segment},
                      !.fresh = IF others = bloom.segments THEN @ \cup {segment} ELSE @]

AddSegment(epoch, segment) ==
    LET blooms == epoch.blooms
        num    == segment.num \div B
        empty  == [num |-> num, segments |-> {}, fresh |-> {}]
    IN  IF blooms # <<>> /\ Back(blooms).num = num
        THEN [epoch EXCEPT !.blooms[Len(blooms)] = SetSegment(@, segment)]
        ELSE [epoch EXCEPT !.blooms = Append(@, SetSegment(empty, segment))]

(***************************************************************************)
(* The symbol and the segment go to the latest epoch; the first K - 1      *)
(* adverts of an epoch carry a symbol for the one before as well.          *)
(***************************************************************************)
AddAdvert(es, n) ==
    LET last == Len(es)
        own  == SetSymbol(es[last], [index |-> n, of |-> onAir.key])
        left == [index |-> AdvN + n, of |-> onAir.key - 1]
    IN  [i \in 1 .. last |->
            IF i = last THEN AddSegment(own, [num |-> n, of |-> onAir.key])
            ELSE IF i = last - 1 /\ n < K - 1 THEN SetSymbol(es[i], left)
            ELSE es[i]]

ProcessAdvert(es, n) ==
    IF es # <<>> /\ IsDuplicate(Back(es), n) THEN es
    ELSE IF es # <<>> /\ IsCurrent(Back(es), n) THEN AddAdvert(es, n)
    ELSE AddAdvert(Append(es, NewEpoch(n)), n)

-----------------------------------------------------------------------------
(***************************************************************************)
(* processEpochs.                                                          *)
(***************************************************************************)
CanDecode(epoch) == ~IsDecoded(epoch) /\ Cardinality(epoch.symbols) >= K

\* Symbols of several keys decode to none.
KeyOf(symbols) ==
    IF \E k \in Key : \A s \in symbols : s.of = k
    THEN CHOOSE k \in Key : \A s \in symbols : s.of = k
    ELSE 0

Decode(epoch) ==
    IF CanDecode(epoch)
    THEN [epoch EXCEPT !.decodeBloomNum = Back(epoch.blooms).num,
                       !.remote = KeyOf(epoch.symbols), !.symbols = {}]
    ELSE epoch

NewSecrets(es) ==
    UNION {{[own |-> own, remote |-> KeyOf(es[i].symbols), yCoord |-> es[i].yCoord] :
              own \in es[i].dhExchanges} : i \in {i \in DOMAIN es : CanDecode(es[i])}}

\* What confirmPassive is given: the new segments of filters after the one
\* in which the key was decoded.
Evidence(epoch) ==
    IF IsDecoded(epoch)
    THEN UNION {epoch.blooms[i].fresh :
                  i \in {i \in DOMAIN epoch.blooms :
                           epoch.blooms[i].num > epoch.decodeBloomNum}}
    ELSE {}

\* Only the latest filter is kept, and not once its last segment is there.
Unfinished(blooms) ==
    IF \E s \in Back(blooms).segments : s.num % B = B - 1
    THEN <<>> ELSE <<[Back(blooms) EXCEPT !.fresh = {}]>>

\* Bug: finished filters go whether they were looked at or not.
BugLookAtBlooms(epoch) ==
    IF epoch.blooms # <<>>
    THEN [epoch EXCEPT !.blooms = Unfinished(@), !.counted = @ \cup Evidence(epoch)]
    ELSE epoch

LookAtBlooms(epoch) ==
    IF IsDecoded(epoch) /\ epoch.blooms # <<>>
    THEN [epoch EXCEPT !.blooms = Unfinished(@), !.counted = @ \cup Evidence(epoch)]
    ELSE epoch

\* Of the epochs before the latest, only the last one stays, and not once
\* it is decoded.
KeepEpochs(es) ==
    LET last == Len(es)
    IN  IF last > 1 /\ ~IsDecoded(es[last - 1])
        THEN <<es[last - 1], es[last]>> ELSE <<es[last]>>

ProcessEpochs(es) == KeepEpochs([i \in DOMAIN es |-> LookAtBlooms(Decode(es[i]))])

CountsTwice(es) == \E i \in DOMAIN es :
    LET epoch == Decode(es[i]) IN Evidence(epoch) \cap epoch.counted # {}

-----------------------------------------------------------------------------
(***************************************************************************)
(* The receiver.                                                           *)
(***************************************************************************)
StartScan ==
    /\ scanPc = "idle" /\ now = scanDue /\ scanDue <= ownKeyDue
    /\ scanPc' = "advert"
    /\ UNCHANGED <<now, senderVars, scanDue, ownKey, ownKeyDue, deviceVars, ghostVars>>

\* The device known by the address, or by the one it is a shift of.
IsKnown == device # NULL /\ (address = device \/ address = device + 1)

(***************************************************************************)
(* processScanResponse: the advertisement on the air (b = 0) or, after it, *)
(* its scan response (b = 1).  The sender may change both in between.      *)
(***************************************************************************)
ProcessScanResponse(b) ==
    /\ scanPc = <<"advert", "response">>[b + 1]
    /\ scanPc' = <<"response", "expire">>[b + 1]
    /\ LET n   == onAir.num + b
           old == IF IsKnown THEN epochs ELSE <<>>
           es  == ProcessAdvert(old, n)
       IN  /\ epochs' = ProcessEpochs(es)
           /\ secrets' = (IF IsKnown THEN secrets ELSE {}) \cup NewSecrets(es)
           /\ twice' = (twice \/ CountsTwice(es))
    /\ device' = address
    /\ lastTime' = now
    /\ heard' = heard \cup {b}
    /\ inARow' = IF b \in heard THEN inARow
                 ELSE IF b = 1 /\ heard = {} THEN 1 ELSE inARow + 1
    /\ UNCHANGED <<now, senderVars, scanDue, ownKey, ownKeyDue>>

\* Whatever the scan missed is lost.  Then the policy lets go of the device
\* if it has been silent for too long.
EndScan ==
    /\ scanPc # "idle"
    /\ scanPc' = "idle"
    /\ \E i \in ScanJitter : scanDue' = scanDue + i
    /\ IF device # NULL /\ now - lastTime > EndTime
       THEN device' = NULL /\ epochs' = <<>> /\ secrets' = {} /\ UNCHANGED lastTime
       ELSE UNCHANGED deviceVars
    /\ UNCHANGED <<now, senderVars, ownKey, ownKeyDue, ghostVars>>

\* Bug: an epoch that is not decoded yet keeps its first exchange only.
BugReceiverForgetsKey ==
    /\ scanPc = "idle" /\ now = ownKeyDue /\ ownKeyDue < scanDue
    /\ ownKey' = ownKey + 1
    /\ ownKeyDue' = ownKeyDue + EpochInterval
    /\ secrets' = IF epochs # <<>> /\ IsDecoded(Back(epochs))
                  THEN secrets \cup {[own |-> ownKey + 1, remote |-> Back(epochs).remote,
                                      yCoord |-> Back(epochs).yCoord]}
                  ELSE secrets
    /\ UNCHANGED <<now, senderVars, scanPc, scanDue, device, lastTime, epochs, ghostVars>>

\* changeEpoch: the new key makes a secret with the latest epoch's, now or
\* when it is decoded.
ReceiverChangesEpoch ==
    /\ scanPc = "idle" /\ now = ownKeyDue /\ ownKeyDue < scanDue
    /\ ownKey' = ownKey + 1
    /\ ownKeyDue' = ownKeyDue + EpochInterval
    /\ IF epochs = <<>> THEN UNCHANGED <<epochs, secrets>>
       ELSE IF IsDecoded(Back(epochs))
       THEN /\ secrets' = secrets \cup {[own |-> ownKey + 1, remote |-> Back(epochs).remote,
                                         yCoord |-> Back(epochs).yCoord]}
            /\ UNCHANGED epochs
       ELSE /\ epochs' = [epochs EXCEPT ![Len(epochs)].dhExchanges = @ \cup {ownKey + 1}]
            /\ UNCHANGED secrets
    /\ UNCHANGED <<now, senderVars, scanPc, scanDue, device, lastTime, ghostVars>>

Dues == {sendDue, keyDue, scanDue, ownKeyDue}

Tick ==
    /\ scanPc = "idle"
    /\ now' \in Dues /\ now' > now /\ now' <= MaxTime
    /\ \A due \in Dues : now' <= due
    /\ UNCHANGED <<senderVars, scanPc, scanDue, ownKey, ownKeyDue, deviceVars, ghostVars>>

Next ==
    \/ SenderChangesEpoch \/ ChangeAdvert \/ WaitForEpoch
    \/ StartScan \/ \E b \in {0, 1} : ProcessScanResponse(b)
    \/ EndScan \/ ReceiverChangesEpoch
    \/ Tick

Spec == Init /\ [][Next]_vars

-----------------------------------------------------------------------------
(***************************************************************************)
(* Number and time keep the sender's epochs apart, whatever was missed in  *)
(* between: the filters of an epoch, the evidence taken from them, the     *)
(* symbols of the latest one and the key it decodes to are all of the same *)
(* key.  An epoch before it may get leftover symbols of another.           *)
(***************************************************************************)
IsOfKey(i, k) ==
    /\ IsDecoded(epochs[i]) => epochs[i].remote = k
    /\ \A s \in epochs[i].symbols : s.of = k \/ (i < Len(epochs) /\ s.index >= AdvN)
    /\ \A s \in epochs[i].counted : s.of = k
    /\ \A j \in DOMAIN epochs[i].blooms : \A s \in epochs[i].blooms[j].segments : s.of = k

EpochsAreUnmixed == \A i \in DOMAIN epochs : \E k \in Key \ {0} : IsOfKey(i, k)

(***************************************************************************)
(* EbNRadioBT4.cpp:504-506 on the leftover symbols: "Processing the DH     *)
(* symbol for the previous epoch if we are within the first K-1 symbols in *)
(* the epoch, and the previous epoch exists in a non-decoded state".  So a *)
(* decoder gets the symbols of one key, and what it decodes is that key.   *)
(***************************************************************************)
SecretsAreOfKeys == \A s \in secrets : s.remote # 0

(***************************************************************************)
(* processEpochs takes blooms.back() of an epoch it decodes without        *)
(* looking: one that is still to be decoded must have a filter.            *)
(***************************************************************************)
UndecodedHasBloom ==
    \A i \in DOMAIN epochs : ~IsDecoded(epochs[i]) => epochs[i].blooms # <<>>

(***************************************************************************)
(* Whichever is later, the decoding or the own epoch change: a decoded key *)
(* has a secret with the own key of now, the one the remote device looks   *)
(* for, and advertises, when it decodes us.                                *)
(***************************************************************************)
LatestHasSecret ==
    epochs # <<>> /\ IsDecoded(Back(epochs)) =>
        \E s \in secrets : s.own = ownKey /\ s.remote = Back(epochs).remote

(***************************************************************************)
(* Any K + 2 consecutive adverts of an epoch decode its key: the duplicate *)
(* test may cost two of them, and nothing costs more.                      *)
(***************************************************************************)
IsDecodedOnAir == \E s \in secrets : s.remote = onAir.key

KPlus2Decode == inARow >= K + 2 => IsDecodedOnAir

(***************************************************************************)
(* EbNRadioBT4.cpp:324-326 on the leftover symbols: "This allows a user to *)
(* decode if they receive any K consecutive packets".                      *)
(***************************************************************************)
KConsecutiveDecode == inARow >= K => IsDecodedOnAir

(***************************************************************************)
(* EbNRadioBT4.cpp:485: "Skip processing any advertisement that we have    *)
(* already seen".  So no segment confirms a secret twice.                  *)
(***************************************************************************)
EvidenceCountsOnce == ~twice
=============================================================================
