-------------------------------- MODULE BT2NR --------------------------------
(***************************************************************************)
(* EbNRadioBT2NR: public key and Bloom filter of a node are its name.      *)
(*                                                                         *)
(* Inquiries find addresses only; handshake() asks each device for its     *)
(* name, takes it apart again, makes a secret with the key and strikes     *)
(* from the matching set what is not in the filter.  The name must survive *)
(* as text: it goes through BinaryToUTF8 and through C strings.            *)
(*                                                                         *)
(* The bits are real ones, fewer of them: 2 + KeyBits + FilterBits instead *)
(* of 1723.  What SHA-1 makes of a value and its prefix is a constant.     *)
(***************************************************************************)
EXTENDS BitMap, Address, FiniteSets

CONSTANTS NULL,
          KeyBits, FilterBits, \* keySize_, BF_M
          BFN,                 \* BF_N, the values a filter is made for
          Value,               \* link values
          KeyX,                \* the X values keys are drawn from, as numbers
          Positions,           \* the bits of a value, for a prefix
          Noise,               \* the bits random values may set
          Random,              \* the bytes rand() may draw for an address
          Lists,               \* the advertised and listen sets the application sets
          FirstAddress, FirstKey,
          MaxEpochs            \* bound: the sender's epochs

\* What the constants have to be.
NRAssumption ==
    /\ {KeyBits, FilterBits, BFN, MaxEpochs} \subseteq Nat
    /\ KeyX \subseteq Byte /\ KeyBits = 8
    /\ Positions \in [KeyX \X Value -> SUBSET (0 .. FilterBits - 1)]
    /\ Noise \subseteq SUBSET (0 .. FilterBits - 1)
    /\ Random \subseteq Byte \X Byte \X Byte
    /\ Lists \subseteq Seq(Value)
    /\ VerifyChecksum(FirstAddress)
    /\ FirstKey \in [x : KeyX, y : 0 .. 1]

NameBits == 2 + KeyBits + FilterBits     \* NAME_DECODED_SIZE

Bytes(bits) == (bits + 7) \div 8

VARIABLES
    \* the sender
    address,          \* its public address
    dhExchange,       \* its key
    epoch,            \* how many it had
    advertised,       \* advertisedSet_
    name,             \* its local name, NULL while it is one of somebody else's
    \* the receiver
    listen,           \* listenSet_
    device,           \* what it keeps of the sender, or NULL
    \* ghosts
    keys,             \* the keys the sender had
    inName            \* the values that went into the name

nrVars == <<address, dhExchange, epoch, advertised, name, listen, device, keys, inName>>

Init ==
    /\ address = FirstAddress /\ dhExchange = FirstKey /\ epoch = 1
    /\ advertised = <<>> /\ listen = {} /\ name = NULL /\ device = NULL
    /\ keys = {FirstKey} /\ inName = {}

-----------------------------------------------------------------------------
(***************************************************************************)
(* The sender.                                                             *)
(***************************************************************************)
Zeros(bits) == [i \in 0 .. Bytes(bits) - 1 |-> 0]

BitsSet(array, bits) ==
    [i \in DOMAIN array |->
        LET own == {b \in 0 .. 7 : 8 * i + b \in bits \/ GetBit(array, 8 * i + b) = 1}
            sum[b \in 0 .. 8] == IF b = 8 THEN 0
                                 ELSE (IF b \in own THEN 2 ^ b ELSE 0) + sum[b + 1]
        IN  sum[0]]

\* fillBloomFilter: at most BF_N values of the set, random ones for the rest.
Taken(list) == {list[i] : i \in {i \in DOMAIN list : i <= BFN}}

Filters(list, prefix) ==
    LET own == UNION {Positions[<<prefix, v>>] : v \in Taken(list)}
        rest == IF Cardinality(Taken(list)) < BFN THEN Noise ELSE {{}}
    IN  {BitsSet(Zeros(FilterBits), own \cup r) : r \in rest}

\* Bug: the filter goes on before the place of the Y bit is counted.
BugAdvert(filter) ==
    LET y == BitsSet(Zeros(NameBits), {1} \cap {dhExchange.y})
        x == Bitcpy(y, 2, [i \in {0} |-> dhExchange.x], 0, KeyBits)
    IN  Bitcpy(x, 1 + KeyBits, filter, 0, FilterBits)

\* The version bit is 0, then come Y, X and the filter.
Advert(filter) ==
    LET y == BitsSet(Zeros(NameBits), {1} \cap {dhExchange.y})
        x == Bitcpy(y, 2, [i \in {0} |-> dhExchange.x], 0, KeyBits)
    IN  Bitcpy(x, 2 + KeyBits, filter, 0, FilterBits)

\* In every round, and at the end of initialize and changeEpoch, which make
\* the node discoverable.
ChangeAdvert ==
    /\ \E filter \in Filters(advertised, dhExchange.x) :
         name' = Encode(Advert(filter), NameBits)
    /\ inName' = Taken(advertised)
    /\ UNCHANGED <<address, dhExchange, epoch, advertised, listen, device, keys>>

\* changeEpoch up to there: the reset of the adapter took the name with it.
ChangeEpoch ==
    /\ epoch < MaxEpochs
    /\ epoch' = epoch + 1
    /\ \E x \in KeyX, y \in 0 .. 1 : dhExchange' = [x |-> x, y |-> y]
    /\ keys' = keys \cup {dhExchange'}
    /\ address' \in Shifted(address, Random, {})
    /\ name' = NULL /\ inName' = {}
    /\ UNCHANGED <<advertised, listen, device>>

\* The applications of the two.
SetAdvertisedSet ==
    /\ advertised' \in Lists \ {advertised}
    /\ UNCHANGED <<address, dhExchange, epoch, name, listen, device, keys, inName>>

SetListenSet ==
    /\ \E list \in Lists : listen' = {list[i] : i \in DOMAIN list}
    /\ UNCHANGED <<address, dhExchange, epoch, advertised, name, device, keys, inName>>

-----------------------------------------------------------------------------
(***************************************************************************)
(* The receiver.  Its device map finds an address as it is or by the one   *)
(* it is a shift of; any other address is a new device.                    *)
(***************************************************************************)
IsKnown == device # NULL /\ (address = device.address \/ IsShift(address, device.address))

Discover ==
    /\ name # NULL
    /\ device' = IF IsKnown
                 THEN [device EXCEPT !.address = address, !.epoch = epoch]
                 ELSE [address |-> address, matching |-> listen, secrets |-> {},
                       epoch |-> epoch, shared |-> listen]
    /\ UNCHANGED <<address, dhExchange, epoch, advertised, name, listen, keys, inName>>

\* A filter of the bits read, and whether it has all bits of a value.
MayContain(filter, prefix, v) ==
    \A p \in Positions[<<prefix, v>>] : GetBit(filter, p) = 1

(***************************************************************************)
(* readRemoteName and the rest of handshake().  A name comes back as a C   *)
(* string, up to its first zero byte.  Nobody answers at an address that   *)
(* has changed since, and a name of another length is ignored.             *)
(***************************************************************************)
CString(text) ==
    LET zeros == {i \in DOMAIN text : text[i] = 0}
    IN  IF zeros = {} THEN text
        ELSE SubSeq(text, 1, (CHOOSE i \in zeros : \A j \in zeros : i <= j) - 1)

\* Bug: the key is read from where the version bit is.
BugReadKey(advert) ==
    [x |-> Bitcpy(Zeros(KeyBits), 0, advert, 1, KeyBits)[0], y |-> GetBit(advert, 0)]

ReadKey(advert) ==
    [x |-> Bitcpy(Zeros(KeyBits), 0, advert, 2, KeyBits)[0], y |-> GetBit(advert, 1)]

IsAccepted(text) == Len(text) = NumEncodedBytes(NameBits)

Handshake ==
    /\ device # NULL /\ device.address = address /\ name # NULL
    /\ LET text   == CString(name)
           advert == Decode(text, Bytes(NameBits))
           key    == ReadKey(advert)
           filter == Bitcpy(Zeros(FilterBits), 0, advert, 2 + KeyBits, FilterBits)
       IN  IF ~IsAccepted(text) THEN UNCHANGED device
           ELSE device' = [device EXCEPT
                    !.secrets = @ \cup {key},
                    !.matching = {v \in @ : key.x \in KeyX => MayContain(filter, key.x, v)},
                    !.shared = @ \cap inName]
    /\ UNCHANGED <<address, dhExchange, epoch, advertised, name, listen, keys, inName>>

Next ==
    \/ ChangeAdvert \/ ChangeEpoch \/ SetAdvertisedSet \/ SetListenSet
    \/ Discover \/ Handshake

Spec == Init /\ [][Next]_nrVars

-----------------------------------------------------------------------------
(***************************************************************************)
(* Whatever key and filter it stands for, a name has the length by which   *)
(* handshake() knows names of this protocol, also after the C strings it   *)
(* goes through have cut it at a zero byte.                                *)
(***************************************************************************)
NameIsAccepted == name # NULL => IsAccepted(CString(name))

(***************************************************************************)
(* A secret is made with a key the sender had, X and Y of one key.         *)
(***************************************************************************)
KeyIsRead == device # NULL => device.secrets \subseteq keys

(***************************************************************************)
(* What both sides have stays in the matching set: a value the receiver    *)
(* listens for is struck out only if some name read was made without it.   *)
(***************************************************************************)
SharedIsFound == device # NULL => device.shared \subseteq device.matching

(***************************************************************************)
(* A device met again after at most one change of its address is the same  *)
(* device, with the secrets and the matching set it had.                   *)
(***************************************************************************)
DeviceFollowsShift ==
    [][device # NULL /\ device.address # address /\ epoch <= device.epoch + 1 /\ device' # device
          => device' = [device EXCEPT !.address = address, !.epoch = epoch]]_nrVars
=============================================================================
