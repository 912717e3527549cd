-------------------------- MODULE BT4Epochs_proofs --------------------------
(***************************************************************************)
(* What holds of the epochs a BT4 receiver puts together, whatever it      *)
(* misses and repeats and however it drifts: first whatever the times are, *)
(* then what the lengths of rounds and epochs bring about.                 *)
(***************************************************************************)
EXTENDS BT4Epochs, FiniteSetTheorems, TLAPS

\* The numbers of a pair are an even one and the one after it.
PairsInv ==
    /\ advertNum % 2 = 0
    /\ onAir.num % 2 = 0 /\ onAir.key # 0

\* How many epochs there can have been.
KeysInv ==
    /\ key # 0 /\ keyDue >= 1 + key * EpochInterval
    /\ ownKeyDue >= 1 + ownKey * EpochInterval
    /\ now > 1 => now <= MaxTime

(***************************************************************************)
(* Of each epoch: a filter until it is decoded.  Of the latest: a secret   *)
(* of the own key of now once it is decoded, and until then the exchange   *)
(* the secret will be made of.                                             *)
(***************************************************************************)
HasBloom(epoch) == ~IsDecoded(epoch) => epoch.blooms # <<>>

HasSecret(epoch, known) ==
    IF IsDecoded(epoch)
    THEN \E s \in known : s.own = ownKey /\ s.remote = epoch.remote
    ELSE ownKey \in epoch.dhExchanges

LatestInv == epochs # <<>> => HasSecret(Back(epochs), secrets)

EpochsInv == EpochsTypeOK /\ PairsInv /\ KeysInv /\ UndecodedHasBloom /\ LatestInv

-----------------------------------------------------------------------------
(***************************************************************************)
(* The constants, and the epochs that fit into MaxTime.                    *)
(***************************************************************************)
LEMMA Sizes ==
    /\ AdvN \in Nat /\ AdvN >= 2 /\ AdvN % 2 = 0 /\ K \in Nat /\ 1 < K /\ K <= AdvN
    /\ EpochInterval \in Nat \ {0} /\ MaxTime \in Nat
    /\ SendJitter \cup ScanJitter \cup Offsets \subseteq Nat \ {0}
  <1>1. /\ AdvN \in Nat /\ AdvN % 2 = 0 /\ K \in Nat /\ 1 < K /\ K <= AdvN
        /\ EpochInterval \in Nat \ {0} /\ MaxTime \in Nat
        /\ SendJitter \cup ScanJitter \cup Offsets \subseteq Nat \ {0}
    BY EpochsAssumption
  <1> QED BY <1>1

LEMMA DivBound ==
    ASSUME NEW a \in Nat, NEW s \in Nat \ {0}, NEW m \in Nat, a * s <= m
    PROVE  m \div s \in Nat /\ a <= m \div s
  BY Z3

LEMMA OneMore ==
    ASSUME NEW a \in Nat, NEW s \in Nat \ {0}
    PROVE  (a + 1) * s = a * s + s /\ a * s \in Nat
  BY Z3

LEMMA NextPair ==
    ASSUME NEW a \in Nat, NEW m \in Nat, a % 2 = 0, m % 2 = 0, a < m
    PROVE  a + 2 <= m /\ (a + 2) % 2 = 0
  BY Z3

LEMMA KeysAreFirst ==
    /\ 0 \in Key /\ 1 \in Key /\ Key \subseteq Nat
    /\ \A k \in Key : k # 0 => k - 1 \in Key
  <1>1. 0 * EpochInterval <= MaxTime
    BY Sizes
  <1>2. MaxTime \div EpochInterval \in Nat
    BY <1>1, Sizes, DivBound
  <1> QED BY <1>2 DEF Key

\* A key drawn within the time is one of Key.
LEMMA NextKey ==
    ASSUME NEW k \in Key, NEW due \in Nat, due >= 1 + k * EpochInterval,
           now \in Nat, now = due, now > 1 => now <= MaxTime
    PROVE  k + 1 \in Key
  <1>1. k \in Nat
    BY KeysAreFirst
  <1>2. k * EpochInterval \in Nat
    BY <1>1, Sizes, OneMore
  <1>3. k = 0 \/ k * EpochInterval > 0
    BY <1>1, Sizes, Z3
  <1>4. CASE k = 0
    BY <1>4, KeysAreFirst
  <1>5. CASE k * EpochInterval > 0
    <2>1. k * EpochInterval <= MaxTime
      BY <1>2, <1>5, Sizes
    <2>2. k <= MaxTime \div EpochInterval /\ MaxTime \div EpochInterval \in Nat
      BY <1>1, <2>1, Sizes, DivBound
    <2> QED BY <1>1, <2>2 DEF Key
  <1> QED BY <1>3, <1>4, <1>5

-----------------------------------------------------------------------------
(***************************************************************************)
(* What the parts of processAdvert do to an epoch.                         *)
(***************************************************************************)
LEMMA SymbolKeeps ==
    ASSUME NEW epoch \in Epoch, NEW symbol \in Symbol
    PROVE  /\ SetSymbol(epoch, symbol) \in Epoch
           /\ SetSymbol(epoch, symbol).decodeBloomNum = epoch.decodeBloomNum
           /\ SetSymbol(epoch, symbol).remote = epoch.remote
           /\ SetSymbol(epoch, symbol).dhExchanges = epoch.dhExchanges
           /\ SetSymbol(epoch, symbol).blooms = epoch.blooms
  BY DEF SetSymbol, Epoch

LEMMA SegmentFits ==
    ASSUME NEW bloom \in Bloom, NEW segment \in Segment
    PROVE  SetSegment(bloom, segment) \in Bloom
  BY DEF SetSegment, Bloom

LEMMA BloomNumbers ==
    ASSUME NEW n \in AdvertNum
    PROVE  n \div B \in BloomNum
  BY Sizes DEF AdvertNum, BloomNum, B

LEMMA AppendFits ==
    ASSUME NEW S, NEW q \in Seq(S), NEW e \in S
    PROVE  Append(q, e) \in Seq(S) /\ Append(q, e) # <<>> /\ Len(Append(q, e)) = Len(q) + 1
  <1>1. Append(q, e) \in Seq(S) /\ Len(Append(q, e)) = Len(q) + 1 /\ Len(q) \in Nat
    OBVIOUS
  <1> QED BY <1>1

LEMMA SegmentKeeps ==
    ASSUME NEW epoch \in Epoch, NEW segment \in Segment
    PROVE  /\ AddSegment(epoch, segment) \in Epoch
           /\ AddSegment(epoch, segment).decodeBloomNum = epoch.decodeBloomNum
           /\ AddSegment(epoch, segment).remote = epoch.remote
           /\ AddSegment(epoch, segment).dhExchanges = epoch.dhExchanges
           /\ AddSegment(epoch, segment).blooms # <<>>
  <1>1. PICK blooms, num, empty :
          /\ blooms = epoch.blooms /\ num = segment.num \div B
          /\ empty = [num |-> num, segments |-> {}, fresh |-> {}]
    OBVIOUS
  <1>2. blooms \in Seq(Bloom)
    BY <1>1 DEF Epoch
  <1>3. empty \in Bloom
    BY <1>1, BloomNumbers DEF Bloom, Segment
  <1>4. CASE blooms # <<>> /\ Back(blooms).num = num
    <2>1. Len(blooms) \in 1 .. Len(blooms) /\ Back(blooms) \in Bloom
      BY <1>2, <1>4 DEF Back
    <2>2. PICK last : last = SetSegment(blooms[Len(blooms)], segment) /\ last \in Bloom
      BY <2>1, SegmentFits DEF Back
    <2>3. AddSegment(epoch, segment) = [epoch EXCEPT !.blooms = [@ EXCEPT ![Len(blooms)] = last]]
      BY <1>1, <1>4, <2>2 DEF AddSegment
    <2>4. /\ [blooms EXCEPT ![Len(blooms)] = last] \in Seq(Bloom)
          /\ [blooms EXCEPT ![Len(blooms)] = last] # <<>>
      BY <1>2, <2>1, <2>2
    <2> QED BY <1>1, <2>3, <2>4 DEF Epoch
  <1>5. CASE ~(blooms # <<>> /\ Back(blooms).num = num)
    <2>1. PICK new : new = SetSegment(empty, segment) /\ new \in Bloom
      BY <1>3, SegmentFits
    <2>2. AddSegment(epoch, segment) = [epoch EXCEPT !.blooms = Append(@, new)]
      BY <1>1, <1>5, <2>1 DEF AddSegment
    <2>3. Append(blooms, new) \in Seq(Bloom) /\ Append(blooms, new) # <<>>
      BY <1>2, <2>1, AppendFits
    <2> QED BY <1>1, <2>2, <2>3 DEF Epoch
  <1> QED BY <1>4, <1>5

\* The advert goes into the last epoch, which has a filter then; each keeps
\* what it was decoded to.
LEMMA AdvertKeeps ==
    ASSUME onAir \in [num : AdvertNum, key : Key], onAir.key # 0,
           NEW es \in Seq(Epoch), es # <<>>, NEW n \in AdvertNum,
           \A i \in 1 .. Len(es) - 1 : HasBloom(es[i])
    PROVE  /\ AddAdvert(es, n) \in Seq(Epoch) /\ Len(AddAdvert(es, n)) = Len(es)
           /\ \A i \in 1 .. Len(es) :
                /\ HasBloom(AddAdvert(es, n)[i])
                /\ AddAdvert(es, n)[i].decodeBloomNum = es[i].decodeBloomNum
                /\ AddAdvert(es, n)[i].remote = es[i].remote
                /\ AddAdvert(es, n)[i].dhExchanges = es[i].dhExchanges
  <1>1. PICK symbol, left, segment :
          /\ symbol = [index |-> n, of |-> onAir.key]
          /\ left = [index |-> AdvN + n, of |-> onAir.key - 1]
          /\ segment = [num |-> n, of |-> onAir.key]
    OBVIOUS
  <1>2. onAir.key \in Key /\ onAir.key - 1 \in Key
    <2>1. onAir.key \in Key
      OBVIOUS
    <2> QED BY <2>1, KeysAreFirst
  <1>3. symbol \in Symbol /\ segment \in Segment
    BY <1>1, <1>2, Sizes DEF Symbol, Segment, SymbolNum, AdvertNum
  <1>4. n < K - 1 => left \in Symbol
    BY <1>1, <1>2, Sizes DEF Symbol, SymbolNum, AdvertNum
  <1>5. PICK last, f : last = Len(es) /\ last \in Nat \ {0} /\ f = AddAdvert(es, n)
    OBVIOUS
  <1>6. f = [i \in 1 .. last |->
               IF i = last THEN AddSegment(SetSymbol(es[last], symbol), segment)
               ELSE IF i = last - 1 /\ n < K - 1 THEN SetSymbol(es[i], left)
               ELSE es[i]]
    BY <1>1, <1>5 DEF AddAdvert
  <1>7. ASSUME NEW i \in 1 .. last
        PROVE  /\ f[i] \in Epoch /\ HasBloom(f[i])
               /\ f[i].decodeBloomNum = es[i].decodeBloomNum
               /\ f[i].remote = es[i].remote
               /\ f[i].dhExchanges = es[i].dhExchanges
    <2>1. es[i] \in Epoch
      BY <1>5, <1>7
    <2>2. CASE i = last
      <3>1. PICK own : own = SetSymbol(es[i], symbol)
        OBVIOUS
      <3>2. /\ own \in Epoch /\ own.decodeBloomNum = es[i].decodeBloomNum
            /\ own.remote = es[i].remote /\ own.dhExchanges = es[i].dhExchanges
        BY <1>3, <2>1, <3>1, SymbolKeeps
      <3>3. f[i] = AddSegment(own, segment)
        BY <1>6, <2>2, <3>1
      <3> QED BY <1>3, <3>2, <3>3, SegmentKeeps DEF HasBloom
    <2>3. CASE i # last
      <3>1. i \in 1 .. Len(es) - 1 /\ HasBloom(es[i])
        BY <1>5, <1>7, <2>3
      <3>2. CASE i = last - 1 /\ n < K - 1
        <4>1. f[i] = SetSymbol(es[i], left)
          BY <1>6, <2>3, <3>2
        <4> QED BY <1>4, <2>1, <3>1, <3>2, <4>1, SymbolKeeps DEF HasBloom, IsDecoded
      <3>3. CASE ~(i = last - 1 /\ n < K - 1)
        <4>1. f[i] = es[i]
          BY <1>6, <2>3, <3>3
        <4> QED BY <2>1, <3>1, <4>1
      <3> QED BY <3>2, <3>3
    <2> QED BY <2>2, <2>3
  <1>8. f \in Seq(Epoch) /\ Len(f) = last
    BY <1>5, <1>6, <1>7
  <1> QED BY <1>5, <1>7, <1>8

\* The last of a sequence is the latest epoch.
LEMMA Backs ==
    ASSUME NEW S, NEW q \in Seq(S), q # <<>>
    PROVE  Len(q) \in Nat \ {0} /\ Back(q) = q[Len(q)] /\ Back(q) \in S
  BY DEF Back

LEMMA OneOrTwo ==
    ASSUME NEW S, NEW q \in Seq(S), q # <<>>, Len(q) <= 2
    PROVE  Len(q) \in 1 .. 2 /\ q[Len(q)] \in S
  <1>1. Len(q) \in Nat \ {0}
    OBVIOUS
  <1>2. Len(q) \in 1 .. 2
    <2>1. PICK n : n = Len(q) /\ n \in Nat /\ n # 0 /\ n <= 2
      BY <1>1
    <2>2. n >= 1
      BY ONLY <2>1
    <2>3. n \in 1 .. 2
      BY ONLY <2>1, <2>2
    <2> QED BY ONLY <2>1, <2>3
  <1>3. q[Len(q)] \in S
    BY <1>1
  <1> QED BY <1>2, <1>3

\* An epoch like one that has its secret has its secret.
LEMMA SecretStays ==
    ASSUME NEW e, NEW f, NEW known, NEW more, HasSecret(e, known), known \subseteq more,
           f.decodeBloomNum = e.decodeBloomNum, f.remote = e.remote,
           f.dhExchanges = e.dhExchanges
    PROVE  HasSecret(f, more)
  BY DEF HasSecret, IsDecoded

LEMMA ProcessAdvertKeeps ==
    ASSUME onAir \in [num : AdvertNum, key : Key], onAir.key # 0,
           now \in Nat, ownKey \in Key, address \in Key,
           NEW es \in Seq(Epoch), NEW n \in AdvertNum, NEW known,
           \A i \in 1 .. Len(es) : HasBloom(es[i]),
           es # <<>> => HasSecret(Back(es), known)
    PROVE  /\ ProcessAdvert(es, n) \in Seq(Epoch) /\ ProcessAdvert(es, n) # <<>>
           /\ \A i \in 1 .. Len(ProcessAdvert(es, n)) : HasBloom(ProcessAdvert(es, n)[i])
           /\ HasSecret(Back(ProcessAdvert(es, n)), known)
  <1>1. CASE ProcessAdvert(es, n) = es /\ es # <<>>
    BY <1>1
  <1>2. CASE ProcessAdvert(es, n) = AddAdvert(es, n) /\ es # <<>>
    <2>1. PICK f : f = AddAdvert(es, n)
      OBVIOUS
    <2>2. /\ f \in Seq(Epoch) /\ Len(f) = Len(es) /\ Len(es) \in Nat \ {0}
          /\ \A i \in 1 .. Len(es) :
               /\ HasBloom(f[i]) /\ f[i].decodeBloomNum = es[i].decodeBloomNum
               /\ f[i].remote = es[i].remote /\ f[i].dhExchanges = es[i].dhExchanges
      <3>1. es # <<>> /\ \A i \in 1 .. Len(es) - 1 : HasBloom(es[i])
        BY <1>2
      <3>2. Len(es) \in Nat \ {0}
        BY <1>2
      <3> QED BY <2>1, <3>1, <3>2, AdvertKeeps
    <2>3. HasSecret(Back(f), known)
      BY <1>2, <2>2, SecretStays DEF Back
    <2> QED BY <1>2, <2>1, <2>2, <2>3
  <1>3. CASE ProcessAdvert(es, n) = AddAdvert(Append(es, NewEpoch(n)), n)
    <2>1. PICK new, longer, f :
            /\ new = NewEpoch(n) /\ longer = Append(es, new) /\ f = AddAdvert(longer, n)
      OBVIOUS
    <2>2. /\ new \in Epoch /\ ~IsDecoded(new) /\ ownKey \in new.dhExchanges
      BY <2>1, KeysAreFirst DEF NewEpoch, Epoch, IsDecoded
    <2>3. /\ longer \in Seq(Epoch) /\ longer # <<>> /\ Len(longer) = Len(es) + 1
          /\ Len(es) \in Nat
          /\ \A i \in 1 .. Len(es) : longer[i] = es[i]
          /\ longer[Len(es) + 1] = new
      BY <2>1, <2>2
    <2>4. \A i \in 1 .. Len(longer) - 1 : HasBloom(longer[i])
      BY <2>3
    <2>5. /\ f \in Seq(Epoch) /\ Len(f) = Len(longer)
          /\ \A i \in 1 .. Len(longer) :
               /\ HasBloom(f[i]) /\ f[i].decodeBloomNum = longer[i].decodeBloomNum
               /\ f[i].remote = longer[i].remote /\ f[i].dhExchanges = longer[i].dhExchanges
      <3>1. longer \in Seq(Epoch) /\ longer # <<>> /\ f = AddAdvert(longer, n)
        BY <2>1, <2>3
      <3> QED BY <2>4, <3>1, AdvertKeeps
    <2>6. HasSecret(Back(f), known)
      BY <2>2, <2>3, <2>5 DEF Back, HasSecret, IsDecoded
    <2>7. f # <<>>
      BY <2>3, <2>5
    <2> QED BY <1>3, <2>1, <2>5, <2>6, <2>7
  <1> QED BY <1>1, <1>2, <1>3 DEF ProcessAdvert

-----------------------------------------------------------------------------
(***************************************************************************)
(* processEpochs.                                                          *)
(***************************************************************************)
LEMMA KeyOfIsKey ==
    ASSUME NEW symbols
    PROVE  KeyOf(symbols) \in Key
  BY KeysAreFirst DEF KeyOf

\* Decoding makes the secrets that NewSecrets counts.
LEMMA DecodeKeeps ==
    ASSUME NEW epoch \in Epoch, HasBloom(epoch)
    PROVE  /\ Decode(epoch) \in Epoch /\ HasBloom(Decode(epoch))
           /\ Decode(epoch).blooms = epoch.blooms
           /\ Decode(epoch).dhExchanges = epoch.dhExchanges
           /\ \/ Decode(epoch) = epoch
              \/ CanDecode(epoch) /\ Decode(epoch).remote = KeyOf(epoch.symbols)
  <1>1. CASE CanDecode(epoch)
    <2>1. PICK num, remote : num = Back(epoch.blooms).num /\ remote = KeyOf(epoch.symbols)
      OBVIOUS
    <2>2. epoch.blooms \in Seq(Bloom) /\ epoch.blooms # <<>>
      BY <1>1 DEF CanDecode, HasBloom, Epoch
    <2>3. num \in BloomNum
      <3>1. Back(epoch.blooms) \in Bloom
        BY ONLY <2>2, Backs
      <3> QED BY <2>1, <3>1 DEF Bloom
    <2>4. Decode(epoch) = [epoch EXCEPT !.decodeBloomNum = num, !.remote = remote, !.symbols = {}]
      BY <1>1, <2>1 DEF Decode
    <2>5. PICK next : next = Decode(epoch)
      OBVIOUS
    <2>6. remote \in Key
      BY <2>1, KeyOfIsKey
    <2>7. /\ next \in Epoch /\ next.blooms = epoch.blooms /\ next.remote = remote
          /\ next.dhExchanges = epoch.dhExchanges
      BY ONLY <2>3, <2>4, <2>5, <2>6, epoch \in Epoch DEF Epoch
    <2> QED BY <1>1, <2>1, <2>2, <2>5, <2>7 DEF HasBloom
  <1>2. CASE ~CanDecode(epoch)
    <2>1. Decode(epoch) = epoch
      BY <1>2 DEF Decode
    <2>2. PICK next : next = Decode(epoch)
      OBVIOUS
    <2>3. next = epoch
      BY <2>1, <2>2
    <2> QED BY ONLY <2>2, <2>3, epoch \in Epoch, HasBloom(epoch)
  <1> QED BY <1>1, <1>2

LEMMA UnfinishedFits ==
    ASSUME NEW blooms \in Seq(Bloom), blooms # <<>>
    PROVE  Unfinished(blooms) \in Seq(Bloom)
  <1>1. [Back(blooms) EXCEPT !.fresh = {}] \in Bloom
    <2>1. Back(blooms) \in Bloom
      BY Backs
    <2> QED BY <2>1 DEF Bloom
  <1> QED BY <1>1 DEF Unfinished

LEMMA LookKeeps ==
    ASSUME NEW epoch \in Epoch, HasBloom(epoch)
    PROVE  /\ LookAtBlooms(epoch) \in Epoch /\ HasBloom(LookAtBlooms(epoch))
           /\ LookAtBlooms(epoch).decodeBloomNum = epoch.decodeBloomNum
           /\ LookAtBlooms(epoch).remote = epoch.remote
           /\ LookAtBlooms(epoch).dhExchanges = epoch.dhExchanges
  <1>1. CASE IsDecoded(epoch) /\ epoch.blooms # <<>>
    <2>1. PICK blooms, counted :
            blooms = Unfinished(epoch.blooms) /\ counted = epoch.counted \cup Evidence(epoch)
      OBVIOUS
    <2>2. blooms \in Seq(Bloom)
      BY <1>1, <2>1, UnfinishedFits DEF Epoch
    <2>3. Evidence(epoch) \subseteq Segment
      <3>1. \A i \in DOMAIN epoch.blooms : epoch.blooms[i].fresh \subseteq Segment
        <4>1. epoch.blooms \in Seq(Bloom)
          BY DEF Epoch
        <4>2. \A i \in DOMAIN epoch.blooms : epoch.blooms[i] \in Bloom
          BY ONLY <4>1
        <4>3. \A b \in Bloom : b.fresh \subseteq Segment
          BY DEF Bloom
        <4> QED BY ONLY <4>2, <4>3
      <3> QED BY ONLY <3>1 DEF Evidence
    <2>4. LookAtBlooms(epoch) = [epoch EXCEPT !.blooms = blooms, !.counted = counted]
      BY <1>1, <2>1 DEF LookAtBlooms
    <2> QED BY <1>1, <2>1, <2>2, <2>3, <2>4 DEF Epoch, HasBloom, IsDecoded
  <1>2. CASE ~(IsDecoded(epoch) /\ epoch.blooms # <<>>)
    BY <1>2 DEF LookAtBlooms
  <1> QED BY <1>1, <1>2

LEMMA KeepTheLast ==
    ASSUME NEW es \in Seq(Epoch), es # <<>>
    PROVE  /\ KeepEpochs(es) \in Seq(Epoch) /\ Len(KeepEpochs(es)) \in 1 .. 2
           /\ Back(KeepEpochs(es)) = Back(es)
           /\ \A i \in 1 .. Len(KeepEpochs(es)) :
                \E j \in 1 .. Len(es) : KeepEpochs(es)[i] = es[j]
  <1>1. PICK last : last = Len(es) /\ last \in Nat \ {0} /\ es[last] \in Epoch
    OBVIOUS
  <1>2. CASE last > 1 /\ ~IsDecoded(es[last - 1])
    <2>1. KeepEpochs(es) = <<es[last - 1], es[last]>>
      BY <1>1, <1>2 DEF KeepEpochs
    <2>2. es[last - 1] \in Epoch /\ last - 1 \in 1 .. Len(es) /\ last \in 1 .. Len(es)
      BY <1>1, <1>2
    <2> QED BY <1>1, <2>1, <2>2 DEF Back
  <1>3. CASE ~(last > 1 /\ ~IsDecoded(es[last - 1]))
    <2>1. KeepEpochs(es) = <<es[last]>>
      BY <1>1, <1>3 DEF KeepEpochs
    <2> QED BY <1>1, <2>1 DEF Back
  <1> QED BY <1>2, <1>3

LEMMA ProcessEpochsKeeps ==
    ASSUME NEW es \in Seq(Epoch), es # <<>>, NEW known, NEW more,
           \A i \in 1 .. Len(es) : HasBloom(es[i]),
           HasSecret(Back(es), known), known \cup NewSecrets(es) \subseteq more
    PROVE  /\ ProcessEpochs(es) \in Seq(Epoch) /\ Len(ProcessEpochs(es)) \in 1 .. 2
           /\ \A i \in 1 .. Len(ProcessEpochs(es)) : HasBloom(ProcessEpochs(es)[i])
           /\ HasSecret(Back(ProcessEpochs(es)), more)
  <1>0. PICK last : last = Len(es) /\ last \in Nat \ {0} /\ DOMAIN es = 1 .. last
    OBVIOUS
  <1>1. PICK f :
          /\ f = [i \in 1 .. last |-> LookAtBlooms(Decode(es[i]))]
          /\ f = [i \in DOMAIN es |-> LookAtBlooms(Decode(es[i]))]
          /\ last = Len(es) /\ last \in Nat \ {0} /\ DOMAIN es = 1 .. last
    BY <1>0
  <1>2. ASSUME NEW i \in 1 .. last
        PROVE  /\ f[i] \in Epoch /\ HasBloom(f[i])
               /\ f[i].decodeBloomNum = Decode(es[i]).decodeBloomNum
               /\ f[i].remote = Decode(es[i]).remote
               /\ f[i].dhExchanges = Decode(es[i]).dhExchanges
    <2>1. PICK epoch, next : epoch = es[i] /\ next = Decode(epoch)
      OBVIOUS
    <2>2. epoch \in Epoch /\ HasBloom(epoch)
      BY <1>1, <1>2, <2>1
    <2>3. next \in Epoch /\ HasBloom(next)
      BY <2>1, <2>2, DecodeKeeps
    <2>4. f[i] = LookAtBlooms(next)
      BY <1>1, <1>2, <2>1
    <2> QED BY <2>1, <2>3, <2>4, LookKeeps
  <1>3. f \in Seq(Epoch) /\ Len(f) = last
    BY <1>1, <1>2
  <1>4. HasSecret(f[last], more)
    <2>1. PICK epoch, next : epoch = es[last] /\ next = Decode(epoch)
      OBVIOUS
    <2>2. epoch \in Epoch /\ HasBloom(epoch) /\ HasSecret(epoch, known)
      BY <1>1, <2>1 DEF Back
    <2>3. /\ f[last].decodeBloomNum = next.decodeBloomNum
          /\ f[last].remote = next.remote /\ f[last].dhExchanges = next.dhExchanges
      BY <1>1, <1>2, <2>1
    <2>4. /\ next.dhExchanges = epoch.dhExchanges
          /\ \/ next = epoch
             \/ CanDecode(epoch) /\ next.remote = KeyOf(epoch.symbols)
      BY <2>1, <2>2, DecodeKeeps
    <2>5. CASE next = epoch
      BY <2>2, <2>3, <2>5, SecretStays
    <2>6. CASE CanDecode(epoch) /\ next.remote = KeyOf(epoch.symbols)
      <3>1. ownKey \in epoch.dhExchanges
        BY <2>2, <2>6 DEF CanDecode, HasSecret
      <3>2. PICK s : s = [own |-> ownKey, remote |-> KeyOf(epoch.symbols),
                          yCoord |-> epoch.yCoord]
        OBVIOUS
      <3>3. s \in NewSecrets(es)
        <4>1. last \in {i \in DOMAIN es : CanDecode(es[i])}
          BY <1>1, <2>1, <2>6
        <4>2. s \in {[own |-> own, remote |-> KeyOf(es[last].symbols),
                      yCoord |-> es[last].yCoord] : own \in es[last].dhExchanges}
          BY <2>1, <3>1, <3>2
        <4> QED BY <4>1, <4>2 DEF NewSecrets
      <3>4. s \in more /\ s.own = ownKey /\ s.remote = next.remote
        BY <2>6, <3>2, <3>3
      <3> QED BY <2>3, <2>4, <3>1, <3>4 DEF HasSecret
    <2> QED BY <2>4, <2>5, <2>6
  <1>5. f # <<>> /\ Back(f) = f[last] /\ ProcessEpochs(es) = KeepEpochs(f)
    BY <1>1, <1>3 DEF Back, ProcessEpochs
  <1> QED BY <1>2, <1>3, <1>4, <1>5, KeepTheLast

LEMMA NewSecretsFit ==
    ASSUME NEW es \in Seq(Epoch)
    PROVE  NewSecrets(es) \subseteq [own : Key, remote : Key, yCoord : Key]
  <1>1. ASSUME NEW i \in DOMAIN es, NEW own \in es[i].dhExchanges
        PROVE  [own |-> own, remote |-> KeyOf(es[i].symbols), yCoord |-> es[i].yCoord]
                 \in [own : Key, remote : Key, yCoord : Key]
    <2>1. es[i] \in Epoch
      BY <1>1
    <2>2. own \in Key /\ es[i].yCoord \in Key
      BY <1>1, <2>1 DEF Epoch
    <2> QED BY <2>2, KeyOfIsKey
  <1> QED BY <1>1 DEF NewSecrets

-----------------------------------------------------------------------------
(***************************************************************************)
(* The actions.                                                            *)
(***************************************************************************)
LEMMA InitEpochsInv == Init => EpochsInv
  <1> SUFFICES ASSUME Init PROVE EpochsInv
    OBVIOUS
  <1>1. PICK start \in Offsets : scanDue = start /\ ownKeyDue = start + EpochInterval
    BY DEF Init
  <1>2. start \in Nat \ {0} /\ EpochInterval \in Nat \ {0} /\ 1 * EpochInterval = EpochInterval
    BY Sizes
  <1>3. 0 \in AdvertNum /\ 2 \in 0 .. AdvN /\ 0 % 2 = 0 /\ 2 % 2 = 0
    BY Sizes DEF AdvertNum
  <1>4. EpochsTypeOK
    <2>1. /\ {now, sendDue, keyDue, scanDue, ownKeyDue, lastTime, inARow} \subseteq Nat
          /\ key \in Key /\ ownKey \in Key /\ address \in Key
      BY <1>1, <1>2, KeysAreFirst DEF Init
    <2>2. /\ advertNum \in 0 .. AdvN /\ onAir \in [num : AdvertNum, key : Key]
      BY <1>3, KeysAreFirst DEF Init
    <2>3. epochs \in Seq(Epoch) /\ Len(epochs) <= 2
      BY DEF Init
    <2> QED BY <2>1, <2>2, <2>3 DEF Init, EpochsTypeOK
  <1>5. PairsInv /\ KeysInv
    BY <1>1, <1>2, <1>3 DEF Init, PairsInv, KeysInv
  <1>6. UndecodedHasBloom /\ LatestInv
    BY DEF Init, UndecodedHasBloom, LatestInv
  <1> QED BY <1>4, <1>5, <1>6 DEF EpochsInv

LEMMA SenderSteps ==
    ASSUME EpochsInv, SenderChangesEpoch \/ ChangeAdvert \/ WaitForEpoch
    PROVE  EpochsInv'
  <1> USE DEF EpochsInv, EpochsTypeOK
  <1>1. /\ {now, sendDue, keyDue, scanDue, ownKeyDue, lastTime, inARow} \subseteq Nat
        /\ key \in Nat /\ ownKey \in Nat /\ EpochInterval \in Nat
    BY Sizes, KeysAreFirst
  <1>2. UndecodedHasBloom' /\ LatestInv'
    <2>1. UNCHANGED <<epochs, secrets, ownKey>>
      BY DEF SenderChangesEpoch, ChangeAdvert, WaitForEpoch, deviceVars
    <2> QED BY <2>1 DEF UndecodedHasBloom, LatestInv, HasSecret
  <1>3. CASE SenderChangesEpoch
    <2>1. key + 1 \in Key
      BY <1>1, <1>3, NextKey DEF SenderChangesEpoch, KeysInv
    <2>2. (key + 1) * EpochInterval = key * EpochInterval + EpochInterval
      BY <1>1, Sizes, OneMore
    <2>3. keyDue' \in Nat /\ keyDue' >= 1 + (key + 1) * EpochInterval
      <3>1. key * EpochInterval \in Nat
        BY <1>1, Sizes, OneMore
      <3>2. keyDue' = keyDue + EpochInterval /\ keyDue >= 1 + key * EpochInterval
        BY <1>3 DEF SenderChangesEpoch, KeysInv
      <3>3. PICK p, q : p = key * EpochInterval /\ q = (key + 1) * EpochInterval
        OBVIOUS
      <3>4. p \in Nat /\ q = p + EpochInterval /\ keyDue >= 1 + p
        BY ONLY <2>2, <3>1, <3>2, <3>3
      <3>5. keyDue' \in Nat /\ keyDue' >= 1 + q
        BY ONLY <1>1, <3>2, <3>4
      <3> QED BY ONLY <3>3, <3>5
    <2>4. KeysInv'
      BY <1>1, <1>3, <2>3 DEF SenderChangesEpoch, KeysInv
    <2>5. PairsInv'
      BY <1>3 DEF SenderChangesEpoch, PairsInv
    <2>6. address' \in Key
      BY <1>3, <2>1 DEF SenderChangesEpoch
    <2>7. EpochsTypeOK'
      BY <1>1, <1>3, <2>1, <2>3, <2>6, Sizes DEF SenderChangesEpoch, deviceVars, ghostVars
    <2> QED BY <1>2, <2>4, <2>5, <2>7
  <1>4. CASE ChangeAdvert
    <2>1. advertNum \in AdvertNum /\ (advertNum + 2) % 2 = 0 /\ advertNum + 2 \in 0 .. AdvN
      <3>1. advertNum \in Nat /\ advertNum % 2 = 0 /\ advertNum < AdvN
        BY <1>4 DEF ChangeAdvert, PairsInv
      <3>2. advertNum + 2 <= AdvN /\ (advertNum + 2) % 2 = 0
        BY <3>1, Sizes, NextPair
      <3> QED BY <3>1, <3>2, Sizes DEF AdvertNum
    <2>2. PairsInv' /\ KeysInv'
      BY <1>4, <2>1 DEF ChangeAdvert, PairsInv, KeysInv
    <2>3. PICK i \in SendJitter : sendDue' = sendDue + i
      BY <1>4 DEF ChangeAdvert, NextRound
    <2>4. sendDue' \in Nat
      <3>1. i \in Nat
        BY ONLY <2>3, Sizes
      <3> QED BY ONLY <1>1, <2>3, <3>1
    <2>5. inARow' \in Nat /\ heard' = {}
      BY <1>1, <1>4 DEF ChangeAdvert
    <2>6. EpochsTypeOK'
      BY <1>4, <2>1, <2>4, <2>5 DEF ChangeAdvert, deviceVars
    <2> QED BY <1>2, <2>2, <2>6
  <1>5. CASE WaitForEpoch
    <2>1. PICK i \in SendJitter : sendDue' = sendDue + i
      BY <1>5 DEF WaitForEpoch, NextRound
    <2>2. sendDue' \in Nat
      <3>1. i \in Nat
        BY ONLY <2>1, Sizes
      <3> QED BY ONLY <1>1, <2>1, <3>1
    <2>3. EpochsTypeOK' /\ PairsInv' /\ KeysInv'
      BY <1>5, <2>2 DEF WaitForEpoch, deviceVars, ghostVars, PairsInv, KeysInv
    <2> QED BY <1>2, <2>3
  <1> QED BY <1>3, <1>4, <1>5

\* A pair that is on the air has two numbers of the epoch.
LEMMA HeardNumber ==
    ASSUME EpochsInv, NEW b \in {0, 1}
    PROVE  onAir.num + b \in AdvertNum
  <1>1. PICK num : num = onAir.num /\ num \in Nat /\ num < AdvN /\ num % 2 = 0
    <2>1. onAir.num \in AdvertNum
      BY DEF EpochsInv, EpochsTypeOK
    <2>2. \A k \in AdvertNum : k \in Nat /\ k < AdvN
      BY Sizes DEF AdvertNum
    <2> QED BY <2>1, <2>2 DEF EpochsInv, PairsInv
  <1>2. num + 2 <= AdvN
    BY ONLY <1>1, Sizes, NextPair
  <1>3. num + b = num \/ num + b = num + 1
    BY <1>1
  <1> QED BY ONLY <1>1, <1>2, <1>3, Sizes DEF AdvertNum

LEMMA ScanSteps ==
    ASSUME EpochsInv, NEW b \in {0, 1}, ProcessScanResponse(b)
    PROVE  EpochsInv'
  <1> USE DEF EpochsInv, EpochsTypeOK
  <1>1. PICK n, old, known, es :
          /\ n = onAir.num + b /\ old = (IF IsKnown THEN epochs ELSE <<>>)
          /\ known = (IF IsKnown THEN secrets ELSE {}) /\ es = ProcessAdvert(old, n)
    OBVIOUS
  <1>2. /\ epochs' = ProcessEpochs(es) /\ secrets' = known \cup NewSecrets(es)
        /\ twice' = (twice \/ CountsTwice(es))
    BY <1>1 DEF ProcessScanResponse
  <1>3. n \in AdvertNum
    BY <1>1, HeardNumber
  <1>4. /\ old \in Seq(Epoch) /\ known \subseteq [own : Key, remote : Key, yCoord : Key]
        /\ \A i \in 1 .. Len(old) : HasBloom(old[i])
        /\ old # <<>> => HasSecret(Back(old), known)
    <2>1. CASE IsKnown
      <3>1. old = epochs /\ known = secrets
        BY <1>1, <2>1
      <3> QED BY <3>1 DEF UndecodedHasBloom, HasBloom, LatestInv
    <2>2. CASE ~IsKnown
      <3>1. old = <<>> /\ known = {}
        BY <1>1, <2>2
      <3> QED BY <3>1
    <2> QED BY <2>1, <2>2
  <1>5. /\ es \in Seq(Epoch) /\ es # <<>> /\ \A i \in 1 .. Len(es) : HasBloom(es[i])
        /\ HasSecret(Back(es), known)
    BY <1>1, <1>3, <1>4, ProcessAdvertKeeps DEF PairsInv
  <1>6. PICK next, more : next = epochs' /\ more = secrets'
    OBVIOUS
  <1>7. /\ next \in Seq(Epoch) /\ Len(next) \in 1 .. 2
        /\ \A i \in 1 .. Len(next) : HasBloom(next[i]) /\ HasSecret(Back(next), more)
    BY <1>2, <1>5, <1>6, ProcessEpochsKeeps
  <1>8. more \subseteq [own : Key, remote : Key, yCoord : Key]
    BY <1>2, <1>4, <1>5, <1>6, NewSecretsFit
  <1>9. twice' \in BOOLEAN /\ device' \in Key \cup {NULL} /\ heard' \subseteq {0, 1}
    <2>1. CountsTwice(es) \in BOOLEAN
      BY DEF CountsTwice
    <2> QED BY <1>2, <2>1 DEF ProcessScanResponse
  <1>10. /\ lastTime' \in Nat /\ inARow' \in Nat
         /\ scanPc' \in {"idle", "advert", "response", "expire"}
    BY DEF ProcessScanResponse
  <1>11. UNCHANGED <<now, senderVars, scanDue, ownKey, ownKeyDue>>
    BY DEF ProcessScanResponse
  <1>12. EpochsTypeOK' /\ PairsInv' /\ KeysInv'
    <2>1. epochs' \in Seq(Epoch) /\ Len(epochs') <= 2
      BY ONLY <1>6, <1>7
    <2>2. secrets' \subseteq [own : Key, remote : Key, yCoord : Key]
      BY ONLY <1>6, <1>8
    <2>3. PairsInv' /\ KeysInv'
      BY <1>11 DEF senderVars, PairsInv, KeysInv
    <2> QED BY <1>9, <1>10, <1>11, <2>1, <2>2, <2>3 DEF senderVars
  <1>13. UndecodedHasBloom'
    <2>1. epochs' \in Seq(Epoch) /\ \A i \in 1 .. Len(epochs') : HasBloom(epochs'[i])
      BY ONLY <1>6, <1>7
    <2>2. DOMAIN epochs' = 1 .. Len(epochs')
      BY ONLY <2>1
    <2> QED BY ONLY <2>1, <2>2 DEF UndecodedHasBloom, HasBloom
  <1>14. LatestInv'
    BY <1>6, <1>7, <1>11 DEF LatestInv, HasSecret
  <1> QED BY <1>12, <1>13, <1>14

LEMMA ReceiverSteps ==
    ASSUME EpochsInv, StartScan \/ EndScan \/ ReceiverChangesEpoch \/ Tick
    PROVE  EpochsInv'
  <1> USE DEF EpochsInv, EpochsTypeOK
  <1>1. /\ {now, sendDue, keyDue, scanDue, ownKeyDue, lastTime, inARow} \subseteq Nat
        /\ key \in Nat /\ ownKey \in Nat /\ EpochInterval \in Nat
    BY Sizes, KeysAreFirst
  <1>2. CASE StartScan
    BY <1>2 DEF StartScan, senderVars, deviceVars, ghostVars, PairsInv, KeysInv,
                UndecodedHasBloom, LatestInv, HasSecret
  <1>3. CASE EndScan
    <2>1. PICK i \in ScanJitter : scanDue' = scanDue + i
      BY <1>3 DEF EndScan
    <2>2. scanDue' \in Nat
      BY <1>1, <2>1, Sizes
    <2>3. \/ epochs' = <<>> /\ secrets' = {} /\ device' = NULL /\ UNCHANGED lastTime
          \/ UNCHANGED deviceVars
      BY <1>3 DEF EndScan
    <2>4. EpochsTypeOK' /\ PairsInv' /\ KeysInv'
      <3>1. /\ device' \in Key \cup {NULL} /\ epochs' \in Seq(Epoch) /\ Len(epochs') <= 2
            /\ secrets' \subseteq [own : Key, remote : Key, yCoord : Key] /\ lastTime' \in Nat
        <4>1. CASE epochs' = <<>> /\ secrets' = {} /\ device' = NULL /\ UNCHANGED lastTime
          BY <1>1, <4>1
        <4>2. CASE UNCHANGED deviceVars
          BY <1>1, <4>2 DEF deviceVars
        <4> QED BY <2>3, <4>1, <4>2
      <3>2. scanPc' = "idle" /\ UNCHANGED <<now, senderVars, ownKey, ownKeyDue, ghostVars>>
        BY <1>3 DEF EndScan
      <3>3. PairsInv' /\ KeysInv'
        BY <3>2 DEF senderVars, PairsInv, KeysInv
      <3> QED BY <2>2, <3>1, <3>2, <3>3 DEF senderVars, ghostVars
    <2>5. UndecodedHasBloom' /\ LatestInv'
      BY <1>3, <2>3 DEF EndScan, deviceVars, UndecodedHasBloom, LatestInv, HasSecret
    <2> QED BY <2>4, <2>5
  <1>4. CASE Tick
    <2>1. now' \in Nat /\ now' <= MaxTime
      BY <1>1, <1>4 DEF Tick, Dues
    <2>2. EpochsTypeOK' /\ PairsInv' /\ KeysInv'
      BY <1>4, <2>1 DEF Tick, senderVars, deviceVars, ghostVars, PairsInv, KeysInv
    <2>3. UndecodedHasBloom' /\ LatestInv'
      BY <1>4 DEF Tick, deviceVars, UndecodedHasBloom, LatestInv, HasSecret
    <2> QED BY <2>2, <2>3
  <1>5. CASE ReceiverChangesEpoch
    <2>1. ownKey + 1 \in Key
      BY <1>1, <1>5, NextKey DEF ReceiverChangesEpoch, KeysInv
    <2>2. ownKeyDue' \in Nat /\ ownKeyDue' >= 1 + (ownKey + 1) * EpochInterval
      <3>1. /\ (ownKey + 1) * EpochInterval = ownKey * EpochInterval + EpochInterval
            /\ ownKey * EpochInterval \in Nat
        BY <1>1, Sizes, OneMore
      <3>2. /\ ownKeyDue' = ownKeyDue + EpochInterval
            /\ ownKeyDue >= 1 + ownKey * EpochInterval
        BY <1>5 DEF ReceiverChangesEpoch, KeysInv
      <3>3. PICK p, q : p = ownKey * EpochInterval /\ q = (ownKey + 1) * EpochInterval
        OBVIOUS
      <3>4. p \in Nat /\ q = p + EpochInterval /\ ownKeyDue >= 1 + p
        BY ONLY <3>1, <3>2, <3>3
      <3>5. ownKeyDue' \in Nat /\ ownKeyDue' >= 1 + q
        BY ONLY <1>1, <3>2, <3>4
      <3> QED BY ONLY <3>3, <3>5
    <2>3. KeysInv' /\ PairsInv'
      BY <1>5, <2>2 DEF ReceiverChangesEpoch, KeysInv, PairsInv, senderVars
    <2>4. /\ epochs' \in Seq(Epoch) /\ Len(epochs') <= 2
          /\ secrets' \subseteq [own : Key, remote : Key, yCoord : Key]
          /\ UndecodedHasBloom' /\ LatestInv'
      <3>1. CASE epochs = <<>>
        <4>1. UNCHANGED <<epochs, secrets>>
          BY <1>5, <3>1 DEF ReceiverChangesEpoch
        <4> QED BY <3>1, <4>1 DEF UndecodedHasBloom, LatestInv
      <3>2. CASE epochs # <<>> /\ IsDecoded(Back(epochs))
        <4>1. PICK last, s :
                /\ last = Back(epochs) /\ last \in Epoch
                /\ s = [own |-> ownKey + 1, remote |-> last.remote, yCoord |-> last.yCoord]
          BY <3>2, Backs
        <4>2. secrets' = secrets \cup {s} /\ UNCHANGED epochs /\ ownKey' = ownKey + 1
          BY <1>5, <3>2, <4>1 DEF ReceiverChangesEpoch
        <4>3. s \in [own : Key, remote : Key, yCoord : Key]
          BY <2>1, <4>1 DEF Epoch
        <4>4. s.own = ownKey + 1 /\ s.remote = last.remote
          BY <4>1
        <4>5. LatestInv'
          BY <3>2, <4>1, <4>2, <4>4 DEF LatestInv, HasSecret
        <4> QED BY <4>2, <4>3, <4>5 DEF UndecodedHasBloom
      <3>3. CASE epochs # <<>> /\ ~IsDecoded(Back(epochs))
        <4>1. PICK last, len, next :
                /\ len = Len(epochs) /\ len \in 1 .. 2 /\ last = epochs[len] /\ last \in Epoch
                /\ next = [last EXCEPT !.dhExchanges = @ \cup {ownKey + 1}]
          <5>1. epochs \in Seq(Epoch) /\ epochs # <<>> /\ Len(epochs) <= 2
            BY <3>3
          <5>2. Len(epochs) \in 1 .. 2 /\ epochs[Len(epochs)] \in Epoch
            BY ONLY <5>1, OneOrTwo
          <5> QED BY ONLY <5>2
        <4>2. /\ epochs' = [epochs EXCEPT ![len] = next] /\ UNCHANGED secrets
              /\ ownKey' = ownKey + 1
          BY <1>5, <3>3, <4>1 DEF ReceiverChangesEpoch
        <4>3. /\ next \in Epoch /\ next.dhExchanges = last.dhExchanges \cup {ownKey + 1}
              /\ next.decodeBloomNum = last.decodeBloomNum /\ next.blooms = last.blooms
          BY <2>1, <4>1 DEF Epoch
        <4>4. /\ epochs' \in Seq(Epoch) /\ Len(epochs') = len
              /\ \A i \in 1 .. len : epochs'[i] = IF i = len THEN next ELSE epochs[i]
          BY <4>1, <4>2, <4>3
        <4>5. UndecodedHasBloom'
          <5>1. \A i \in 1 .. len : ~IsDecoded(epochs[i]) => epochs[i].blooms # <<>>
            BY <4>1 DEF UndecodedHasBloom
          <5>2. last.decodeBloomNum = NULL => last.blooms # <<>>
            BY ONLY <4>1, <5>1 DEF IsDecoded
          <5>3. ASSUME NEW i \in 1 .. len, ~IsDecoded(epochs'[i])
                PROVE  epochs'[i].blooms # <<>>
            <6>1. CASE i = len
              BY ONLY <4>3, <4>4, <5>2, <5>3, <6>1 DEF IsDecoded
            <6>2. CASE i # len
              BY ONLY <4>4, <5>1, <5>3, <6>2 DEF IsDecoded
            <6> QED BY ONLY <6>1, <6>2
          <5> QED BY <4>4, <5>3 DEF UndecodedHasBloom
        <4>6. LatestInv'
          <5>1. Back(epochs') = next
            <6>1. PICK f : f = epochs'
              OBVIOUS
            <6>2. Back(f) = next
              <7>1. len \in 1 .. len
                BY <4>1
              <7>2. Len(f) = len /\ \A i \in 1 .. len : f[i] = IF i = len THEN next ELSE epochs[i]
                BY ONLY <4>4, <6>1
              <7>3. f[len] = next
                BY ONLY <7>1, <7>2
              <7> QED BY ONLY <7>2, <7>3 DEF Back
            <6> QED BY <6>1, <6>2
          <5>2. ~IsDecoded(next)
            BY <3>3, <4>1, <4>3 DEF IsDecoded, Back
          <5> QED BY <4>2, <4>3, <5>1, <5>2 DEF LatestInv, HasSecret
        <4> QED BY <4>1, <4>2, <4>4, <4>5, <4>6
      <3> QED BY <3>1, <3>2, <3>3
    <2>5. EpochsTypeOK'
      BY <1>5, <2>1, <2>2, <2>4 DEF ReceiverChangesEpoch, senderVars, ghostVars
    <2> QED BY <2>3, <2>4, <2>5
  <1> QED BY <1>2, <1>3, <1>4, <1>5

LEMMA StepEpochsInv == EpochsInv /\ [Next]_vars => EpochsInv'
  <1> SUFFICES ASSUME EpochsInv, [Next]_vars PROVE EpochsInv'
    OBVIOUS
  <1>1. CASE UNCHANGED vars
    BY <1>1 DEF vars, senderVars, deviceVars, ghostVars, EpochsInv, EpochsTypeOK, PairsInv,
                KeysInv, UndecodedHasBloom, LatestInv, HasSecret
  <1>2. ASSUME NEW b \in {0, 1}, ProcessScanResponse(b)
        PROVE  EpochsInv'
    BY <1>2, ScanSteps
  <1> QED BY <1>1, <1>2, SenderSteps, ReceiverSteps DEF Next

LEMMA EpochsAreKept == Spec => []EpochsInv
  BY InitEpochsInv, StepEpochsInv, PTL DEF Spec

-----------------------------------------------------------------------------
(***************************************************************************)
(* When the sender sends what.  Twice the times, since adverts go out two  *)
(* to a round.                                                             *)
(***************************************************************************)
\* When a key is drawn.
Begin(k) == 1 + (k - 1) * EpochInterval

\* A pair is on air no later than all slow rounds before it let it be, up to
\* the last one, which waits for the epoch, and no sooner than all quick ones.
SenderInv ==
    /\ keyDue = Begin(key + 1) /\ now <= keyDue
    /\ now <= sendDue /\ sendDue <= now + Slowest
    /\ \/ onAir.key = key /\ advertNum = onAir.num + 2
       \/ onAir.key = key - 1 /\ advertNum = 0 /\ sendDue <= Begin(key) + Slowest
    /\ advertNum < AdvN => 2 * sendDue <= 2 * Begin(key) + (advertNum + 2) * Slowest
    /\ onAir.num < AdvN - 2 => 2 * sendDue <= 2 * Begin(onAir.key) + (onAir.num + 4) * Slowest
    /\ key >= 2 => 2 * sendDue >= 2 * Begin(key) + advertNum * Quickest
    /\ onAir.key >= 2 => 2 * now >= 2 * Begin(onAir.key) + onAir.num * Quickest

LEMMA Rounds ==
    /\ Quickest \in Nat \ {0} /\ Slowest \in Nat \ {0} /\ Quickest <= Slowest
    /\ \A i \in SendJitter : i \in Nat /\ Quickest <= i /\ i <= Slowest
    /\ ScanInterval \in Nat /\ ScanInterval <= Slowest
    /\ 4 * Slowest + 7 * ScanInterval + (AdvN - 2) * (Slowest - Quickest) <= 2 * EpochInterval
    /\ 2 * Slowest + 7 * ScanInterval <= (AdvN - 2) * Quickest
  <1>1. /\ Quickest \in SendJitter /\ Slowest \in SendJitter
        /\ \A i \in SendJitter : i \in Nat \ {0} /\ Quickest <= i /\ i <= Slowest
    BY TimesAssumption, Sizes
  <1>2. ScanInterval \in Nat
    BY EpochsAssumption
  <1> QED BY <1>1, <1>2, TimesAssumption

LEMMA MoreRounds ==
    ASSUME NEW a \in Nat, NEW h \in Nat
    PROVE  a * h \in Nat /\ (a + 2) * h = a * h + 2 * h /\ (a + 4) * h = a * h + 4 * h
  BY Z3

LEMMA Begins ==
    ASSUME NEW k \in Nat \ {0}
    PROVE  Begin(k) \in Nat \ {0} /\ Begin(k + 1) = Begin(k) + EpochInterval
  <1>1. k - 1 \in Nat /\ (k + 1) - 1 = (k - 1) + 1
    OBVIOUS
  <1>2. /\ ((k - 1) + 1) * EpochInterval = (k - 1) * EpochInterval + EpochInterval
        /\ (k - 1) * EpochInterval \in Nat
    BY <1>1, Sizes, OneMore
  <1> QED BY <1>1, <1>2, Sizes DEF Begin

LEMMA LaterProduct ==
    ASSUME NEW a \in Nat, NEW b \in Nat, NEW h \in Nat, a <= b
    PROVE  a * h <= b * h /\ a * h \in Nat /\ b * h \in Nat
  BY Z3

\* A key that is not the same begins at least an epoch later.
LEMMA LaterBegins ==
    ASSUME NEW k \in Nat \ {0}, NEW m \in Nat \ {0}, k < m
    PROVE  Begin(m) >= Begin(k) + EpochInterval
  <1>1. k \in Nat /\ m - 1 \in Nat /\ k <= m - 1
    OBVIOUS
  <1>2. k * EpochInterval <= (m - 1) * EpochInterval /\ k * EpochInterval \in Nat
        /\ (m - 1) * EpochInterval \in Nat
    BY <1>1, Sizes, LaterProduct
  <1>3. Begin(k + 1) = 1 + k * EpochInterval
    BY <1>1 DEF Begin
  <1> QED BY <1>2, <1>3, Begins, Sizes DEF Begin

LEMMA HalfBelow ==
    ASSUME NEW x \in Int, NEW y \in Nat, x < y \div 2
    PROVE  2 * x < y
  BY Z3

LEMMA Distribute ==
    ASSUME NEW a \in Nat, NEW b \in Nat, NEW h \in Nat
    PROVE  (a + b) * h = a * h + b * h /\ a * h \in Nat /\ b * h \in Nat
  BY Z3

(***************************************************************************)
(* An advert of a later key comes too late for the latest epoch: n of the  *)
(* pair num, on air since the epoch that began at c at the quickest, and   *)
(* last, heard at t of the epoch that began at b at the slowest.           *)
(***************************************************************************)
LEMMA ComesTooLate ==
    ASSUME NEW n \in Nat, NEW num \in Nat, NEW last \in Nat, NEW t \in Nat, now \in Nat,
           NEW b \in Nat, NEW c \in Nat, c >= b + EpochInterval,
           n <= num + 1, num <= AdvN - 2, last < n,
           2 * now >= 2 * c + num * Quickest, t <= b + EpochInterval + Slowest,
           last < AdvN - 2 => 2 * t <= 2 * b + (last + 4) * Slowest
    PROVE  ~(now - t < ((n - last + 6) * ScanInterval) \div 2)
  <1> SUFFICES ASSUME now - t < ((n - last + 6) * ScanInterval) \div 2 PROVE FALSE
    OBVIOUS
  <1>1. PICK d : d = num - last /\ d \in Nat /\ num = last + d /\ n - last + 6 <= d + 7
                 /\ n - last + 6 \in Nat
    OBVIOUS
  <1>2. /\ (n - last + 6) * ScanInterval <= (d + 7) * ScanInterval
        /\ (n - last + 6) * ScanInterval \in Nat
        /\ (d + 7) * ScanInterval = d * ScanInterval + 7 * ScanInterval
        /\ d * ScanInterval \in Nat
    <2>1. d + 7 \in Nat
      BY <1>1
    <2>2. /\ (n - last + 6) * ScanInterval <= (d + 7) * ScanInterval
          /\ (n - last + 6) * ScanInterval \in Nat
      BY <1>1, <2>1, Rounds, LaterProduct
    <2>3. /\ (d + 7) * ScanInterval = d * ScanInterval + 7 * ScanInterval
          /\ d * ScanInterval \in Nat
      BY <1>1, Rounds, Distribute
    <2> QED BY <2>2, <2>3
  <1>3. 2 * (now - t) < d * ScanInterval + 7 * ScanInterval
    <2>1. PICK w : w = (n - last + 6) * ScanInterval /\ w \in Nat
      BY <1>2
    <2>2. now - t \in Int /\ now - t < w \div 2
      BY <2>1
    <2>3. 2 * (now - t) < w
      BY <2>1, <2>2, HalfBelow
    <2> QED BY <1>2, <2>1, <2>3, Rounds
  <1>4. CASE last < AdvN - 2
    <2>1. PICK h, lo, s, e, x :
            /\ h = Slowest /\ lo = Quickest /\ s = ScanInterval /\ e = EpochInterval
            /\ x = h - lo
            /\ h \in Nat /\ lo \in Nat /\ s \in Nat /\ e \in Nat /\ x \in Nat /\ h = lo + x
            /\ s <= h
      BY Rounds, Sizes
    <2>2. /\ num * h = last * h + d * h /\ last * h \in Nat /\ d * h \in Nat
      BY <1>1, <2>1, Distribute
    <2>3. num * h = num * lo + num * x /\ num * lo \in Nat /\ num * x \in Nat
      BY ONLY <2>1, num \in Nat, Z3
    <2>4. d * s <= d * h
      BY ONLY <1>1, <2>1, Z3
    <2>5. num * x <= (AdvN - 2) * x /\ (AdvN - 2) * x \in Nat
      <3>1. AdvN - 2 \in Nat
        BY Sizes
      <3> QED BY <2>1, <3>1, LaterProduct
    <2>6. (last + 4) * h = last * h + 4 * h
      BY <2>1, MoreRounds
    <2>7. 2 * t <= 2 * b + last * h + 4 * h
      BY ONLY <1>4, <2>1, <2>6, last < AdvN - 2 => 2 * t <= 2 * b + (last + 4) * Slowest,
              b \in Nat, t \in Nat, <2>2
    <2>8. 4 * h + 7 * s + (AdvN - 2) * x <= 2 * e
      BY ONLY <2>1, Rounds
    <2>9. 2 * now >= 2 * b + 2 * e + num * lo
      BY ONLY <2>1, <2>3, c >= b + EpochInterval, 2 * now >= 2 * c + num * Quickest,
              b \in Nat, c \in Nat, now \in Nat
    <2>10. PICK lh, dh, nl, nx, ds, ax :
             /\ lh = last * h /\ dh = d * h /\ nl = num * lo /\ nx = num * x
             /\ ds = d * s /\ ax = (AdvN - 2) * x
      OBVIOUS
    <2>11. /\ lh \in Nat /\ dh \in Nat /\ nl \in Nat /\ nx \in Nat /\ ds \in Nat /\ ax \in Nat
           /\ lh + dh = nl + nx /\ ds <= dh /\ nx <= ax
           /\ 2 * t <= 2 * b + lh + 4 * h /\ 4 * h + 7 * s + ax <= 2 * e
           /\ 2 * now >= 2 * b + 2 * e + nl /\ 2 * (now - t) < ds + 7 * s
      BY ONLY <1>2, <1>3, <2>1, <2>2, <2>3, <2>4, <2>5, <2>7, <2>8, <2>9, <2>10
    <2> QED BY ONLY <2>1, <2>11, b \in Nat, t \in Nat, now \in Nat
  <1>5. CASE ~(last < AdvN - 2)
    <2>1. num = AdvN - 2 /\ d = 0
      BY <1>1, <1>5, Sizes
    <2>2. PICK p : p = num * Quickest /\ p \in Nat
      BY Rounds, MoreRounds
    <2>3. 2 * Slowest + 7 * ScanInterval <= p
      BY <2>1, <2>2, Rounds
    <2>4. d * ScanInterval = 0
      BY <2>1, Rounds
    <2> QED BY <1>3, <2>2, <2>3, <2>4, Rounds, Sizes
  <1> QED BY <1>4, <1>5

LEMMA SenderTypes ==
    ASSUME EpochsInv
    PROVE  /\ now \in Nat /\ sendDue \in Nat /\ keyDue \in Nat /\ key \in Nat \ {0}
           /\ advertNum \in Nat /\ onAir.num \in Nat /\ onAir.num <= AdvN - 2
           /\ onAir.key \in Nat \ {0} /\ onAir.key \in Key \ {0}
  <1>1. /\ now \in Nat /\ sendDue \in Nat /\ keyDue \in Nat /\ key \in Key /\ advertNum \in 0 .. AdvN
        /\ onAir \in [num : AdvertNum, key : Key]
    BY DEF EpochsInv, EpochsTypeOK
  <1>2. key # 0 /\ onAir.num % 2 = 0 /\ onAir.key # 0
    BY DEF EpochsInv, PairsInv, KeysInv
  <1>3. onAir.num \in Nat /\ onAir.num < AdvN
    BY <1>1, Sizes DEF AdvertNum
  <1>4. onAir.num + 2 <= AdvN
    BY ONLY <1>2, <1>3, Sizes, NextPair
  <1>5. onAir.key \in Key /\ Key \subseteq Nat
    BY <1>1, KeysAreFirst
  <1>6. key \in Nat \ {0} /\ onAir.key \in Nat \ {0} /\ advertNum \in Nat
    <2>1. key \in Nat /\ onAir.key \in Nat
      BY ONLY <1>1, <1>5
    <2>2. advertNum \in Nat
      BY ONLY <1>1, Sizes
    <2> QED BY ONLY <1>2, <2>1, <2>2
  <1>7. onAir.num <= AdvN - 2
    BY ONLY <1>3, <1>4, Sizes
  <1> QED BY ONLY <1>1, <1>2, <1>3, <1>5, <1>6, <1>7

LEMMA InitSenderInv == Init => SenderInv
  <1> SUFFICES ASSUME Init PROVE SenderInv
    OBVIOUS
  <1>1. /\ now = 1 /\ key = 1 /\ advertNum = 2 /\ onAir.num = 0 /\ onAir.key = 1
        /\ sendDue = 1 /\ keyDue = 1 + EpochInterval
    BY DEF Init
  <1>2. Begin(1) = 1 /\ Begin(1 + 1) = 1 + EpochInterval
    BY Sizes, Begins DEF Begin
  <1>3. /\ (2 + 2) * Slowest \in Nat /\ (0 + 4) * Slowest \in Nat
    BY Rounds
  <1> QED BY <1>1, <1>2, <1>3, Rounds, Sizes DEF SenderInv

LEMMA WaitsLonger ==
    ASSUME NEW s \in Nat, NEW t \in Nat, NEW n \in Nat, NEW i \in Nat, s <= t + i, t <= n
    PROVE  s <= n + i
  OBVIOUS

LEMMA SenderKeeps ==
    ASSUME EpochsInv, EpochsInv', SenderInv, [Next]_vars
    PROVE  SenderInv'
  <1>1. /\ now \in Nat /\ sendDue \in Nat /\ keyDue \in Nat /\ key \in Nat \ {0}
        /\ advertNum \in Nat /\ onAir.num \in Nat /\ onAir.key \in Nat \ {0}
        /\ Quickest \in Nat \ {0} /\ Slowest \in Nat \ {0} /\ EpochInterval \in Nat \ {0}
        /\ AdvN \in Nat /\ AdvN >= 2
    BY SenderTypes, Rounds, Sizes
  <1>2. Slowest < EpochInterval
    <2>1. /\ AdvN - 2 \in Nat /\ Slowest - Quickest \in Nat /\ ScanInterval \in Nat
      BY Sizes, Rounds
    <2>2. PICK x : x = (AdvN - 2) * (Slowest - Quickest) /\ x \in Nat
      BY <2>1, MoreRounds
    <2> QED BY <2>1, <2>2, Rounds, Sizes
  <1>3. /\ Begin(key) \in Nat /\ Begin(key + 1) = Begin(key) + EpochInterval
        /\ Begin(key + 2) = Begin(key + 1) + EpochInterval /\ Begin(onAir.key) \in Nat
    <2>1. key + 1 \in Nat \ {0} /\ (key + 1) + 1 = key + 2
      BY <1>1
    <2> QED BY <1>1, <2>1, Begins
  <1>4. CASE UNCHANGED <<key, advertNum, onAir, sendDue, keyDue>> /\ now' \in Nat
             /\ now <= now' /\ now' <= sendDue /\ now' <= keyDue
    <2>1. PICK p : p = onAir.num * Quickest /\ p \in Nat
      BY <1>1, MoreRounds
    <2>2. onAir'.key >= 2 => 2 * now' >= 2 * Begin(onAir'.key) + onAir'.num * Quickest
      BY <1>1, <1>3, <1>4, <2>1 DEF SenderInv
    <2>3. sendDue' <= now' + Slowest
      <3>1. sendDue <= now + Slowest
        BY DEF SenderInv
      <3>2. PICK n : n = now' /\ n \in Nat /\ now <= n
        BY <1>4
      <3>3. sendDue <= n + Slowest
        <4>1. now \in Nat /\ sendDue \in Nat /\ Slowest \in Nat
          BY ONLY <1>1
        <4> QED BY ONLY <3>1, <3>2, <4>1, WaitsLonger
      <3> QED BY <1>4, <3>2, <3>3
    <2> QED BY <1>4, <2>2, <2>3 DEF SenderInv
  <1>5. CASE SenderChangesEpoch
    <2>1. /\ now = keyDue /\ keyDue < sendDue /\ key' = key + 1 /\ advertNum' = 0
          /\ keyDue' = keyDue + EpochInterval /\ UNCHANGED <<now, onAir, sendDue>>
      BY <1>5 DEF SenderChangesEpoch
    <2>2. onAir.key = key
      BY <1>1, <1>2, <1>3, <2>1 DEF SenderInv
    <2>3. keyDue' = Begin(key' + 1) /\ now' <= keyDue' /\ now' <= sendDue' /\ sendDue' <= now' + Slowest
      <3>1. key' + 1 = key + 2
        BY <1>1, <2>1
      <3> QED BY <1>1, <1>3, <2>1, <3>1 DEF SenderInv
    <2>4. onAir'.key = key' - 1 /\ advertNum' = 0 /\ sendDue' <= Begin(key') + Slowest
      BY <1>1, <1>3, <2>1, <2>2 DEF SenderInv
    <2>5. /\ 2 * sendDue' <= 2 * Begin(key') + (advertNum' + 2) * Slowest
          /\ 2 * sendDue' >= 2 * Begin(key') + advertNum' * Quickest
      <3>1. (0 + 2) * Slowest = 2 * Slowest /\ 0 * Quickest = 0
        BY <1>1
      <3>2. sendDue <= Begin(key + 1) + Slowest /\ sendDue >= Begin(key + 1)
        BY <1>1, <1>3, <2>1 DEF SenderInv
      <3> QED BY <1>1, <1>3, <2>1, <3>1, <3>2
    <2>6. onAir'.num < AdvN - 2 => 2 * sendDue' <= 2 * Begin(onAir'.key) + (onAir'.num + 4) * Slowest
      BY <2>1 DEF SenderInv
    <2>7. onAir'.key >= 2 => 2 * now' >= 2 * Begin(onAir'.key) + onAir'.num * Quickest
      BY <2>1 DEF SenderInv
    <2> QED BY <2>3, <2>4, <2>5, <2>6, <2>7 DEF SenderInv
  <1>6. CASE ChangeAdvert
    <2>1. PICK i \in SendJitter : sendDue' = sendDue + i
      BY <1>6 DEF ChangeAdvert, NextRound
    <2>2. i \in Nat /\ Quickest <= i /\ i <= Slowest
      BY Rounds
    <2>3. /\ now = sendDue /\ sendDue <= keyDue /\ advertNum < AdvN /\ onAir'.num = advertNum
          /\ onAir'.key = key /\ advertNum' = advertNum + 2 /\ UNCHANGED <<now, key, keyDue>>
      BY <1>6 DEF ChangeAdvert
    <2>4. /\ advertNum * Slowest \in Nat /\ advertNum * Quickest \in Nat
          /\ (advertNum + 2) * Slowest = advertNum * Slowest + 2 * Slowest
          /\ (advertNum + 4) * Slowest = advertNum * Slowest + 4 * Slowest
          /\ (advertNum + 2) * Quickest = advertNum * Quickest + 2 * Quickest
      BY <1>1, MoreRounds
    <2>5. PICK h, q : h = advertNum * Slowest /\ q = advertNum * Quickest
      OBVIOUS
    <2>6. /\ 2 * sendDue <= 2 * Begin(key) + h + 2 * Slowest
          /\ key >= 2 => 2 * sendDue >= 2 * Begin(key) + q
      BY <1>1, <1>3, <2>3, <2>4, <2>5 DEF SenderInv
    <2>7. /\ keyDue' = Begin(key' + 1) /\ now' <= keyDue' /\ now' <= sendDue'
          /\ sendDue' <= now' + Slowest
      BY <1>1, <2>1, <2>2, <2>3 DEF SenderInv
    <2>8. /\ onAir'.key = key' /\ advertNum' = onAir'.num + 2
      BY <2>3
    <2>9. 2 * sendDue' <= 2 * Begin(key') + (onAir'.num + 4) * Slowest
      BY ONLY <1>1, <1>3, <2>1, <2>2, <2>3, <2>4, <2>5, <2>6
    <2>10. advertNum' < AdvN => 2 * sendDue' <= 2 * Begin(key') + (advertNum' + 2) * Slowest
      <3>1. advertNum' + 2 = onAir'.num + 4
        BY <1>1, <2>3
      <3> QED BY <2>9, <3>1
    <2>11. key' >= 2 => 2 * sendDue' >= 2 * Begin(key') + advertNum' * Quickest
      BY ONLY <1>1, <1>3, <2>1, <2>2, <2>3, <2>4, <2>5, <2>6
    <2>12. onAir'.key >= 2 => 2 * now' >= 2 * Begin(onAir'.key) + onAir'.num * Quickest
      BY ONLY <1>1, <1>3, <2>3, <2>5, <2>6
    <2>13. onAir'.num < AdvN - 2
             => 2 * sendDue' <= 2 * Begin(onAir'.key) + (onAir'.num + 4) * Slowest
      BY <2>8, <2>9
    <2> QED BY <2>7, <2>8, <2>10, <2>11, <2>12, <2>13 DEF SenderInv
  <1>7. CASE WaitForEpoch
    <2>1. PICK i \in SendJitter : sendDue' = sendDue + i
      BY <1>7 DEF WaitForEpoch, NextRound
    <2>2. i \in Nat /\ Quickest <= i /\ i <= Slowest
      BY Rounds
    <2>3. /\ now = sendDue /\ sendDue <= keyDue /\ advertNum >= AdvN
          /\ UNCHANGED <<now, key, advertNum, onAir, keyDue>>
      BY <1>7 DEF WaitForEpoch
    <2>4. onAir.key = key /\ advertNum = onAir.num + 2 /\ ~(onAir.num < AdvN - 2)
      BY <1>1, <2>3 DEF SenderInv
    <2>5. PICK q : q = advertNum * Quickest /\ q \in Nat
      BY <1>1, MoreRounds
    <2> QED BY <1>1, <1>3, <2>1, <2>2, <2>3, <2>4, <2>5 DEF SenderInv
  <1>8. CASE UNCHANGED vars \/ StartScan \/ EndScan \/ ReceiverChangesEpoch
             \/ \E b \in {0, 1} : ProcessScanResponse(b)
    <2>1. UNCHANGED <<now, senderVars>>
      BY <1>8 DEF vars, StartScan, EndScan, ReceiverChangesEpoch, ProcessScanResponse
    <2>2. now <= sendDue /\ now <= keyDue
      BY DEF SenderInv
    <2> QED BY <1>1, <1>4, <2>1, <2>2 DEF senderVars
  <1>9. CASE Tick
    <2>1. /\ now' \in Dues /\ now' > now /\ \A due \in Dues : now' <= due
          /\ UNCHANGED senderVars
      BY <1>9 DEF Tick
    <2>2. now' \in Nat
      BY DEF EpochsInv, EpochsTypeOK
    <2>3. now <= now' /\ now' <= sendDue /\ now' <= keyDue
      BY <1>1, <2>1, <2>2 DEF Dues
    <2> QED BY <1>4, <2>1, <2>2, <2>3 DEF senderVars
  <1> QED BY <1>5, <1>6, <1>7, <1>8, <1>9 DEF Next

-----------------------------------------------------------------------------
(***************************************************************************)
(* What an epoch holds is of one key, and its first advert was on the air  *)
(* when the sender had that key.  What it may hold of another, once it is  *)
(* older than the latest, is leftover symbols.                             *)
(***************************************************************************)
BloomOf(bloom, k) == \A s \in bloom.segments \cup bloom.fresh : s.of = k

HoldsKey(epoch, k, older) ==
    /\ IsDecoded(epoch) => epoch.remote = k
    /\ \A s \in epoch.symbols : s.of = k \/ (older /\ s.index >= AdvN)
    /\ \A s \in epoch.counted : s.of = k
    /\ \A j \in DOMAIN epoch.blooms : BloomOf(epoch.blooms[j], k)

Dated(epoch, k) ==
    /\ k <= onAir.key
    /\ epoch.lastAdvertTime <= Begin(k + 1) + Slowest
    /\ epoch.lastAdvertNum < AdvN - 2 =>
         2 * epoch.lastAdvertTime <= 2 * Begin(k) + (epoch.lastAdvertNum + 4) * Slowest

OfOneKey(epoch, older) ==
    \E k \in Key \ {0} : Dated(epoch, k) /\ HoldsKey(epoch, k, older)

OfKeys(es) == \A i \in 1 .. Len(es) : OfOneKey(es[i], i < Len(es))

SameDates(f, e) == f.lastAdvertNum = e.lastAdvertNum /\ f.lastAdvertTime = e.lastAdvertTime

LEMMA DatesStay ==
    ASSUME NEW e, NEW f, NEW k, SameDates(f, e), Dated(e, k)
    PROVE  Dated(f, k)
  BY DEF SameDates, Dated

LEMMA SymbolOfKey ==
    ASSUME NEW e \in Epoch, NEW symbol \in Symbol, NEW k, NEW older \in BOOLEAN,
           HoldsKey(e, k, older), symbol.of = k \/ (older /\ symbol.index >= AdvN)
    PROVE  HoldsKey(SetSymbol(e, symbol), k, older) /\ SameDates(SetSymbol(e, symbol), e)
  <1>1. CASE SetSymbol(e, symbol) = e
    BY <1>1 DEF SameDates
  <1>2. CASE SetSymbol(e, symbol) = [e EXCEPT !.symbols = @ \cup {symbol}]
    <2>1. PICK f : f = SetSymbol(e, symbol)
      OBVIOUS
    <2>2. /\ f.symbols = e.symbols \cup {symbol} /\ f.decodeBloomNum = e.decodeBloomNum
          /\ f.remote = e.remote /\ f.counted = e.counted /\ f.blooms = e.blooms
          /\ f.lastAdvertNum = e.lastAdvertNum /\ f.lastAdvertTime = e.lastAdvertTime
      BY <1>2, <2>1 DEF Epoch
    <2> QED BY <2>1, <2>2 DEF HoldsKey, SameDates, IsDecoded
  <1> QED BY <1>1, <1>2 DEF SetSymbol

LEMMA SetSegmentOf ==
    ASSUME NEW bloom \in Bloom, NEW segment \in Segment, NEW k, BloomOf(bloom, k), segment.of = k
    PROVE  BloomOf(SetSegment(bloom, segment), k)
  <1>1. PICK f : f = SetSegment(bloom, segment)
    OBVIOUS
  <1>2. f.segments \subseteq bloom.segments \cup {segment} /\ f.fresh \subseteq bloom.fresh \cup {segment}
    BY <1>1 DEF SetSegment, Bloom
  <1> QED BY <1>1, <1>2 DEF BloomOf

LEMMA SegmentOfKey ==
    ASSUME NEW e \in Epoch, NEW segment \in Segment, NEW k, NEW older,
           HoldsKey(e, k, older), segment.of = k
    PROVE  HoldsKey(AddSegment(e, segment), k, older) /\ SameDates(AddSegment(e, segment), e)
  <1>1. PICK blooms, num, empty :
          /\ blooms = e.blooms /\ num = segment.num \div B
          /\ empty = [num |-> num, segments |-> {}, fresh |-> {}]
    OBVIOUS
  <1>2. blooms \in Seq(Bloom) /\ \A j \in DOMAIN blooms : BloomOf(blooms[j], k)
    BY <1>1 DEF Epoch, HoldsKey
  <1>3. empty \in Bloom /\ BloomOf(empty, k)
    BY <1>1, BloomNumbers DEF Bloom, Segment, BloomOf
  <1>4. \E next : /\ AddSegment(e, segment) = [e EXCEPT !.blooms = next]
                  /\ \A j \in DOMAIN next : BloomOf(next[j], k)
    <2>1. CASE blooms # <<>> /\ Back(blooms).num = num
      <3>1. Len(blooms) \in DOMAIN blooms /\ blooms[Len(blooms)] \in Bloom
        BY <1>2, <2>1
      <3>2. PICK last : last = SetSegment(blooms[Len(blooms)], segment) /\ BloomOf(last, k)
        BY <1>2, <3>1, SetSegmentOf
      <3>3. PICK next : next = [blooms EXCEPT ![Len(blooms)] = last]
        OBVIOUS
      <3>4. AddSegment(e, segment) = [e EXCEPT !.blooms = next]
        <4>1. AddSegment(e, segment) = [e EXCEPT !.blooms = [@ EXCEPT ![Len(blooms)] = last]]
          BY <1>1, <2>1, <3>2 DEF AddSegment
        <4> QED BY <1>1, <3>3, <4>1
      <3>5. \A j \in DOMAIN next : BloomOf(next[j], k)
        <4>1. DOMAIN next = DOMAIN blooms
          BY ONLY <3>3
        <4>2. \A j \in DOMAIN next : next[j] = last \/ next[j] = blooms[j]
          BY ONLY <3>3
        <4> QED BY <1>2, <3>2, <4>1, <4>2
      <3> QED BY <3>4, <3>5
    <2>2. CASE ~(blooms # <<>> /\ Back(blooms).num = num)
      <3>1. PICK new : new = SetSegment(empty, segment) /\ BloomOf(new, k)
        BY <1>3, SetSegmentOf
      <3>2. PICK next : next = Append(blooms, new)
        OBVIOUS
      <3>3. AddSegment(e, segment) = [e EXCEPT !.blooms = next]
        BY <1>1, <2>2, <3>1, <3>2 DEF AddSegment
      <3>4. PICK len : len = Len(blooms) /\ len \in Nat
        BY <1>2
      <3>5. /\ DOMAIN next = 1 .. (len + 1) /\ next[len + 1] = new
            /\ \A j \in 1 .. len : next[j] = blooms[j] /\ j \in DOMAIN blooms
        BY <1>2, <3>2, <3>4
      <3>6. \A j \in DOMAIN next : BloomOf(next[j], k)
        BY <1>2, <3>1, <3>4, <3>5
      <3> QED BY <3>3, <3>6
    <2> QED BY <2>1, <2>2
  <1>5. PICK next, f :
          /\ f = AddSegment(e, segment) /\ f = [e EXCEPT !.blooms = next]
          /\ \A j \in DOMAIN next : BloomOf(next[j], k)
    BY <1>4
  <1>6. /\ f.blooms = next /\ f.symbols = e.symbols /\ f.decodeBloomNum = e.decodeBloomNum
        /\ f.remote = e.remote /\ f.counted = e.counted
        /\ f.lastAdvertNum = e.lastAdvertNum /\ f.lastAdvertTime = e.lastAdvertTime
    BY <1>5 DEF Epoch
  <1> QED BY <1>5, <1>6 DEF HoldsKey, SameDates, IsDecoded

\* The latest epoch once it is not: leftover symbols may come.
LEMMA OlderHolds ==
    ASSUME NEW e, NEW k, HoldsKey(e, k, FALSE)
    PROVE  HoldsKey(e, k, TRUE)
  BY DEF HoldsKey

LEMMA AdvertOfKey ==
    ASSUME onAir \in [num : AdvertNum, key : Key], onAir.key # 0,
           NEW es \in Seq(Epoch), es # <<>>, NEW n \in AdvertNum,
           \A i \in 1 .. Len(es) - 1 : OfOneKey(es[i], TRUE),
           Dated(es[Len(es)], onAir.key), HoldsKey(es[Len(es)], onAir.key, FALSE)
    PROVE  OfKeys(AddAdvert(es, n))
  <1>1. PICK symbol, left, segment :
          /\ symbol = [index |-> n, of |-> onAir.key]
          /\ left = [index |-> AdvN + n, of |-> onAir.key - 1]
          /\ segment = [num |-> n, of |-> onAir.key]
    OBVIOUS
  <1>2. onAir.key \in Key \ {0} /\ onAir.key - 1 \in Key
    <2>1. onAir.key \in Key
      OBVIOUS
    <2> QED BY <2>1, KeysAreFirst
  <1>3. symbol \in Symbol /\ segment \in Segment /\ symbol.of = onAir.key /\ segment.of = onAir.key
    BY <1>1, <1>2, Sizes DEF Symbol, Segment, SymbolNum, AdvertNum
  <1>4. n < K - 1 => left \in Symbol /\ left.index >= AdvN
    BY <1>1, <1>2, Sizes DEF Symbol, SymbolNum, AdvertNum
  <1>5. PICK last, f : last = Len(es) /\ last \in Nat \ {0} /\ f = AddAdvert(es, n)
    OBVIOUS
  <1>6. f = [i \in 1 .. last |->
               IF i = last THEN AddSegment(SetSymbol(es[last], symbol), segment)
               ELSE IF i = last - 1 /\ n < K - 1 THEN SetSymbol(es[i], left)
               ELSE es[i]]
    BY <1>1, <1>5 DEF AddAdvert
  <1>7. Len(f) = last
    BY <1>5, <1>6
  <1>8. ASSUME NEW i \in 1 .. last
        PROVE  OfOneKey(f[i], i < last)
    <2>1. es[i] \in Epoch
      BY <1>5, <1>8
    <2>2. CASE i = last
      <3>1. PICK own : own = SetSymbol(es[i], symbol)
        OBVIOUS
      <3>2. own \in Epoch
        BY <1>3, <2>1, <3>1, SymbolKeeps
      <3>3. HoldsKey(own, onAir.key, FALSE) /\ SameDates(own, es[i])
        BY <1>3, <1>5, <2>1, <2>2, <3>1, SymbolOfKey
      <3>4. f[i] = AddSegment(own, segment)
        BY <1>6, <2>2, <3>1
      <3>5. HoldsKey(f[i], onAir.key, FALSE) /\ SameDates(f[i], own)
        BY <1>3, <3>2, <3>3, <3>4, SegmentOfKey
      <3>6. Dated(f[i], onAir.key)
        <4>1. SameDates(f[i], es[i])
          BY <3>3, <3>5 DEF SameDates
        <4> QED BY <1>5, <2>2, <4>1, DatesStay
      <3>7. (i < last) = FALSE
        BY <1>5, <2>2
      <3> QED BY <1>2, <3>5, <3>6, <3>7 DEF OfOneKey
    <2>3. CASE i # last
      <3>1. i \in 1 .. Len(es) - 1 /\ (i < last) = TRUE
        BY <1>5, <1>8, <2>3
      <3>2. PICK k \in Key \ {0} : Dated(es[i], k) /\ HoldsKey(es[i], k, TRUE)
        BY <3>1 DEF OfOneKey
      <3>3. HoldsKey(f[i], k, TRUE) /\ SameDates(f[i], es[i])
        <4>1. CASE i = last - 1 /\ n < K - 1
          <5>1. f[i] = SetSymbol(es[i], left)
            BY <1>6, <2>3, <4>1
          <5> QED BY <1>4, <2>1, <3>2, <4>1, <5>1, SymbolOfKey
        <4>2. CASE ~(i = last - 1 /\ n < K - 1)
          <5>1. f[i] = es[i]
            BY <1>6, <2>3, <4>2
          <5> QED BY <3>2, <5>1 DEF SameDates
        <4> QED BY <4>1, <4>2
      <3> QED BY <3>1, <3>2, <3>3, DatesStay DEF OfOneKey
    <2> QED BY <2>2, <2>3
  <1> QED BY <1>5, <1>7, <1>8 DEF OfKeys

\* An advert that passes for one of the latest epoch is of its key.
LEMMA CurrentIsOfKey ==
    ASSUME EpochsInv, SenderInv, NEW e \in Epoch, NEW b \in {0, 1}, NEW k \in Key \ {0},
           Dated(e, k), IsCurrent(e, onAir.num + b)
    PROVE  k = onAir.key
  <1>1. /\ now \in Nat /\ onAir.num \in Nat /\ onAir.num <= AdvN - 2 /\ onAir.key \in Nat \ {0}
    BY SenderTypes
  <1>2. k \in Nat \ {0} /\ k <= onAir.key
    BY KeysAreFirst DEF Dated
  <1>3. PICK n, num, last, t :
          /\ n = onAir.num + b /\ num = onAir.num /\ last = e.lastAdvertNum /\ t = e.lastAdvertTime
          /\ n \in Nat /\ num \in Nat /\ last \in Nat /\ t \in Nat /\ n <= num + 1
    <2>1. e.lastAdvertNum \in Nat /\ e.lastAdvertTime \in Nat
      BY Sizes DEF Epoch, AdvertNum
    <2>2. PICK n : n = onAir.num + b
      OBVIOUS
    <2>3. n \in Nat /\ n <= onAir.num + 1
      BY ONLY <1>1, <2>2, b \in {0, 1}
    <2> QED BY <1>1, <2>1, <2>2, <2>3
  <1> SUFFICES ASSUME k < onAir.key PROVE FALSE
    BY <1>1, <1>2
  <1>4. PICK begin, later :
          /\ begin = Begin(k) /\ later = Begin(onAir.key) /\ begin \in Nat /\ later \in Nat
          /\ later >= begin + EpochInterval /\ Begin(k + 1) = begin + EpochInterval
    BY <1>1, <1>2, Begins, LaterBegins
  <1>5. 2 * now >= 2 * later + num * Quickest
    <2>1. onAir.key >= 2
      BY <1>1, <1>2
    <2> QED BY <1>3, <1>4, <2>1 DEF SenderInv
  <1>6. /\ t <= begin + EpochInterval + Slowest
        /\ last < AdvN - 2 => 2 * t <= 2 * begin + (last + 4) * Slowest
    BY <1>3, <1>4 DEF Dated
  <1>7. last < n /\ now - t < ((n - last + 6) * ScanInterval) \div 2
    BY <1>3 DEF IsCurrent
  <1>8. num <= AdvN - 2
    BY <1>1, <1>3
  <1> QED BY ONLY <1>1, <1>3, <1>4, <1>5, <1>6, <1>7, <1>8, ComesTooLate

\* An epoch begins with an advert of the key on air.
LEMMA NewIsOfKey ==
    ASSUME EpochsInv, SenderInv, NEW b \in {0, 1}, NEW n, n = onAir.num + b
    PROVE  Dated(NewEpoch(n), onAir.key) /\ HoldsKey(NewEpoch(n), onAir.key, FALSE)
  <1>1. /\ now \in Nat /\ sendDue \in Nat /\ keyDue \in Nat /\ key \in Nat \ {0}
        /\ onAir.num \in Nat /\ onAir.num <= AdvN - 2 /\ onAir.key \in Nat \ {0}
    BY SenderTypes
  <1>2. PICK e : e = NewEpoch(n)
    OBVIOUS
  <1>3. /\ e.lastAdvertNum = n /\ e.lastAdvertTime = now /\ e.symbols = {} /\ e.counted = {}
        /\ e.blooms = <<>> /\ ~IsDecoded(e)
    BY <1>2 DEF NewEpoch, IsDecoded
  <1>4. HoldsKey(e, onAir.key, FALSE)
    BY <1>3 DEF HoldsKey
  <1>5. now <= Begin(onAir.key + 1) + Slowest
    <2>1. CASE onAir.key = key
      <3>1. now <= Begin(onAir.key + 1)
        BY <2>1 DEF SenderInv
      <3>2. Begin(onAir.key + 1) \in Nat
        BY <1>1, Begins
      <3> QED BY <1>1, <3>1, <3>2, Rounds
    <2>2. CASE onAir.key # key
      <3>1. onAir.key = key - 1 /\ now <= sendDue /\ sendDue <= Begin(key) + Slowest
        BY <2>2 DEF SenderInv
      <3>2. Begin(key) \in Nat /\ onAir.key + 1 = key
        BY <1>1, <3>1, Begins
      <3> QED BY <1>1, <3>1, <3>2, Rounds
    <2> QED BY <2>1, <2>2
  <1>6. ASSUME n < AdvN - 2
        PROVE  2 * now <= 2 * Begin(onAir.key) + (n + 4) * Slowest
    <2>1. PICK num : num = onAir.num /\ num \in Nat /\ n \in Nat /\ num <= n /\ num < AdvN - 2
      BY <1>1, <1>6, Sizes
    <2>2. 2 * sendDue <= 2 * Begin(onAir.key) + (num + 4) * Slowest /\ now <= sendDue
      BY <2>1 DEF SenderInv
    <2>3. /\ (num + 4) * Slowest <= (n + 4) * Slowest
          /\ (num + 4) * Slowest \in Nat /\ (n + 4) * Slowest \in Nat
      <3>1. num + 4 \in Nat /\ n + 4 \in Nat /\ num + 4 <= n + 4
        BY ONLY <2>1
      <3> QED BY <3>1, Rounds, LaterProduct
    <2>4. Begin(onAir.key) \in Nat
      BY <1>1, Begins
    <2> QED BY <1>1, <2>2, <2>3, <2>4
  <1>7. Dated(e, onAir.key)
    BY <1>1, <1>3, <1>5, <1>6 DEF Dated
  <1> QED BY <1>2, <1>4, <1>7

LEMMA ProcessAdvertOfKey ==
    ASSUME EpochsInv, SenderInv, NEW es \in Seq(Epoch), OfKeys(es), NEW b \in {0, 1},
           NEW n \in AdvertNum, n = onAir.num + b
    PROVE  OfKeys(ProcessAdvert(es, n))
  <1>0. onAir \in [num : AdvertNum, key : Key] /\ onAir.key # 0
    BY DEF EpochsInv, EpochsTypeOK, PairsInv
  <1>1. CASE ProcessAdvert(es, n) = es
    BY <1>1
  <1>2. CASE ProcessAdvert(es, n) = AddAdvert(es, n) /\ es # <<>> /\ IsCurrent(Back(es), n)
    <2>1. PICK last, e :
            /\ last = Len(es) /\ last \in Nat \ {0} /\ e = es[last] /\ e \in Epoch
            /\ IsCurrent(e, onAir.num + b)
      BY <1>2 DEF Back
    <2>2. last \in 1 .. Len(es) /\ (last < Len(es)) = FALSE
      BY <2>1
    <2>3. PICK k \in Key \ {0} : Dated(e, k) /\ HoldsKey(e, k, FALSE)
      BY <2>1, <2>2 DEF OfKeys, OfOneKey
    <2>4. k = onAir.key
      BY <2>1, <2>3, CurrentIsOfKey
    <2>5. \A i \in 1 .. Len(es) - 1 : OfOneKey(es[i], TRUE)
      <3>1. \A i \in 1 .. Len(es) - 1 : i \in 1 .. Len(es) /\ (i < Len(es)) = TRUE
        BY <2>1
      <3> QED BY <3>1 DEF OfKeys
    <2>6. Dated(es[Len(es)], onAir.key) /\ HoldsKey(es[Len(es)], onAir.key, FALSE)
      BY <2>1, <2>3, <2>4
    <2> QED BY <1>0, <1>2, <2>5, <2>6, AdvertOfKey
  <1>3. CASE ProcessAdvert(es, n) = AddAdvert(Append(es, NewEpoch(n)), n)
    <2>1. PICK new, longer, last : new = NewEpoch(n) /\ longer = Append(es, new) /\ last = Len(es)
      OBVIOUS
    <2>2. new \in Epoch
      <3>1. now \in Nat /\ ownKey \in Key /\ address \in Key
        BY DEF EpochsInv, EpochsTypeOK
      <3> QED BY <2>1, <3>1, KeysAreFirst DEF NewEpoch, Epoch
    <2>3. /\ longer \in Seq(Epoch) /\ longer # <<>> /\ Len(longer) = last + 1 /\ last \in Nat
          /\ \A i \in 1 .. last : longer[i] = es[i]
          /\ longer[last + 1] = new
      BY <2>1, <2>2
    <2>4. \A i \in 1 .. Len(longer) - 1 : OfOneKey(longer[i], TRUE)
      <3>1. ASSUME NEW i \in 1 .. last
            PROVE  OfOneKey(es[i], TRUE)
        <4>1. PICK k \in Key \ {0} : Dated(es[i], k) /\ HoldsKey(es[i], k, i < last)
          BY <2>1, <3>1 DEF OfKeys, OfOneKey
        <4>2. HoldsKey(es[i], k, TRUE)
          <5>1. (i < last) \in BOOLEAN
            OBVIOUS
          <5> QED BY <4>1, <5>1, OlderHolds
        <4> QED BY <4>1, <4>2 DEF OfOneKey
      <3>2. Len(longer) - 1 = last
        BY <2>3
      <3> QED BY <2>3, <3>1, <3>2
    <2>5. Dated(longer[Len(longer)], onAir.key) /\ HoldsKey(longer[Len(longer)], onAir.key, FALSE)
      BY <2>1, <2>3, NewIsOfKey
    <2>6. OfKeys(AddAdvert(longer, n))
      BY ONLY <1>0, <2>3, <2>4, <2>5, AdvertOfKey, n \in AdvertNum
    <2> QED BY <1>3, <2>1, <2>6
  <1> QED BY <1>1, <1>2, <1>3 DEF ProcessAdvert

-----------------------------------------------------------------------------
\* Symbols of one key decode to it.
LEMMA KeyOfOne ==
    ASSUME NEW symbols, symbols # {}, NEW k \in Key, \A s \in symbols : s.of = k
    PROVE  KeyOf(symbols) = k
  <1>1. KeyOf(symbols) = CHOOSE m \in Key : \A s \in symbols : s.of = m
    BY DEF KeyOf
  <1> QED BY <1>1

LEMMA DecodeOfKey ==
    ASSUME NEW e \in Epoch, NEW k \in Key \ {0}, HoldsKey(e, k, FALSE)
    PROVE  HoldsKey(Decode(e), k, FALSE) /\ SameDates(Decode(e), e)
  <1>1. CASE CanDecode(e)
    <2>1. e.symbols # {}
      <3>1. Cardinality({}) = 0 /\ ~(0 >= K)
        BY FS_EmptySet, Sizes
      <3> QED BY <1>1, <3>1 DEF CanDecode
    <2>2. KeyOf(e.symbols) = k
      <3>1. \A s \in e.symbols : s.of = k
        BY DEF HoldsKey
      <3> QED BY <2>1, <3>1, KeyOfOne
    <2>3. PICK num, f :
            /\ f = Decode(e)
            /\ f = [e EXCEPT !.decodeBloomNum = num, !.remote = k, !.symbols = {}]
      BY <1>1, <2>2 DEF Decode
    <2>4. /\ f.remote = k /\ f.symbols = {} /\ f.counted = e.counted /\ f.blooms = e.blooms
          /\ f.lastAdvertNum = e.lastAdvertNum /\ f.lastAdvertTime = e.lastAdvertTime
      BY <2>3 DEF Epoch
    <2>5. HoldsKey(f, k, FALSE)
      BY <2>4 DEF HoldsKey
    <2> QED BY <2>3, <2>4, <2>5 DEF SameDates
  <1>2. CASE ~CanDecode(e)
    <2>1. Decode(e) = e
      BY <1>2 DEF Decode
    <2> QED BY <2>1 DEF SameDates
  <1> QED BY <1>1, <1>2

LEMMA UnfinishedOf ==
    ASSUME NEW blooms \in Seq(Bloom), blooms # <<>>, NEW k,
           \A j \in DOMAIN blooms : BloomOf(blooms[j], k)
    PROVE  \A j \in DOMAIN Unfinished(blooms) : BloomOf(Unfinished(blooms)[j], k)
  <1>1. Back(blooms) \in Bloom /\ BloomOf(Back(blooms), k)
    <2>1. Len(blooms) \in DOMAIN blooms
      OBVIOUS
    <2> QED BY <2>1, Backs DEF Back
  <1>2. PICK back, last :
          back = Back(blooms) /\ last = [back EXCEPT !.fresh = {}] /\ back \in Bloom
    BY <1>1
  <1>3. BloomOf(last, k)
    <2>1. last.segments = back.segments /\ last.fresh = {}
      BY ONLY <1>2 DEF Bloom
    <2> QED BY <1>1, <1>2, <2>1 DEF BloomOf
  <1>4. CASE Unfinished(blooms) = <<>>
    BY <1>4
  <1>5. CASE Unfinished(blooms) = <<last>>
    <2>1. DOMAIN <<last>> = {1} /\ <<last>>[1] = last
      OBVIOUS
    <2> QED BY <1>3, <1>5, <2>1
  <1> QED BY <1>2, <1>4, <1>5 DEF Unfinished

LEMMA LookOfKey ==
    ASSUME NEW e \in Epoch, NEW k, NEW older, HoldsKey(e, k, older)
    PROVE  HoldsKey(LookAtBlooms(e), k, older) /\ SameDates(LookAtBlooms(e), e)
  <1>1. CASE IsDecoded(e) /\ e.blooms # <<>>
    <2>1. PICK blooms, counted, f :
            /\ blooms = Unfinished(e.blooms) /\ counted = e.counted \cup Evidence(e)
            /\ f = LookAtBlooms(e)
      OBVIOUS
    <2>2. \A j \in DOMAIN blooms : BloomOf(blooms[j], k)
      <3>1. e.blooms \in Seq(Bloom)
        BY DEF Epoch
      <3> QED BY <1>1, <2>1, <3>1, UnfinishedOf DEF HoldsKey
    <2>3. \A s \in counted : s.of = k
      <3>1. \A s \in Evidence(e) : \E j \in DOMAIN e.blooms : s \in e.blooms[j].fresh
        BY DEF Evidence
      <3>2. \A s \in Evidence(e) : s.of = k
        BY <3>1 DEF HoldsKey, BloomOf
      <3> QED BY <2>1, <3>2 DEF HoldsKey
    <2>4. f = [e EXCEPT !.blooms = blooms, !.counted = counted]
      BY <1>1, <2>1 DEF LookAtBlooms
    <2>5. /\ f.blooms = blooms /\ f.counted = counted /\ f.symbols = e.symbols
          /\ f.decodeBloomNum = e.decodeBloomNum /\ f.remote = e.remote
          /\ f.lastAdvertNum = e.lastAdvertNum /\ f.lastAdvertTime = e.lastAdvertTime
      BY <2>4 DEF Epoch
    <2>6. HoldsKey(f, k, older)
      BY <2>2, <2>3, <2>5 DEF HoldsKey, IsDecoded
    <2> QED BY <2>1, <2>5, <2>6 DEF SameDates
  <1>2. CASE ~(IsDecoded(e) /\ e.blooms # <<>>)
    <2>1. LookAtBlooms(e) = e
      BY <1>2 DEF LookAtBlooms
    <2> QED BY <2>1 DEF SameDates
  <1> QED BY <1>1, <1>2

\* Before the latest epoch only one that did not decode stays.
LEMMA ProcessEpochsOfKey ==
    ASSUME NEW es \in Seq(Epoch), es # <<>>, OfKeys(es), \A i \in 1 .. Len(es) : HasBloom(es[i])
    PROVE  OfKeys(ProcessEpochs(es))
  <1>0. PICK last : last = Len(es) /\ last \in Nat \ {0} /\ DOMAIN es = 1 .. last
    OBVIOUS
  <1>1. PICK f :
          /\ f = [i \in 1 .. last |-> LookAtBlooms(Decode(es[i]))]
          /\ f = [i \in DOMAIN es |-> LookAtBlooms(Decode(es[i]))]
    BY <1>0
  <1>2. Len(f) = last /\ last \in 1 .. last
    BY <1>0, <1>1
  <1>3. OfOneKey(f[last], FALSE)
    <2>1. PICK e, next : e = es[last] /\ e \in Epoch /\ next = Decode(e) /\ HasBloom(e)
      BY <1>0, <1>2
    <2>2. PICK k \in Key \ {0} : Dated(e, k) /\ HoldsKey(e, k, FALSE)
      <3>1. (last < Len(es)) = FALSE
        BY <1>0
      <3> QED BY <1>0, <1>2, <2>1, <3>1 DEF OfKeys, OfOneKey
    <2>3. HoldsKey(next, k, FALSE) /\ SameDates(next, e) /\ next \in Epoch
      BY <2>1, <2>2, DecodeOfKey, DecodeKeeps
    <2>4. f[last] = LookAtBlooms(next)
      BY <1>1, <1>2, <2>1
    <2>5. HoldsKey(f[last], k, FALSE) /\ SameDates(f[last], next)
      BY <2>3, <2>4, LookOfKey
    <2>6. Dated(f[last], k)
      BY <2>2, <2>3, <2>5, DatesStay
    <2> QED BY <2>5, <2>6 DEF OfOneKey
  <1>4. ASSUME last > 1, ~IsDecoded(f[last - 1])
        PROVE  OfOneKey(f[last - 1], TRUE)
    <2>1. PICK m, e : m = last - 1 /\ m \in 1 .. last /\ e = es[m] /\ e \in Epoch /\ HasBloom(e)
      BY <1>0, <1>4
    <2>2. f[m] = LookAtBlooms(Decode(e)) /\ ~IsDecoded(f[m])
      BY <1>1, <1>4, <2>1
    <2>3. PICK next : next = Decode(e) /\ next \in Epoch /\ HasBloom(next)
      BY <2>1, DecodeKeeps
    <2>4. ~IsDecoded(next)
      BY <2>2, <2>3, LookKeeps DEF IsDecoded
    <2>5. next = e
      <3>1. CASE CanDecode(e)
        <4>1. PICK num : num = Back(e.blooms).num /\ num # NULL
          <5>1. e.blooms \in Seq(Bloom) /\ e.blooms # <<>>
            BY <2>1, <3>1 DEF CanDecode, HasBloom, Epoch
          <5>2. Back(e.blooms) \in Bloom
            BY ONLY <5>1, Backs
          <5>3. Back(e.blooms).num \in BloomNum
            BY ONLY <5>2 DEF Bloom
          <5>4. NULL \notin BloomNum
            BY EpochsAssumption DEF BloomNum
          <5> QED BY <5>3, <5>4
        <4>2. next.decodeBloomNum = num
          BY <2>1, <2>3, <3>1, <4>1 DEF Decode, Epoch
        <4> QED BY <2>4, <4>1, <4>2 DEF IsDecoded
      <3>2. CASE ~CanDecode(e)
        BY <2>3, <3>2 DEF Decode
      <3> QED BY <3>1, <3>2
    <2>6. f[m] = e
      BY <2>2, <2>3, <2>4, <2>5 DEF LookAtBlooms
    <2>7. OfOneKey(e, TRUE)
      <3>1. (m < Len(es)) = TRUE /\ m \in 1 .. Len(es)
        BY <1>0, <2>1
      <3> QED BY <2>1, <3>1 DEF OfKeys
    <2> QED BY <2>1, <2>6, <2>7
  <1>5. ProcessEpochs(es) = KeepEpochs(f)
    BY <1>1 DEF ProcessEpochs
  <1>6. CASE last > 1 /\ ~IsDecoded(f[last - 1])
    <2>1. KeepEpochs(f) = <<f[last - 1], f[last]>>
      BY <1>2, <1>6 DEF KeepEpochs
    <2>2. PICK first, second : first = f[last - 1] /\ second = f[last]
      OBVIOUS
    <2>3. OfOneKey(first, TRUE) /\ OfOneKey(second, FALSE)
      BY <1>3, <1>4, <1>6, <2>2
    <2>4. OfKeys(<<first, second>>)
      <3>1. /\ Len(<<first, second>>) = 2 /\ <<first, second>>[1] = first
            /\ <<first, second>>[2] = second /\ (1 < 2) = TRUE /\ (2 < 2) = FALSE
        OBVIOUS
      <3>2. 1 .. 2 = {1, 2}
        OBVIOUS
      <3> QED BY ONLY <2>3, <3>1, <3>2 DEF OfKeys
    <2> QED BY <1>5, <2>1, <2>2, <2>4
  <1>7. CASE ~(last > 1 /\ ~IsDecoded(f[last - 1]))
    <2>1. KeepEpochs(f) = <<f[last]>>
      BY <1>2, <1>7 DEF KeepEpochs
    <2>2. PICK only : only = f[last] /\ OfOneKey(only, FALSE)
      BY <1>3
    <2>3. OfKeys(<<only>>)
      <3>1. Len(<<only>>) = 1 /\ <<only>>[1] = only /\ (1 < 1) = FALSE /\ 1 .. 1 = {1}
        OBVIOUS
      <3> QED BY ONLY <2>2, <3>1 DEF OfKeys
    <2> QED BY <1>5, <2>1, <2>2, <2>3
  <1> QED BY <1>6, <1>7

-----------------------------------------------------------------------------
(***************************************************************************)
(* The actions again.                                                      *)
(***************************************************************************)
UnmixedInv == SenderInv /\ OfKeys(epochs)

LEMMA OfKeysStay ==
    ASSUME NEW es, OfKeys(es), epochs' = es, onAir.key \in Nat, onAir'.key \in Nat,
           onAir.key <= onAir'.key
    PROVE  OfKeys(epochs)'
  <1>1. \A k \in Key : k <= onAir.key => k <= onAir'.key
    BY KeysAreFirst
  <1>2. \A e, k : k \in Key /\ Dated(e, k) => Dated(e, k)'
    BY <1>1 DEF Dated
  <1>3. \A e, k, older : HoldsKey(e, k, older) => HoldsKey(e, k, older)'
    BY DEF HoldsKey
  <1>4. \A e, older : OfOneKey(e, older) => OfOneKey(e, older)'
    BY <1>2, <1>3 DEF OfOneKey
  <1> QED BY <1>4 DEF OfKeys

LEMMA StepUnmixedInv ==
    ASSUME EpochsInv, EpochsInv', UnmixedInv, [Next]_vars
    PROVE  UnmixedInv'
  <1>1. SenderInv /\ SenderInv' /\ OfKeys(epochs)
    BY SenderKeeps DEF UnmixedInv
  <1>2. /\ key \in Nat /\ onAir.key \in Nat /\ onAir'.key \in Nat /\ epochs \in Seq(Epoch)
    <2>1. key \in Nat /\ onAir.key \in Nat
      BY SenderTypes
    <2>2. onAir' \in [num : AdvertNum, key : Key] /\ epochs \in Seq(Epoch)
      BY DEF EpochsInv, EpochsTypeOK
    <2> QED BY <2>1, <2>2, KeysAreFirst
  <1>3. onAir.key <= onAir'.key
    <2>1. UNCHANGED onAir \/ (ChangeAdvert /\ onAir'.key = key)
      BY DEF Next, vars, senderVars, SenderChangesEpoch, ChangeAdvert, WaitForEpoch, StartScan,
             ProcessScanResponse, EndScan, ReceiverChangesEpoch, Tick
    <2>2. onAir.key <= key
      BY <1>1, <1>2 DEF SenderInv
    <2> QED BY <1>2, <2>1, <2>2
  <1>4. CASE UNCHANGED epochs
    <2>1. PICK es : es = epochs /\ OfKeys(es)
      BY <1>1
    <2> QED BY <1>1, <1>2, <1>3, <1>4, <2>1, OfKeysStay DEF UnmixedInv
  <1>5. CASE epochs' = <<>>
    <2>1. OfKeys(<<>>)
      BY DEF OfKeys
    <2> QED BY <1>1, <1>2, <1>3, <1>5, <2>1, OfKeysStay DEF UnmixedInv
  <1>6. ASSUME NEW b \in {0, 1}, ProcessScanResponse(b)
        PROVE  UnmixedInv'
    <2>1. PICK n, old, known, es :
            /\ n = onAir.num + b /\ old = (IF IsKnown THEN epochs ELSE <<>>)
            /\ known = (IF IsKnown THEN secrets ELSE {}) /\ es = ProcessAdvert(old, n)
      OBVIOUS
    <2>2. epochs' = ProcessEpochs(es)
      BY <1>6, <2>1 DEF ProcessScanResponse
    <2>3. n \in AdvertNum
      BY <2>1, HeardNumber
    <2>4. /\ old \in Seq(Epoch) /\ OfKeys(old) /\ \A i \in 1 .. Len(old) : HasBloom(old[i])
          /\ old # <<>> => HasSecret(Back(old), known)
      <3>1. CASE IsKnown
        <4>1. old = epochs /\ known = secrets
          BY <2>1, <3>1
        <4> QED BY <1>1, <1>2, <4>1 DEF EpochsInv, UndecodedHasBloom, HasBloom, LatestInv
      <3>2. CASE ~IsKnown
        <4>1. old = <<>>
          BY <2>1, <3>2
        <4> QED BY <4>1 DEF OfKeys
      <3> QED BY <3>1, <3>2
    <2>5. es \in Seq(Epoch) /\ es # <<>> /\ \A i \in 1 .. Len(es) : HasBloom(es[i])
      <3>1. /\ onAir \in [num : AdvertNum, key : Key] /\ onAir.key # 0 /\ now \in Nat
            /\ ownKey \in Key /\ address \in Key
        BY DEF EpochsInv, EpochsTypeOK, PairsInv
      <3> QED BY <2>1, <2>3, <2>4, <3>1, ProcessAdvertKeeps
    <2>6. OfKeys(es)
      BY <1>1, <2>1, <2>3, <2>4, ProcessAdvertOfKey
    <2>7. PICK next : next = ProcessEpochs(es) /\ OfKeys(next)
      BY <2>5, <2>6, ProcessEpochsOfKey
    <2>8. epochs' = next
      BY <2>2, <2>7
    <2> QED BY <1>1, <1>2, <1>3, <2>7, <2>8, OfKeysStay DEF UnmixedInv
  <1>7. CASE ReceiverChangesEpoch /\ ~UNCHANGED epochs
    <2>1. PICK len, es, next :
            /\ len = Len(epochs) /\ es = [epochs EXCEPT ![len] = next]
            /\ next = [epochs[len] EXCEPT !.dhExchanges = @ \cup {ownKey + 1}]
            /\ epochs' = es /\ epochs # <<>>
      BY <1>7 DEF ReceiverChangesEpoch
    <2>2. /\ len \in 1 .. len /\ epochs[len] \in Epoch /\ Len(es) = len
          /\ \A i \in 1 .. len : es[i] = IF i = len THEN next ELSE epochs[i]
      BY <1>2, <2>1
    <2>3. /\ next.decodeBloomNum = epochs[len].decodeBloomNum
          /\ next.remote = epochs[len].remote /\ next.symbols = epochs[len].symbols
          /\ next.counted = epochs[len].counted /\ next.blooms = epochs[len].blooms
          /\ SameDates(next, epochs[len])
      BY <2>1, <2>2 DEF Epoch, SameDates
    <2>4. ASSUME NEW i \in 1 .. len
          PROVE  OfOneKey(es[i], i < len)
      <3>1. PICK older : older = (i < len)
        OBVIOUS
      <3>2. PICK k \in Key \ {0} : Dated(epochs[i], k) /\ HoldsKey(epochs[i], k, older)
        BY <1>1, <2>1, <2>4, <3>1 DEF OfKeys, OfOneKey
      <3>3. CASE i = len
        <4>1. es[i] = next
          BY <2>2, <3>3
        <4>2. HoldsKey(next, k, older)
          BY <2>3, <3>2, <3>3 DEF HoldsKey, IsDecoded
        <4>3. Dated(next, k)
          BY <2>3, <3>2, <3>3, DatesStay
        <4> QED BY <3>1, <4>1, <4>2, <4>3 DEF OfOneKey
      <3>4. CASE i # len
        <4>1. es[i] = epochs[i]
          BY <2>2, <3>4
        <4> QED BY <3>1, <3>2, <4>1 DEF OfOneKey
      <3> QED BY <3>3, <3>4
    <2>5. OfKeys(es)
      BY <2>2, <2>4 DEF OfKeys
    <2> QED BY <1>1, <1>2, <1>3, <2>1, <2>5, OfKeysStay DEF UnmixedInv
  <1>8. CASE EndScan
    <2>1. epochs' = <<>> \/ UNCHANGED epochs
      BY <1>8 DEF EndScan, deviceVars
    <2> QED BY <1>4, <1>5, <2>1
  <1>9. CASE \/ SenderChangesEpoch \/ ChangeAdvert \/ WaitForEpoch \/ StartScan \/ Tick
             \/ UNCHANGED vars
    <2>1. UNCHANGED epochs
      BY <1>9 DEF SenderChangesEpoch, ChangeAdvert, WaitForEpoch, StartScan, Tick, vars, deviceVars
    <2> QED BY <1>4, <2>1
  <1> QED BY <1>4, <1>6, <1>7, <1>8, <1>9 DEF Next

LEMMA UnmixedIsKept == Spec => []UnmixedInv
  <1>1. Init => UnmixedInv
    <2>1. Init => OfKeys(epochs)
      BY DEF Init, OfKeys
    <2> QED BY <2>1, InitSenderInv DEF UnmixedInv
  <1>2. EpochsInv /\ EpochsInv' /\ UnmixedInv /\ [Next]_vars => UnmixedInv'
    BY StepUnmixedInv
  <1> QED BY <1>1, <1>2, EpochsAreKept, PTL DEF Spec

-----------------------------------------------------------------------------
\* The epochs of sender and receiver keep their types: symbols and segments have
\* numbers there are, and keys are not more than the time allows.
THEOREM EpochTypes == Spec => []EpochsTypeOK
  <1>1. EpochsInv => EpochsTypeOK
    BY DEF EpochsInv
  <1> QED BY <1>1, EpochsAreKept, PTL

\* processEpochs never takes the back of an empty list of filters.
THEOREM BloomsAreThere == Spec => []UndecodedHasBloom
  <1>1. EpochsInv => UndecodedHasBloom
    BY DEF EpochsInv
  <1> QED BY <1>1, EpochsAreKept, PTL

\* In whichever order the own key changes, adverts are heard and an epoch is
\* decoded, the latest epoch ends up with a secret of the own key of now.
THEOREM SecretsAreLatest == Spec => []LatestHasSecret
  <1>1. EpochsInv => LatestHasSecret
    BY DEF EpochsInv, LatestInv, HasSecret, LatestHasSecret
  <1> QED BY <1>1, EpochsAreKept, PTL

\* Number and time alone tell the epochs of a sender apart: whatever adverts are
\* missed or repeated and however the two clocks drift, the filters of an epoch,
\* the evidence taken from them, the symbols of the latest one and the key it
\* decodes to are of one key, if rounds and epochs are as long as TimesAssumption says.
THEOREM EpochsStayUnmixed == Spec => []EpochsAreUnmixed
  <1>1. EpochsInv /\ UnmixedInv => EpochsAreUnmixed
    <2> SUFFICES ASSUME EpochsInv, UnmixedInv, NEW i \in DOMAIN epochs
                 PROVE  \E k \in Key \ {0} : IsOfKey(i, k)
      BY DEF EpochsAreUnmixed
    <2>1. epochs \in Seq(Epoch) /\ i \in 1 .. Len(epochs)
      BY DEF EpochsInv, EpochsTypeOK
    <2>2. PICK older : older = (i < Len(epochs))
      OBVIOUS
    <2>3. PICK k \in Key \ {0} : HoldsKey(epochs[i], k, older)
      BY <2>1, <2>2 DEF UnmixedInv, OfKeys, OfOneKey
    <2>4. IsOfKey(i, k)
      BY <2>2, <2>3 DEF IsOfKey, HoldsKey, BloomOf
    <2> QED BY <2>4
  <1> QED BY <1>1, EpochsAreKept, UnmixedIsKept, PTL
=============================================================================
