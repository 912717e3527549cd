---------------------------- MODULE Server_proofs ----------------------------
(***************************************************************************)
(* What holds of the server for messages of any size, cut in any way: the  *)
(* sets installed are those of one message after the other.                *)
(***************************************************************************)
EXTENDS Server, Integers, TLAPS

(***************************************************************************)
(* The stream: the unit in place j, counted from 0, belongs to the message *)
(* j \div Size + 1.                                                        *)
(***************************************************************************)
UnitAt(j) == [message |-> (j \div Size) + 1, at |-> (j % Size) + 1]

Units == {UnitAt(j) : j \in Nat}

LEMMA Sizes ==
    /\ HeaderSize \in Nat /\ HeaderSize > 0 /\ BodySize \in Nat /\ BodySize > 0
    /\ Size \in Nat /\ Size > 0 /\ Size = HeaderSize + BodySize
    /\ MaxMessages \in Nat
  BY ServerAssumption DEF Size

LEMMA DivMod ==
    ASSUME NEW a \in Nat, NEW s \in Nat \ {0}, NEW r \in 0 .. s - 1
    PROVE  (a * s + r) \div s = a /\ (a * s + r) % s = r
  BY Z3

LEMMA Cancel ==
    ASSUME NEW a \in Nat, NEW b \in Nat, NEW s \in Nat \ {0}, a * s <= b * s
    PROVE  a <= b
  OBVIOUS

\* The two parts a read cuts a sequence in, and putting pieces together.
LEMMA FirstPart ==
    ASSUME NEW S, NEW q \in Seq(S), NEW n \in 1 .. Len(q)
    PROVE  /\ SubSeq(q, 1, n) \in Seq(S) /\ Len(SubSeq(q, 1, n)) = n
           /\ \A i \in 1 .. n : SubSeq(q, 1, n)[i] = q[i]
  OBVIOUS

LEMMA LastPart ==
    ASSUME NEW S, NEW q \in Seq(S), NEW n \in 1 .. Len(q)
    PROVE  /\ SubSeq(q, n + 1, Len(q)) \in Seq(S)
           /\ Len(SubSeq(q, n + 1, Len(q))) = Len(q) - n
           /\ \A i \in 1 .. Len(q) - n : SubSeq(q, n + 1, Len(q))[i] = q[n + i]
  OBVIOUS

LEMMA Concat ==
    ASSUME NEW S, NEW p \in Seq(S), NEW q \in Seq(S)
    PROVE  /\ p \o q \in Seq(S) /\ Len(p \o q) = Len(p) + Len(q)
           /\ \A i \in 1 .. Len(p) + Len(q) :
                (p \o q)[i] = IF i <= Len(p) THEN p[i] ELSE q[i - Len(p)]
  OBVIOUS

\* The body of message a + 1 is parsed as that message.
LEMMA ParseBody ==
    ASSUME NEW a \in Nat, a < MaxMessages, NEW q \in Seq(Units), Len(q) = BodySize,
           \A i \in 1 .. Len(q) : q[i] = UnitAt(a * Size + HeaderSize + i - 1)
    PROVE  Parse(q) = a + 1
  <1>1. ASSUME NEW i \in 1 .. BodySize
        PROVE  q[i] = [message |-> a + 1, at |-> HeaderSize + i]
    <2>1. HeaderSize + i - 1 \in 0 .. Size - 1
      BY Sizes
    <2>2. /\ (a * Size + (HeaderSize + i - 1)) \div Size = a
          /\ (a * Size + (HeaderSize + i - 1)) % Size = HeaderSize + i - 1
      <3>1. PICK r, s : r = HeaderSize + i - 1 /\ s = Size
        OBVIOUS
      <3>2. r \in 0 .. s - 1 /\ s \in Nat \ {0}
        BY <2>1, <3>1, Sizes
      <3>3. (a * s + r) \div s = a /\ (a * s + r) % s = r
        BY <3>2, DivMod
      <3> QED BY <3>1, <3>3
    <2>3. a * Size + HeaderSize + i - 1 = a * Size + (HeaderSize + i - 1)
      <3>1. a * Size \in Nat
        BY Sizes
      <3> QED BY <3>1, Sizes
    <2>4. (HeaderSize + i - 1) + 1 = HeaderSize + i
      BY Sizes
    <2> QED BY <2>2, <2>3, <2>4 DEF UnitAt
  <1>2. q = [i \in 1 .. BodySize |-> [message |-> a + 1, at |-> HeaderSize + i]]
    <2>1. q = [i \in 1 .. BodySize |-> q[i]]
      OBVIOUS
    <2> QED BY <1>1, <2>1
  <1>3. a + 1 \in 1 .. MaxMessages
    BY Sizes
  <1>4. q[1].message = a + 1
    BY <1>1, Sizes
  <1> QED BY <1>2, <1>3, <1>4 DEF Parse

-----------------------------------------------------------------------------
(***************************************************************************)
(* The invariant: what is on its way is the stream from the place on that  *)
(* has been read so far, and that place is the beginning of a header, of a *)
(* body, or in it as far as received goes.  Once the application is gone   *)
(* and everything read, a failing read may lose the place, and no message  *)
(* comes any more.                                                         *)
(***************************************************************************)
ServerTypes ==
    /\ sent \in Nat /\ toServer \in Seq(Units) /\ received \in Seq(Units)
    /\ advertisedSet \in Nat
    /\ mainPc \in {"accept", "size", "body", "advertised", "listen", "ended"}
    /\ mainPc = "accept" => client = "absent"

StreamInv ==
    /\ sent <= MaxMessages * Size
    /\ Len(toServer) <= sent
    /\ \A i \in 1 .. Len(toServer) : toServer[i] = UnitAt(sent - Len(toServer) + i - 1)

Over == client = "gone" /\ toServer = <<>>

\* Where what is received begins.
Base ==
    IF mainPc = "body" THEN advertisedSet * Size + HeaderSize
    ELSE IF mainPc = "advertised" THEN advertisedSet * Size + Size
    ELSE advertisedSet * Size

PlaceInv ==
    mainPc # "ended" /\ ~Over =>
        /\ sent - Len(toServer) = Base + Len(received)
        /\ \A i \in 1 .. Len(received) : received[i] = UnitAt(Base + i - 1)
        /\ mainPc \notin {"size", "body"} => received = <<>>
        /\ mainPc \in {"size", "body"} => Len(received) < Wanted

SetsInv ==
    /\ mainPc = "advertised" => event = advertisedSet + 1
    /\ mainPc = "listen" => event = advertisedSet
    /\ mainPc \in {"accept", "size", "body", "advertised"} => listenSet = advertisedSet

ServerInv == ServerTypes /\ StreamInv /\ PlaceInv /\ SetsInv

LEMMA InitServerInv == Init => ServerInv
  <1> SUFFICES ASSUME Init PROVE ServerInv
    OBVIOUS
  <1>1. 0 * Size = 0 /\ 0 <= MaxMessages * Size
    BY Sizes
  <1>2. ServerTypes
    BY DEF Init, ServerTypes
  <1>3. StreamInv
    BY <1>1 DEF Init, StreamInv
  <1>4. PlaceInv
    BY <1>1 DEF Init, PlaceInv, Base
  <1> QED BY <1>2, <1>3, <1>4 DEF ServerInv, SetsInv, Init

\* The lengths and places are numbers.
LEMMA Numbers ==
    ASSUME ServerInv
    PROVE  /\ Len(toServer) \in Nat /\ Len(received) \in Nat
           /\ advertisedSet * Size \in Nat /\ Base \in Nat /\ Wanted \in Nat
  <1>1. Len(toServer) \in Nat /\ Len(received) \in Nat
    BY DEF ServerInv, ServerTypes
  <1>2. advertisedSet * Size \in Nat
    BY Sizes DEF ServerInv, ServerTypes
  <1> QED BY <1>1, <1>2, Sizes DEF Base, Wanted

-----------------------------------------------------------------------------
(***************************************************************************)
(* A read, which brings n units more.                                      *)
(***************************************************************************)
UnitsRead(n) == received \o SubSeq(toServer, 1, n)

LEMMA RecvAllPlaces ==
    ASSUME ServerInv, mainPc \in {"size", "body"}, NEW n \in 1 .. (Wanted - Len(received)),
           n <= Len(toServer), NEW q, q = UnitsRead(n)
    PROVE  /\ q \in Seq(Units) /\ Len(q) = Len(received) + n /\ Len(q) <= Wanted
           /\ sent - (Len(toServer) - n) = Base + Len(q)
           /\ \A i \in 1 .. Len(q) : q[i] = UnitAt(Base + i - 1)
  <1> DEFINE k == Len(toServer)
             h == Len(received)
             f == SubSeq(toServer, 1, n)
  <1>0. k \in Nat /\ h \in Nat /\ Base \in Nat /\ Wanted \in Nat /\ sent \in Nat /\ k <= sent
    BY Numbers DEF ServerInv, ServerTypes, StreamInv
  <1>1. toServer \in Seq(Units) /\ received \in Seq(Units)
    BY DEF ServerInv, ServerTypes
  <1>2. n \in 1 .. k
    BY <1>0
  <1>3. f \in Seq(Units) /\ Len(f) = n /\ \A i \in 1 .. n : f[i] = toServer[i]
    BY <1>1, <1>2, FirstPart
  <1>4. /\ q \in Seq(Units) /\ Len(q) = h + n
        /\ \A i \in 1 .. h + n : q[i] = IF i <= h THEN received[i] ELSE f[i - h]
    BY <1>1, <1>3, Concat DEF UnitsRead
  <1>5. mainPc # "ended" /\ ~Over
    BY <1>2 DEF Over
  <1>6. /\ sent - k = Base + h
        /\ \A i \in 1 .. h : received[i] = UnitAt(Base + i - 1)
    BY <1>5 DEF ServerInv, PlaceInv
  <1>7. \A i \in 1 .. k : toServer[i] = UnitAt(sent - k + i - 1)
    BY DEF ServerInv, StreamInv
  <1> HIDE DEF f, k, h
  <1>8. ASSUME NEW i \in 1 .. h + n PROVE q[i] = UnitAt(Base + i - 1)
    <2>1. CASE i <= h
      BY <1>0, <1>4, <1>6, <2>1
    <2>2. CASE i > h
      <3>1. i - h \in 1 .. n /\ i - h \in 1 .. k
        BY <1>0, <1>2, <2>2
      <3>2. q[i] = toServer[i - h]
        BY <1>0, <1>3, <1>4, <2>2, <3>1
      <3>3. q[i] = UnitAt(sent - k + (i - h) - 1)
        BY <1>7, <3>1, <3>2
      <3>4. sent - k + (i - h) - 1 = Base + i - 1
        BY <1>0, <1>6, <3>1
      <3> QED BY <3>3, <3>4
    <2>3. i <= h \/ i > h
      BY <1>0, <1>2
    <2> QED BY <2>1, <2>2, <2>3
  <1>9. sent - (k - n) = Base + (h + n) /\ h + n <= Wanted
    BY <1>0, <1>2, <1>6 DEF h
  <1> QED BY <1>4, <1>8, <1>9 DEF k, h

LEMMA RecvAllStream ==
    ASSUME ServerInv, NEW n \in 1 .. Len(toServer),
           toServer' = SubSeq(toServer, n + 1, Len(toServer)), UNCHANGED sent
    PROVE  /\ toServer' \in Seq(Units) /\ Len(toServer') = Len(toServer) - n
           /\ StreamInv'
  <1> DEFINE k == Len(toServer)
  <1>0. k \in Nat /\ sent \in Nat /\ k <= sent
    BY Numbers DEF ServerInv, ServerTypes, StreamInv
  <1>1. toServer \in Seq(Units)
    BY DEF ServerInv, ServerTypes
  <1>2. /\ toServer' \in Seq(Units) /\ Len(toServer') = k - n
        /\ \A i \in 1 .. k - n : toServer'[i] = toServer[n + i]
    BY <1>1, LastPart
  <1>3. \A i \in 1 .. k : toServer[i] = UnitAt(sent - k + i - 1)
    BY DEF ServerInv, StreamInv
  <1>4. n \in 1 .. k
    OBVIOUS
  <1> HIDE DEF k
  <1>5. ASSUME NEW i \in 1 .. k - n PROVE toServer'[i] = UnitAt(sent - (k - n) + i - 1)
    <2>1. n + i \in 1 .. k
      BY <1>0, <1>4
    <2>2. sent - k + (n + i) - 1 = sent - (k - n) + i - 1
      BY <1>0, <1>4
    <2> QED BY <1>2, <1>3, <2>1, <2>2
  <1>6. k - n <= sent /\ sent <= MaxMessages * Size
    BY <1>0, <1>4 DEF ServerInv, StreamInv
  <1> QED BY <1>2, <1>5, <1>6 DEF k, StreamInv

LEMMA StepRecvAll == ASSUME ServerInv, RecvAll PROVE ServerInv'
  <1>1. mainPc \in {"size", "body"}
    BY DEF RecvAll
  <1>2. PICK n \in 1 .. (Wanted - Len(received)) :
          /\ n <= Len(toServer)
          /\ toServer' = SubSeq(toServer, n + 1, Len(toServer))
          /\ LET units == UnitsRead(n)
             IN  IF ~IsReceived(units)
                 THEN received' = units /\ UNCHANGED <<mainPc, event>>
                 ELSE /\ received' = <<>>
                      /\ mainPc' = IF mainPc = "size" THEN "body" ELSE "advertised"
                      /\ event' = IF mainPc = "size" THEN event ELSE Parse(units)
    BY DEF RecvAll, UnitsRead
  <1>3. PICK q : q = UnitsRead(n)
    OBVIOUS
  <1>4. /\ q \in Seq(Units) /\ Len(q) = Len(received) + n /\ Len(q) <= Wanted
        /\ sent - (Len(toServer) - n) = Base + Len(q)
        /\ \A i \in 1 .. Len(q) : q[i] = UnitAt(Base + i - 1)
    <2>1. n \in 1 .. (Wanted - Len(received)) /\ n <= Len(toServer)
      BY <1>2
    <2> QED BY ONLY ServerInv, <1>1, <1>3, <2>1, RecvAllPlaces
  <1>5. UNCHANGED <<client, sent, toClient, reset, advertisedSet, listenSet>>
    BY DEF RecvAll
  <1>6. n \in 1 .. Len(toServer)
    BY <1>2, Numbers
  <1>7. toServer' \in Seq(Units) /\ Len(toServer') = Len(toServer) - n /\ StreamInv'
    BY <1>2, <1>5, <1>6, RecvAllStream
  <1>8. sent' - Len(toServer') = Base + Len(q)
    BY <1>4, <1>5, <1>7
  <1>9. CASE ~IsReceived(q)
    <2>1. received' = q /\ UNCHANGED <<mainPc, event>>
      BY <1>2, <1>3, <1>9
    <2>2. Base' = Base /\ Wanted' = Wanted
      BY <1>5, <2>1 DEF Base, Wanted
    <2>3. Len(q) < Wanted
      <3>1. Len(q) \in Nat /\ Len(q) # Wanted
        BY <1>4, <1>9 DEF IsReceived
      <3>2. Wanted \in Nat /\ Len(q) <= Wanted
        BY <1>4, Numbers
      <3> QED BY ONLY <3>1, <3>2
    <2>4. PlaceInv'
      BY <1>1, <1>4, <1>8, <2>1, <2>2, <2>3 DEF PlaceInv
    <2>5. ServerTypes' /\ SetsInv'
      BY <1>4, <1>5, <1>7, <2>1 DEF ServerInv, ServerTypes, SetsInv
    <2> QED BY <1>7, <2>4, <2>5 DEF ServerInv
  <1>10. CASE IsReceived(q)
    <2>1. /\ received' = <<>>
          /\ mainPc' = IF mainPc = "size" THEN "body" ELSE "advertised"
          /\ event' = IF mainPc = "size" THEN event ELSE Parse(q)
      BY <1>2, <1>3, <1>10
    <2>2. Len(q) = Wanted /\ received' \in Seq(Units) /\ Len(received') = 0
      BY <1>10, <2>1 DEF IsReceived
    <2>3. Base' = Base + Wanted
      <3>1. CASE mainPc = "size"
        BY <1>5, <2>1, <3>1, Numbers DEF Base, Wanted
      <3>2. CASE mainPc = "body"
        BY <1>5, <2>1, <3>2, Numbers, Sizes DEF Base, Wanted
      <3> QED BY <1>1, <3>1, <3>2
    <2>4. sent' - Len(toServer') = Base' + 0 /\ Base' \in Nat
      BY <1>8, <2>2, <2>3, Numbers
    <2>5. mainPc' = "body" => 0 < Wanted'
      BY Sizes DEF Wanted
    <2>6. PlaceInv'
      BY <1>1, <2>1, <2>2, <2>4, <2>5 DEF PlaceInv
    <2>7. ServerTypes'
      BY <1>5, <1>7, <2>1, <2>2 DEF ServerInv, ServerTypes
    <2>8. mainPc = "body" => Parse(q) = advertisedSet + 1
      <3> SUFFICES ASSUME mainPc = "body" PROVE Parse(q) = advertisedSet + 1
        OBVIOUS
      <3>0. advertisedSet \in Nat /\ Len(toServer') \in Nat /\ sent' \in Nat
        BY <1>5, <1>7 DEF ServerInv, ServerTypes
      <3>1. Base = advertisedSet * Size + HeaderSize /\ Len(q) = BodySize
        BY <2>2 DEF Base, Wanted
      <3>2. advertisedSet < MaxMessages
        <4>1. sent' <= MaxMessages * Size
          BY <1>7 DEF StreamInv
        <4>2. sent' >= advertisedSet * Size + Size
          BY <1>8, <3>0, <3>1, Numbers, Sizes
        <4>3. (advertisedSet + 1) * Size = advertisedSet * Size + Size
          BY <3>0, Sizes
        <4>4. (advertisedSet + 1) * Size <= MaxMessages * Size
          <5>1. MaxMessages * Size \in Nat
            BY Sizes
          <5> QED BY <3>0, <4>1, <4>2, <4>3, <5>1, Numbers, Sizes
        <4>5. advertisedSet + 1 <= MaxMessages
          BY <3>0, <4>4, Sizes, Cancel
        <4> QED BY <3>0, <4>5, Sizes
      <3>3. \A i \in 1 .. Len(q) : q[i] = UnitAt(advertisedSet * Size + HeaderSize + i - 1)
        BY <1>4, <3>1
      <3> QED BY <1>4, <3>0, <3>1, <3>2, <3>3, ParseBody
    <2>9. SetsInv'
      BY <1>1, <1>5, <2>1, <2>8 DEF ServerInv, SetsInv
    <2> QED BY <1>7, <2>6, <2>7, <2>9 DEF ServerInv
  <1> QED BY <1>9, <1>10

LEMMA StepWrite == ASSUME ServerInv, Write PROVE ServerInv'
  <1>0. /\ client = "connected" /\ mainPc # "ended" /\ sent < MaxMessages * Size
        /\ sent' = sent + 1 /\ toServer' = Append(toServer, UnitAt(sent))
        /\ UNCHANGED <<client, mainVars>>
    BY DEF Write, Runs, UnitAt
  <1> DEFINE k == Len(toServer)
  <1>1. k \in Nat /\ sent \in Nat /\ k <= sent /\ toServer \in Seq(Units)
    BY Numbers DEF ServerInv, ServerTypes, StreamInv
  <1>2. UnitAt(sent) \in Units
    BY <1>1 DEF Units
  <1>3. ASSUME NEW S, NEW s \in Seq(S), NEW x \in S
        PROVE  /\ Append(s, x) \in Seq(S) /\ Len(Append(s, x)) = Len(s) + 1
               /\ Append(s, x)[Len(s) + 1] = x
               /\ \A i \in 1 .. Len(s) : Append(s, x)[i] = s[i]
    OBVIOUS
  <1>4. /\ toServer' \in Seq(Units) /\ Len(toServer') = k + 1
        /\ toServer'[k + 1] = UnitAt(sent)
        /\ \A i \in 1 .. k : toServer'[i] = toServer[i]
    BY <1>0, <1>1, <1>2, <1>3
  <1>5. \A i \in 1 .. k : toServer[i] = UnitAt(sent - k + i - 1)
    BY DEF ServerInv, StreamInv
  <1> HIDE DEF k
  <1>6. ASSUME NEW i \in 1 .. k + 1 PROVE toServer'[i] = UnitAt(sent' - (k + 1) + i - 1)
    <2>1. CASE i \in 1 .. k
      <3>1. sent' - (k + 1) + i - 1 = sent - k + i - 1
        BY <1>0, <1>1
      <3> QED BY <1>4, <1>5, <2>1, <3>1
    <2>2. CASE i = k + 1
      <3>1. sent' - (k + 1) + i - 1 = sent
        BY <1>0, <1>1, <2>2
      <3> QED BY <1>4, <2>2, <3>1
    <2>3. i \in 1 .. k \/ i = k + 1
      BY <1>1
    <2> QED BY <2>1, <2>2, <2>3
  <1>7. sent' <= MaxMessages * Size /\ k + 1 <= sent'
    <2>1. MaxMessages * Size \in Nat
      BY Sizes
    <2> QED BY <1>0, <1>1, <2>1
  <1>8. StreamInv'
    BY <1>4, <1>6, <1>7 DEF StreamInv
  <1>9. ~Over /\ ~Over' /\ Base' = Base /\ Wanted' = Wanted
    BY <1>0 DEF Over, Base, Wanted, mainVars
  <1>10. sent' - Len(toServer') = sent - k
    BY <1>0, <1>1, <1>4
  <1>11. PlaceInv'
    BY <1>0, <1>9, <1>10 DEF ServerInv, PlaceInv, mainVars, k
  <1>12. ServerTypes' /\ SetsInv'
    BY <1>0, <1>1, <1>4 DEF ServerInv, ServerTypes, SetsInv, mainVars
  <1> QED BY <1>8, <1>11, <1>12 DEF ServerInv

\* The steps that leave the stream as it is.
LEMMA StreamKept ==
    ASSUME ServerInv, UNCHANGED <<sent, toServer>> PROVE StreamInv'
  BY DEF ServerInv, StreamInv

LEMMA StepRecvFails == ASSUME ServerInv, RecvFails PROVE ServerInv'
  <1>1. Over'
    BY DEF RecvFails, Over
  <1>2. UNCHANGED <<client, sent, toServer, event, advertisedSet, listenSet>>
    BY DEF RecvFails
  <1>3. mainPc \in {"size", "body"} /\ mainPc' \in {"size", "body", "ended"}
    BY DEF RecvFails, End
  <1>4. received' \in Seq(Units)
    <2>1. CASE received # <<>> /\ received' = SubSeq(received, 1, Len(received) - 1)
      <3>1. ASSUME NEW S, NEW s \in Seq(S), s # <<>>
            PROVE  SubSeq(s, 1, Len(s) - 1) \in Seq(S)
        OBVIOUS
      <3> QED BY <2>1, <3>1 DEF ServerInv, ServerTypes
    <2>2. CASE UNCHANGED received
      BY <2>2 DEF ServerInv, ServerTypes
    <2> QED BY <2>1, <2>2 DEF RecvFails
  <1>5. ServerTypes'
    BY <1>2, <1>3, <1>4 DEF ServerInv, ServerTypes
  <1>6. PlaceInv' /\ SetsInv'
    BY <1>1, <1>2, <1>3 DEF ServerInv, PlaceInv, SetsInv
  <1> QED BY <1>2, <1>5, <1>6, StreamKept DEF ServerInv

LEMMA StepSets ==
    ASSUME ServerInv, SetAdvertisedSet \/ SetListenSet PROVE ServerInv'
  <1>1. UNCHANGED <<client, sent, toServer, received>>
    BY DEF SetAdvertisedSet, SetListenSet, clientVars
  <1>2. CASE SetAdvertisedSet
    <2>1. /\ mainPc = "advertised" /\ mainPc' = "listen" /\ event' = event
          /\ advertisedSet' = event /\ listenSet' = listenSet
      BY <1>2 DEF SetAdvertisedSet
    <2>2. advertisedSet' = advertisedSet + 1 /\ advertisedSet \in Nat
      BY <2>1 DEF ServerInv, SetsInv, ServerTypes
    <2>3. Base' = Base
      <3>1. (advertisedSet + 1) * Size = advertisedSet * Size + Size
        BY <2>2, Sizes
      <3> QED BY <2>1, <2>2, <3>1 DEF Base
    <2>4. PlaceInv'
      BY <1>1, <2>1, <2>3 DEF ServerInv, PlaceInv, Over
    <2>5. ServerTypes' /\ SetsInv'
      BY <1>1, <2>1, <2>2 DEF ServerInv, ServerTypes, SetsInv
    <2> QED BY <1>1, <2>4, <2>5, StreamKept DEF ServerInv
  <1>3. CASE SetListenSet
    <2>1. /\ mainPc = "listen" /\ mainPc' = "size" /\ event' = event
          /\ advertisedSet' = advertisedSet /\ listenSet' = event
      BY <1>3 DEF SetListenSet
    <2>2. Base' = Base /\ 0 < Wanted'
      BY <2>1, Sizes DEF Base, Wanted
    <2>3. PlaceInv'
      BY <1>1, <2>1, <2>2 DEF ServerInv, PlaceInv, Over
    <2>4. ServerTypes' /\ SetsInv'
      BY <1>1, <2>1 DEF ServerInv, ServerTypes, SetsInv
    <2> QED BY <1>1, <2>3, <2>4, StreamKept DEF ServerInv
  <1> QED BY <1>2, <1>3

\* The steps of the application and the controller that touch neither the
\* stream nor the main thread, except that they may end everything.
LEMMA MainKept ==
    ASSUME ServerInv, UNCHANGED <<sent, toServer, received, event, advertisedSet, listenSet>>,
           mainPc' \in {mainPc, "ended"}, client' \in {client, "gone"},
           mainPc = "accept" => client' = client
    PROVE  ServerInv'
  <1>1. Over => Over'
    BY DEF Over
  <1>2. mainPc' = mainPc => Base' = Base /\ Wanted' = Wanted
    BY DEF Base, Wanted
  <1>3. PlaceInv'
    BY <1>1, <1>2 DEF ServerInv, PlaceInv
  <1>4. ServerTypes' /\ SetsInv'
    BY DEF ServerInv, ServerTypes, SetsInv
  <1> QED BY <1>3, <1>4, StreamKept DEF ServerInv

LEMMA StepServerInv == ASSUME ServerInv, [Next]_vars PROVE ServerInv'
  <1>1. CASE ReadEvent
    BY <1>1, MainKept DEF ReadEvent, mainVars
  <1>2. CASE Leave
    <2>1. mainPc # "accept"
      BY <1>2 DEF Leave, ServerInv, ServerTypes
    <2> QED BY <1>2, <2>1, MainKept DEF Leave, mainVars
  <1>3. CASE AcceptClient
    <2>1. /\ mainPc = "accept" /\ mainPc' = "size" /\ client' = "connected"
          /\ UNCHANGED <<sent, toServer, received, event, advertisedSet, listenSet>>
      BY <1>3 DEF AcceptClient
    <2>2. ~Over /\ Base' = Base /\ 0 < Wanted'
      BY <2>1, Sizes DEF Over, Base, Wanted, ServerInv, ServerTypes
    <2>3. PlaceInv'
      BY <2>1, <2>2 DEF ServerInv, PlaceInv
    <2>4. ServerTypes' /\ SetsInv'
      BY <2>1 DEF ServerInv, ServerTypes, SetsInv
    <2> QED BY <2>1, <2>3, <2>4, StreamKept DEF ServerInv
  <1>4. CASE Fill \/ Filled \/ WakeUp
    BY <1>4, MainKept DEF Fill, Filled, WakeUp, clientVars, mainVars
  <1>5. CASE RadioFails
    BY <1>5, MainKept DEF RadioFails, End, clientVars
  <1>6. ASSUME NEW next, SendAll(next) PROVE ServerInv'
    BY <1>6, MainKept DEF SendAll, End, clientVars, mainVars
  <1>7. CASE NotifyEncounter
    BY <1>6, <1>7 DEF NotifyEncounter
  <1>8. CASE RequestSleep
    <2>1. CASE SendAll("asleep")
      BY <1>6, <2>1
    <2>2. CASE UNCHANGED <<clientVars, mainVars>>
      BY <2>2, MainKept DEF clientVars, mainVars
    <2> QED BY <1>8, <2>1, <2>2 DEF RequestSleep
  <1>9. CASE UNCHANGED vars
    BY <1>9, MainKept DEF vars, clientVars, mainVars
  <1> QED BY <1>1, <1>2, <1>3, <1>4, <1>5, <1>7, <1>8, <1>9, StepWrite, StepRecvAll,
             StepRecvFails, StepSets
          DEF Next, Controller

\* The server installs the sets of the application's messages in their order,
\* each message's advertised set first, however recv cuts the stream and whenever
\* the connection ends.
THEOREM SetsFollow == Spec => SetsFollowMessages
  <1>1. ASSUME ServerInv, [Next]_vars
        PROVE  [/\ advertisedSet' # advertisedSet =>
                      advertisedSet' = advertisedSet + 1 /\ listenSet = advertisedSet
                /\ listenSet' # listenSet => listenSet' = advertisedSet]_vars
    <2>1. CASE SetAdvertisedSet
      BY <1>1, <2>1 DEF SetAdvertisedSet, ServerInv, SetsInv
    <2>2. CASE SetListenSet
      BY <1>1, <2>2 DEF SetListenSet, ServerInv, SetsInv
    <2>3. CASE \/ Write \/ ReadEvent \/ Leave \/ AcceptClient \/ RecvAll \/ RecvFails
               \/ Controller \/ UNCHANGED vars
      <3>1. UNCHANGED <<advertisedSet, listenSet>>
        BY <2>3 DEF Write, ReadEvent, Leave, AcceptClient, RecvAll, RecvFails, Controller, Fill,
                    Filled, RadioFails, NotifyEncounter, RequestSleep, WakeUp, SendAll, End,
                    mainVars, vars
      <3> QED BY <3>1
    <2> QED BY <1>1, <2>1, <2>2, <2>3 DEF Next
  <1> QED BY <1>1, InitServerInv, StepServerInv, PTL DEF Spec, SetsFollowMessages
=============================================================================
