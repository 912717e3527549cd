-------------------------- MODULE BT2Epochs_proofs --------------------------
(***************************************************************************)
(* What holds of an EbNRadioBT2 and its adapter for any number of epochs,  *)
(* whatever fails and however often a reset is tried again, and whatever   *)
(* the rounds draw within the times the code's constants leave room for.   *)
(***************************************************************************)
EXTENDS BT2Epochs, TLAPS

(***************************************************************************)
(* The commands that are left at each step of initialize, changeEpoch and  *)
(* changeAdvert.                                                           *)
(***************************************************************************)
I0 == <<"hide", "address", "advert", "mode", "show", "connect">>
I1 == <<"address", "advert", "mode", "show", "connect">>
I2 == <<"advert", "mode", "show", "connect">>
I3 == <<"mode", "show", "connect">>
I4 == <<"show", "connect">>
I5 == <<"connect">>
E0 == <<"address", "hide", "advert", "mode", "show">>
E1 == <<"hide", "advert", "mode", "show">>
E2 == <<"advert", "mode", "show">>
E3 == <<"mode", "show">>
E4 == <<"show">>
D0 == <<"advert">>

\* Those with a certain command still to come.
BeforeAddress == {I0, I1, E0}
BeforeAdvert  == BeforeAddress \cup {I2, E1, E2}
BeforeMode    == BeforeAdvert \cup {I3, E3}
BeforeShow    == BeforeMode \cup {I4, E4}
BeforeConnect == {I0, I1, I2, I3, I4, I5}

Resetting == enablePc \in EnableSteps

(***************************************************************************)
(* What the sender has done.                                               *)
(***************************************************************************)
CommandsInv ==
    /\ commands \in BeforeShow \cup {I5, D0, <<>>}
    /\ Resetting => commands \in {I2, E1}
    /\ commands \in BeforeAdvert => advertNum = 0
    /\ commands \notin BeforeConnect => lastKnownState.connectable

(***************************************************************************)
(* What it has of it, when no reset is under way.                          *)
(***************************************************************************)
CarriedOutInv ==
    enablePc = "idle" =>
        /\ adapter.on = Parts
        /\ commands \notin BeforeAddress => adapter.address = key
        /\ commands \notin BeforeAdvert => adapter.eir = [num |-> advertNum - 1, key |-> key]
        /\ commands \notin BeforeMode => adapter.mode = "WithRSSIAndEIR"
        /\ commands \notin BeforeShow => lastKnownState.discoverable /\ adapter.discoverable
        /\ commands \notin BeforeShow \cup BeforeConnect => adapter.connectable

(***************************************************************************)
(* How far a reset is: a part that has been started stays on until an      *)
(* attempt fails, and the payload is gone since the power was off.         *)
(***************************************************************************)
ResetInv ==
    /\ Resetting /\ enablePc # "disable" => addressFile = key /\ adapter.eir = Unset
    /\ enablePc \in {"hciattach", "up", "bluetoothd", "check"} => "powered" \in adapter.on
    /\ enablePc \in {"up", "bluetoothd", "check"} => "hciattach" \in adapter.on
    /\ enablePc \in {"bluetoothd", "check"} => "up" \in adapter.on /\ adapter.address = key
    /\ enablePc = "check" => adapter.on = Parts

\* Address and payload are of one key, at every moment there is a payload.
OneKeyInv == adapter.eir # Unset => adapter.eir.key = adapter.address

KeysInv ==
    /\ key # 0 /\ keyDue >= 1 + key * EpochInterval
    /\ now > 1 => now <= MaxTime

BT2Inv ==
    /\ BT2TypeOK /\ CommandsInv /\ CarriedOutInv /\ ResetInv /\ OneKeyInv /\ KeysInv
    /\ SecretsHaveTheirY

-----------------------------------------------------------------------------
(***************************************************************************)
(* The constants, and the epochs that fit into MaxTime.                    *)
(***************************************************************************)
LEMMA Sizes ==
    /\ AdvN \in Nat /\ AdvN > 0 /\ EpochInterval \in Nat \ {0}
    /\ FirstDiscover \in Nat /\ InquiryTime \in Nat /\ MaxTime \in Nat
    /\ SendJitter \cup ScanJitter \cup Offsets \subseteq Nat \ {0}
    /\ PublicAddress \subseteq Nat \ {0}
  <1>1. /\ {AdvN, Slack, EpochInterval, FirstDiscover, InquiryTime, MaxTime} \subseteq Nat
        /\ Slack < AdvN /\ EpochInterval > 0
    BY BT2EpochsAssumption
  <1>2. /\ SendJitter \cup ScanJitter \cup Offsets \subseteq Nat \ {0}
        /\ PublicAddress \subseteq Nat \ {0}
    BY BT2EpochsAssumption
  <1>3. AdvN > 0 /\ EpochInterval \in Nat \ {0}
    BY <1>1
  <1> QED BY <1>1, <1>2, <1>3

LEMMA Payloads ==
    /\ Payload = [num : AdvertNum, key : PublicAddress]
    /\ Unset \notin PublicAddress \cup Payload
  BY AdapterAssumption, BT2EpochsAssumption

LEMMA DivBound ==
    ASSUME NEW a \in Nat, NEW s \in Nat \ {0}, NEW m \in Nat, a * s <= m
    PROVE  m \div s \in Nat /\ a <= m \div s
  BY Z3

LEMMA OneMore ==
    ASSUME NEW a \in Nat, NEW s \in Nat \ {0}
    PROVE  /\ (a + 1) * s = a * s + s /\ a * s \in Nat
           /\ a # 0 => a * s > 0
  BY Z3

\* There is an address for every epoch that begins in time.
LEMMA NextKey ==
    ASSUME NEW k \in Nat, k # 0, NEW due \in Nat, due >= 1 + k * EpochInterval,
           now \in Nat, now = due, now > 1 => now <= MaxTime
    PROVE  k + 1 \in PublicAddress
  <1>1. k * EpochInterval \in Nat /\ k * EpochInterval > 0
    BY Sizes, OneMore
  <1>2. k * EpochInterval <= MaxTime
    BY <1>1, Sizes
  <1>3. k <= MaxTime \div EpochInterval /\ MaxTime \div EpochInterval \in Nat
    BY <1>2, Sizes, DivBound
  <1>4. k + 1 \in 1 .. (MaxTime \div EpochInterval + 1)
    BY <1>3
  <1> QED BY <1>4, BT2EpochsAssumption

LEMMA FirstKey ==
    1 \in PublicAddress
  <1>1. 0 * EpochInterval <= MaxTime /\ MaxTime \in Nat /\ EpochInterval \in Nat \ {0}
    BY Sizes
  <1>2. MaxTime \div EpochInterval \in Nat
    BY <1>1, DivBound
  <1>3. 1 \in 1 .. (MaxTime \div EpochInterval + 1)
    BY <1>2
  <1> QED BY <1>3, BT2EpochsAssumption

-----------------------------------------------------------------------------
(***************************************************************************)
(* The lists of commands.                                                  *)
(***************************************************************************)
CommandName == {"hide", "address", "advert", "mode", "show", "connect"}

LEMMA ListTypes ==
    /\ BeforeShow \cup {I5, D0, <<>>} \subseteq Seq(CommandName)
    /\ InitializeCommands = I0 /\ ChangeEpochCommands = E0
  BY DEF BeforeShow, BeforeMode, BeforeAdvert, BeforeAddress, CommandName,
         I0, I1, I2, I3, I4, I5, E0, E1, E2, E3, E4, D0, InitializeCommands, ChangeEpochCommands

\* The lists differ: by what is first, and by how long they are.
LEMMA ListShapes ==
    /\ Head(I0) = "hide" /\ Tail(I0) = I1 /\ Len(I0) = 6
    /\ Head(I1) = "address" /\ Tail(I1) = I2 /\ Len(I1) = 5
    /\ Head(I2) = "advert" /\ Tail(I2) = I3 /\ Len(I2) = 4
    /\ Head(I3) = "mode" /\ Tail(I3) = I4 /\ Len(I3) = 3
    /\ Head(I4) = "show" /\ Tail(I4) = I5 /\ Len(I4) = 2
    /\ Head(I5) = "connect" /\ Tail(I5) = <<>> /\ Len(I5) = 1
    /\ Head(E0) = "address" /\ Tail(E0) = E1 /\ Len(E0) = 5 /\ E0[2] = "hide" /\ I1[2] = "advert"
    /\ Head(E1) = "hide" /\ Tail(E1) = E2 /\ Len(E1) = 4
    /\ Head(E2) = "advert" /\ Tail(E2) = E3 /\ Len(E2) = 3
    /\ Head(E3) = "mode" /\ Tail(E3) = E4 /\ Len(E3) = 2
    /\ Head(E4) = "show" /\ Tail(E4) = <<>> /\ Len(E4) = 1
    /\ Head(D0) = "advert" /\ Tail(D0) = <<>> /\ Len(D0) = 1
    /\ Len(<<>>) = 0
  BY DEF I0, I1, I2, I3, I4, I5, E0, E1, E2, E3, E4, D0

\* What is before what.
LEMMA ListOrder ==
    /\ {I0, I1, E0} \cap {I2, I3, I4, I5, E1, E2, E3, E4, D0, <<>>} = {}
    /\ {I2, E1, E2} \cap {I3, I4, I5, E3, E4, D0, <<>>} = {}
    /\ {I3, E3} \cap {I4, I5, E4, D0, <<>>} = {}
    /\ {I4, E4} \cap {I5, D0, <<>>} = {}
    /\ {I0, I1, I2, I3, I4, I5} \cap {E0, E1, E2, E3, E4, D0, <<>>} = {}
    /\ I0 # <<>> /\ D0 # <<>> /\ E0 # <<>>
  <1>1. {I0, I1, E0} \cap {I2, I3, I4, I5, E1, E2, E3, E4, D0, <<>>} = {}
    BY ListShapes
  <1>2. {I2, E1, E2} \cap {I3, I4, I5, E3, E4, D0, <<>>} = {}
    BY ListShapes
  <1>3. {I3, E3} \cap {I4, I5, E4, D0, <<>>} = {}
    BY ListShapes
  <1>4. {I4, E4} \cap {I5, D0, <<>>} = {}
    BY ListShapes
  <1>5. {I0, I1, I2, I3, I4, I5} \cap {E0, E1, E2, E3, E4, D0, <<>>} = {}
    BY ListShapes
  <1>6. I0 # <<>> /\ D0 # <<>> /\ E0 # <<>>
    BY DEF I0, D0, E0
  <1> QED BY ONLY <1>1, <1>2, <1>3, <1>4, <1>5, <1>6

\* What is left when a command is done.
LEMMA AfterCommand ==
    ASSUME NEW list \in BeforeShow \cup {I5, D0, <<>>}, list # <<>>, NEW left, left = Tail(list)
    PROVE  /\ Head(list) = "hide" =>
                \/ (list = I0 /\ left = I1) \/ (list = E1 /\ left = E2)
           /\ Head(list) = "address" =>
                \/ (list = I1 /\ left = I2) \/ (list = E0 /\ left = E1)
           /\ Head(list) = "advert" =>
                \/ (list = I2 /\ left = I3) \/ (list = E2 /\ left = E3)
                \/ (list = D0 /\ left = <<>>)
           /\ Head(list) = "mode" =>
                \/ (list = I3 /\ left = I4) \/ (list = E3 /\ left = E4)
           /\ Head(list) = "show" =>
                \/ (list = I4 /\ left = I5) \/ (list = E4 /\ left = <<>>)
           /\ Head(list) = "connect" => list = I5 /\ left = <<>>
  <1>1. list \in {I0, I1, E0, I2, E1, E2, I3, E3, I4, E4, I5, D0}
    BY DEF BeforeShow, BeforeMode, BeforeAdvert, BeforeAddress
  <1> QED BY <1>1, ListShapes

-----------------------------------------------------------------------------
(***************************************************************************)
(* The adapter.                                                            *)
(***************************************************************************)
LEMMA WithoutKeeps ==
    ASSUME adapter \in Adapter, NEW parts \in SUBSET Parts, NEW a, a = Without(parts)
    PROVE  /\ a \in Adapter /\ a.address = adapter.address
           /\ a.eir = adapter.eir \/ a.eir = Unset
           /\ "powered" \in parts => a.eir = Unset
           /\ adapter.eir = Unset => a.eir = Unset
  <1>1. PICK left, on :
          /\ left = adapter.on \ parts
          /\ on = IF {"powered", "hciattach"} \subseteq left THEN left ELSE left \ {"up"}
    OBVIOUS
  <1>2. on \in SUBSET Parts /\ ("powered" \in parts => "up" \notin on)
    BY <1>1 DEF Adapter
  <1>3. a = IF "up" \in on THEN [adapter EXCEPT !.on = on]
            ELSE [adapter EXCEPT !.on = on, !.eir = Unset, !.mode = "Standard",
                                 !.discoverable = FALSE, !.connectable = FALSE]
    BY <1>1 DEF Without
  <1>4. CASE "up" \in on
    <2>1. a = [adapter EXCEPT !.on = on]
      BY <1>3, <1>4
    <2>2. a \in Adapter /\ a.address = adapter.address /\ a.eir = adapter.eir
      BY <1>2, <2>1 DEF Adapter
    <2> QED BY <1>2, <1>4, <2>2
  <1>5. CASE "up" \notin on
    <2>1. a = [adapter EXCEPT !.on = on, !.eir = Unset, !.mode = "Standard",
                              !.discoverable = FALSE, !.connectable = FALSE]
      BY <1>3, <1>5
    <2>2. a \in Adapter /\ a.address = adapter.address /\ a.eir = Unset
      BY <1>2, <2>1 DEF Adapter
    <2> QED BY <2>2
  <1> QED BY <1>4, <1>5

LEMMA WithKeeps ==
    ASSUME adapter \in Adapter, NEW part \in Parts, NEW a, a = With(part)
    PROVE  /\ a \in Adapter /\ a.address = adapter.address /\ a.eir = adapter.eir
           /\ a.on = adapter.on \cup {part}
  BY DEF With, Adapter

(***************************************************************************)
(* The steps of a reset.                                                   *)
(***************************************************************************)
\* Giving up or starting again: what is left of the adapter matters no more.
LEMMA LessKeeps ==
    ASSUME adapter \in Adapter, OneKeyInv,
           \/ adapter' = adapter
           \/ \E parts \in SUBSET Parts : adapter' = Without(parts)
    PROVE  /\ adapter' \in Adapter /\ OneKeyInv'
           /\ adapter.eir = Unset => adapter'.eir = Unset
  <1>1. CASE adapter' = adapter
    BY <1>1 DEF OneKeyInv
  <1>2. ASSUME NEW parts \in SUBSET Parts, adapter' = Without(parts)
        PROVE  /\ adapter' \in Adapter /\ OneKeyInv'
               /\ adapter.eir = Unset => adapter'.eir = Unset
    <2>1. PICK a : a = Without(parts)
      OBVIOUS
    <2>2. /\ a \in Adapter /\ a.address = adapter.address
          /\ a.eir = adapter.eir \/ a.eir = Unset
          /\ adapter.eir = Unset => a.eir = Unset
      BY <2>1, WithoutKeeps
    <2> QED BY <1>2, <2>1, <2>2 DEF OneKeyInv
  <1> QED BY <1>1, <1>2

LEMMA PowerOffKeeps ==
    ASSUME adapter \in Adapter, BtDisable
    PROVE  adapter' \in Adapter /\ OneKeyInv' /\ adapter'.eir = Unset
  <1>1. PICK parts, a :
          /\ parts = {"bluetoothd", "hciattach", "powered"} /\ a = Without(parts)
          /\ parts \in SUBSET Parts
    BY DEF Parts
  <1>2. a \in Adapter /\ a.eir = Unset
    BY <1>1, WithoutKeeps
  <1>3. adapter' = a
    BY <1>1 DEF BtDisable
  <1> QED BY <1>2, <1>3 DEF OneKeyInv

LEMMA ResetAdapter ==
    ASSUME BT2Inv, Disable(key) \/ BtEnable
    PROVE  /\ Resetting /\ UNCHANGED lastKnownState
           /\ adapter' \in Adapter /\ addressFile' \in PublicAddress \cup {Unset}
           /\ enablePc' \in EnableSteps \cup {"idle", "crashed"}
           /\ OneKeyInv'
           /\ Resetting' => enablePc' # "disable" /\ addressFile' = key /\ adapter'.eir = Unset
           /\ enablePc' \in {"hciattach", "up", "bluetoothd", "check"} => "powered" \in adapter'.on
           /\ enablePc' \in {"up", "bluetoothd", "check"} => "hciattach" \in adapter'.on
           /\ enablePc' \in {"bluetoothd", "check"} => "up" \in adapter'.on /\ adapter'.address = key
           /\ enablePc' = "check" => adapter'.on = Parts
           /\ enablePc' = "idle" => adapter'.on = Parts /\ adapter'.address = key
  <1> USE DEF BT2Inv, BT2TypeOK, AdapterTypeOK, ResetInv, Resetting, EnableSteps
  <1>1. CASE Disable(key)
    <2>1. CASE BtDisable /\ addressFile' = key /\ enablePc' = "power"
      BY <1>1, <2>1, PowerOffKeeps DEF Disable
    <2>2. CASE BtDisableThrows /\ UNCHANGED addressFile
      <3>1. \/ adapter' = adapter
            \/ \E parts \in SUBSET Parts : adapter' = Without(parts)
        BY <2>2 DEF BtDisableThrows, Parts
      <3>2. enablePc' = "crashed"
        BY <2>2 DEF BtDisableThrows
      <3> QED BY <1>1, <2>2, <3>1, <3>2, LessKeeps DEF Disable
    <2> QED BY <1>1, <2>1, <2>2 DEF Disable
  <1>2. CASE Catch
    <2>1. CASE BtDisable /\ enablePc' = "power"
      BY <1>2, <2>1, PowerOffKeeps DEF Catch
    <2>2. CASE BtDisableThrows
      <3>1. \/ adapter' = adapter
            \/ \E parts \in SUBSET Parts : adapter' = Without(parts)
        BY <2>2 DEF BtDisableThrows, Parts
      <3>2. enablePc' = "crashed"
        BY <2>2 DEF BtDisableThrows
      <3> QED BY <1>2, <2>2, <3>1, <3>2, LessKeeps DEF Catch
    <2> QED BY <1>2, <2>1, <2>2 DEF Catch
  <1>3. ASSUME enablePc \in {"power", "hciattach", "up", "bluetoothd", "check"},
               UNCHANGED <<addressFile, lastKnownState>>, enablePc' = "catch",
               \/ adapter' = adapter
               \/ \E parts \in SUBSET Parts : adapter' = Without(parts)
        PROVE  /\ adapter' \in Adapter /\ OneKeyInv' /\ addressFile' = key
               /\ adapter'.eir = Unset /\ addressFile' \in PublicAddress \cup {Unset}
    BY <1>3, LessKeeps
  <1>4. CASE PowerOn
    <2>1. CASE adapter' = With("powered") /\ enablePc' = "hciattach"
      <3>1. PICK a : a = With("powered")
        OBVIOUS
      <3>2. /\ a \in Adapter /\ a.eir = adapter.eir /\ a.on = adapter.on \cup {"powered"}
        BY <3>1, WithKeeps DEF Parts
      <3> QED BY <1>4, <2>1, <3>1, <3>2 DEF PowerOn, OneKeyInv
    <2>2. CASE Throws({adapter})
      BY <1>3, <1>4, <2>2 DEF PowerOn, Throws
    <2> QED BY <1>4, <2>1, <2>2 DEF PowerOn
  <1>5. CASE StartHCIAttach
    <2>1. CASE adapter' = With("hciattach") /\ enablePc' = "up"
      <3>1. PICK a : a = With("hciattach")
        OBVIOUS
      <3>2. /\ a \in Adapter /\ a.eir = adapter.eir /\ a.on = adapter.on \cup {"hciattach"}
        BY <3>1, WithKeeps DEF Parts
      <3> QED BY <1>5, <2>1, <3>1, <3>2 DEF StartHCIAttach, OneKeyInv
    <2>2. CASE Throws({adapter, Without({"powered"})})
      BY <1>3, <1>5, <2>2 DEF StartHCIAttach, Throws, Parts
    <2> QED BY <1>5, <2>1, <2>2 DEF StartHCIAttach
  <1>6. CASE IoctlUp
    <2>1. CASE adapter' = [With("up") EXCEPT !.address = addressFile] /\ enablePc' = "bluetoothd"
      <3>1. PICK a, next : a = With("up") /\ next = [a EXCEPT !.address = addressFile]
        OBVIOUS
      <3>2. /\ a \in Adapter /\ a.eir = adapter.eir /\ a.on = adapter.on \cup {"up"}
        BY <3>1, WithKeeps DEF Parts
      <3>3. /\ next \in Adapter /\ next.eir = adapter.eir /\ next.on = adapter.on \cup {"up"}
            /\ next.address = addressFile
        BY <3>1, <3>2 DEF Adapter
      <3> QED BY <1>6, <2>1, <3>1, <3>3 DEF IoctlUp, OneKeyInv
    <2>2. CASE Throws(Undone)
      BY <1>3, <1>6, <2>2 DEF IoctlUp, Throws, Undone, Parts
    <2> QED BY <1>6, <2>1, <2>2 DEF IoctlUp
  <1>7. CASE StartBluetoothd
    <2>1. ASSUME NEW d \in BOOLEAN, NEW c \in BOOLEAN, enablePc' = "check",
                 adapter' = [With("bluetoothd") EXCEPT !.discoverable = d, !.connectable = c]
          PROVE  /\ adapter' \in Adapter /\ adapter'.eir = Unset /\ adapter'.on = Parts
                 /\ adapter'.address = key /\ OneKeyInv'
      <3>1. PICK a, next :
              a = With("bluetoothd") /\ next = [a EXCEPT !.discoverable = d, !.connectable = c]
        OBVIOUS
      <3>2. /\ a \in Adapter /\ a.eir = adapter.eir /\ a.address = adapter.address
            /\ a.on = adapter.on \cup {"bluetoothd"}
        BY <3>1, WithKeeps DEF Parts
      <3>3. /\ next \in Adapter /\ next.eir = adapter.eir /\ next.address = adapter.address
            /\ next.on = adapter.on \cup {"bluetoothd"}
        BY <3>1, <3>2 DEF Adapter
      <3>4. {"powered", "hciattach", "up"} \subseteq adapter.on
        BY <1>7 DEF StartBluetoothd
      <3>5. adapter.on \cup {"bluetoothd"} = Parts
        BY <3>4 DEF Adapter, Parts
      <3> QED BY <1>7, <2>1, <3>1, <3>3, <3>5 DEF StartBluetoothd, OneKeyInv
    <2>2. CASE \E d, c \in BOOLEAN : /\ enablePc' = "check"
                 /\ adapter' = [With("bluetoothd") EXCEPT !.discoverable = d, !.connectable = c]
      BY <1>7, <2>1, <2>2 DEF StartBluetoothd, Parts
    <2>3. CASE Throws(Undone)
      BY <1>3, <1>7, <2>3 DEF StartBluetoothd, Throws, Undone, Parts
    <2> QED BY <1>7, <2>2, <2>3 DEF StartBluetoothd
  <1>8. CASE BtIsEnabled
    <2>1. CASE UNCHANGED adapter /\ enablePc' = "idle"
      BY <1>8, <2>1 DEF BtIsEnabled, OneKeyInv
    <2>2. CASE Throws({adapter, Without({"up"}), Without({"powered"})})
      BY <1>3, <1>8, <2>2 DEF BtIsEnabled, Throws, Parts
    <2> QED BY <1>8, <2>1, <2>2 DEF BtIsEnabled
  <1> QED BY <1>1, <1>2, <1>4, <1>5, <1>6, <1>7, <1>8 DEF BtEnable

LEMMA ResetSteps ==
    ASSUME BT2Inv, SetPublicAddress
    PROVE  BT2Inv'
  <1>1. Disable(key) \/ BtEnable
    BY DEF SetPublicAddress
  <1>2. UNCHANGED <<now, senderVars, receiverVars, deviceVars>>
    BY DEF SetPublicAddress
  <1>3. commands \in {I2, E1}
    BY <1>1, ResetAdapter DEF BT2Inv, CommandsInv
  <1>4. /\ commands \notin BeforeAddress
        /\ commands \in BeforeAdvert /\ commands \in BeforeMode /\ commands \in BeforeShow
    BY <1>3, ListOrder DEF BeforeShow, BeforeMode, BeforeAdvert, BeforeAddress
  <1>5. BT2TypeOK'
    BY <1>1, <1>2, ResetAdapter
       DEF BT2Inv, BT2TypeOK, AdapterTypeOK, senderVars, receiverVars, deviceVars
  <1>6. CommandsInv'
    BY <1>1, <1>2, <1>3, <1>4, ResetAdapter DEF BT2Inv, CommandsInv, senderVars
  <1>7. CarriedOutInv'
    BY <1>1, <1>2, <1>4, ResetAdapter DEF CarriedOutInv, senderVars
  <1>8. ResetInv' /\ OneKeyInv'
    BY <1>1, <1>2, ResetAdapter DEF ResetInv, senderVars
  <1>9. KeysInv' /\ SecretsHaveTheirY'
    BY <1>2 DEF BT2Inv, KeysInv, SecretsHaveTheirY, senderVars, deviceVars
  <1> QED BY <1>5, <1>6, <1>7, <1>8, <1>9 DEF BT2Inv

-----------------------------------------------------------------------------
(***************************************************************************)
(* The sender's steps.                                                     *)
(***************************************************************************)
LEMMA InitBT2Inv ==
    ASSUME BT2Init
    PROVE  BT2Inv
  <1> USE DEF BT2Init, AdapterInit
  <1>1. commands = I0 /\ I0 \in BeforeAddress /\ I0 \in BeforeConnect
    BY ListTypes DEF BeforeAddress, BeforeConnect
  <1>2. I0 \in BeforeAdvert /\ I0 \in BeforeMode /\ I0 \in BeforeShow
    BY <1>1 DEF BeforeShow, BeforeMode, BeforeAdvert
  <1>3. PICK d \in BOOLEAN, c \in BOOLEAN :
          /\ adapter = [on |-> Parts, address |-> Unset, eir |-> Unset, mode |-> "Standard",
                        discoverable |-> d, connectable |-> c]
          /\ lastKnownState = [discoverable |-> d, connectable |-> c]
    OBVIOUS
  <1>4. AdapterTypeOK
    BY <1>3 DEF AdapterTypeOK, Adapter
  <1>5. /\ {now, sendDue, keyDue, scanDue, ownKey, ownKeyDue, lastTime, lastKey} \subseteq Nat
        /\ key \in PublicAddress /\ advertNum \in 0 .. AdvN
    BY Sizes, FirstKey
  <1>6. commands \in Seq(CommandName)
    BY <1>1, <1>2, ListTypes
  <1>7. epochs \in Seq(DeviceEpoch) /\ Len(epochs) <= 1 /\ secrets \subseteq Secret
    OBVIOUS
  <1>8. BT2TypeOK
    BY <1>4, <1>5, <1>6, <1>7 DEF BT2TypeOK, CommandName
  <1>9. CommandsInv
    BY <1>1, <1>2 DEF CommandsInv, Resetting, EnableSteps
  <1>10. CarriedOutInv
    BY <1>1, <1>2, <1>3 DEF CarriedOutInv
  <1>11. ResetInv /\ OneKeyInv
    BY <1>3 DEF ResetInv, OneKeyInv, Resetting, EnableSteps
  <1>12. KeysInv /\ SecretsHaveTheirY
    BY Sizes, OneMore DEF KeysInv, SecretsHaveTheirY
  <1> QED BY <1>8, <1>9, <1>10, <1>11, <1>12 DEF BT2Inv

LEMMA SenderChangesEpochKeeps ==
    ASSUME BT2Inv, SenderChangesEpoch
    PROVE  BT2Inv'
  <1> USE DEF BT2Inv, SenderChangesEpoch, SenderIdle, receiverVars, deviceVars, adapterVars
  <1>1. commands' = E0 /\ commands = <<>> /\ E0 \in BeforeAddress
    BY ListTypes DEF BeforeAddress
  <1>2. /\ E0 \in BeforeAdvert /\ E0 \in BeforeMode /\ E0 \in BeforeShow
    BY <1>1 DEF BeforeShow, BeforeMode, BeforeAdvert
  <1>3. <<>> \notin BeforeConnect
    BY ListOrder DEF BeforeConnect
  <1>4. key + 1 \in PublicAddress /\ key \in Nat /\ keyDue \in Nat
    BY NextKey, Sizes DEF BT2TypeOK, KeysInv
  <1>5. E0 \in Seq(CommandName)
    BY <1>2, ListTypes
  <1>6. BT2TypeOK'
    <2>1. commands' \in Seq({"hide", "address", "advert", "mode", "show", "connect"})
      BY <1>1, <1>5 DEF CommandName
    <2>2. /\ {now, sendDue, keyDue, scanDue, ownKey, ownKeyDue, lastTime, lastKey}' \subseteq Nat
          /\ key' \in PublicAddress /\ advertNum' \in 0 .. AdvN
      BY <1>4, Sizes DEF BT2TypeOK
    <2>3. AdapterTypeOK'
      BY DEF BT2TypeOK, AdapterTypeOK
    <2> QED BY <2>1, <2>2, <2>3 DEF BT2TypeOK
  <1>7. CommandsInv'
    BY <1>1, <1>2, <1>3 DEF CommandsInv, Resetting, EnableSteps
  <1>8. CarriedOutInv'
    BY <1>1, <1>2 DEF CarriedOutInv
  <1>9. ResetInv' /\ OneKeyInv' /\ SecretsHaveTheirY'
    BY DEF ResetInv, OneKeyInv, SecretsHaveTheirY, Resetting, EnableSteps
  <1>10. KeysInv'
    <2>1. key \in Nat /\ key # 0 /\ keyDue \in Nat /\ keyDue >= 1 + key * EpochInterval
      BY <1>4 DEF KeysInv
    <2>2. (key + 1) * EpochInterval = key * EpochInterval + EpochInterval
          /\ key * EpochInterval \in Nat /\ EpochInterval \in Nat
      BY <2>1, Sizes, OneMore
    <2>3. keyDue + EpochInterval >= 1 + (key + 1) * EpochInterval
      BY <2>1, <2>2
    <2> QED BY <2>1, <2>3 DEF KeysInv
  <1> QED BY <1>6, <1>7, <1>8, <1>9, <1>10

LEMMA SenderDiscoversKeeps ==
    ASSUME BT2Inv, SenderDiscovers
    PROVE  BT2Inv'
  <1> USE DEF BT2Inv, SenderDiscovers, SenderIdle, receiverVars, deviceVars, adapterVars
  <1>1. commands' = D0 /\ commands = <<>>
    BY DEF D0
  <1>2. /\ <<>> \notin BeforeShow /\ <<>> \notin BeforeMode /\ <<>> \notin BeforeAdvert
        /\ <<>> \notin BeforeAddress /\ <<>> \notin BeforeConnect
        /\ D0 \notin BeforeShow /\ D0 \notin BeforeMode /\ D0 \notin BeforeAdvert
        /\ D0 \notin BeforeAddress /\ D0 \notin BeforeConnect
    BY ListOrder DEF BeforeShow, BeforeMode, BeforeAdvert, BeforeAddress, BeforeConnect
  <1>3. sendDue' \in Nat
    BY Sizes DEF BT2TypeOK
  <1>4. D0 \in Seq(CommandName)
    BY ListTypes
  <1>5. BT2TypeOK'
    BY <1>1, <1>3, <1>4 DEF BT2TypeOK, AdapterTypeOK, CommandName
  <1>6. CommandsInv'
    BY <1>1, <1>2 DEF CommandsInv, Resetting, EnableSteps
  <1>7. CarriedOutInv'
    BY <1>1, <1>2 DEF CarriedOutInv
  <1>8. ResetInv' /\ OneKeyInv' /\ SecretsHaveTheirY' /\ KeysInv'
    BY DEF ResetInv, OneKeyInv, SecretsHaveTheirY, KeysInv, Resetting, EnableSteps
  <1> QED BY <1>5, <1>6, <1>7, <1>8

\* What is due before a list's command is due before what is left of it too,
\* unless it is that command.
LEMMA DoneLists ==
    /\ {I1, E0} \subseteq BeforeAddress /\ {I0, I1, E0, I2, E1, E2} \subseteq BeforeAdvert
    /\ {I0, I1, E0, I2, E1, E2, I3, E3} \subseteq BeforeMode
    /\ {I0, I1, E0, I2, E1, E2, I3, E3, I4, E4} \subseteq BeforeShow
    /\ {I2, E1, E2, I3, E3, I4, E4, I5, D0, <<>>} \cap BeforeAddress = {}
    /\ {I3, E3, I4, E4, I5, D0, <<>>} \cap BeforeAdvert = {}
    /\ {I4, E4, I5, D0, <<>>} \cap BeforeMode = {}
    /\ {I5, D0, <<>>} \cap BeforeShow = {}
    /\ {E0, E1, E2, E3, E4, D0, <<>>} \cap BeforeConnect = {}
    /\ {I0, I1, I2, I3, I4, I5} \subseteq BeforeConnect
    /\ BeforeShow \cup {I5, D0, <<>>} =
         {I0, I1, E0, I2, E1, E2, I3, E3, I4, E4, I5, D0, <<>>}
  BY ListOrder DEF BeforeShow, BeforeMode, BeforeAdvert, BeforeAddress, BeforeConnect

LEMMA ChangeAdvertKeeps ==
    ASSUME BT2Inv, ChangeAdvert
    PROVE  BT2Inv'
  <1> USE DEF BT2Inv, ChangeAdvert, Done, receiverVars, deviceVars
  <1>1. PICK left : left = Tail(commands) /\ commands' = left
    OBVIOUS
  <1>2. \/ commands = I2 /\ left = I3
        \/ commands = E2 /\ left = E3
        \/ commands = D0 /\ left = <<>>
    BY <1>1, AfterCommand DEF CommandsInv
  <1>3. left \in BeforeShow \cup {I5, D0, <<>>} /\ left \notin BeforeAdvert /\ left \notin BeforeAddress
    BY <1>2, DoneLists
  <1>4. left \in Seq(CommandName)
    BY <1>3, ListTypes
  <1>5. adapter \in Adapter /\ adapter.address = key /\ enablePc = "idle" /\ adapter.on = Parts
    BY <1>2, DoneLists DEF BT2TypeOK, AdapterTypeOK, CarriedOutInv
  <1>6. /\ left \notin BeforeConnect => lastKnownState.connectable
        /\ left \notin BeforeConnect => commands \notin BeforeConnect
        /\ left \notin BeforeMode => commands \notin BeforeMode
        /\ left \notin BeforeShow => commands \notin BeforeShow
    BY <1>2, DoneLists DEF CommandsInv
  <1>7. /\ AdvN \in Nat /\ AdvN > 0 /\ advertNum \in 0 .. AdvN /\ key \in PublicAddress
        /\ key # Unset
    BY Sizes, Payloads DEF BT2TypeOK
  <1>8. UNCHANGED <<addressFile, lastKnownState, enablePc>>
    BY DEF adapterVars, WriteExtInquiryResponse
  <1>9. /\ adapter' \in Adapter /\ advertNum' \in 0 .. AdvN
        /\ adapter'.eir = [num |-> advertNum' - 1, key |-> key]
        /\ adapter'.on = adapter.on /\ adapter'.address = adapter.address
        /\ adapter'.mode = adapter.mode /\ adapter'.discoverable = adapter.discoverable
        /\ adapter'.connectable = adapter.connectable
    <2>1. CASE advertNum >= AdvN
      <3>1. commands \notin BeforeAdvert
        BY <2>1, <1>7 DEF CommandsInv
      <3>2. adapter.eir = [num |-> advertNum - 1, key |-> key]
        BY <3>1, <1>5 DEF CarriedOutInv
      <3>3. UNCHANGED <<adapter, advertNum>>
        BY <2>1 DEF adapterVars
      <3> QED BY <3>2, <3>3, <1>5, <1>7
    <2>2. CASE ~(advertNum >= AdvN)
      <3>1. adapter' = [adapter EXCEPT !.eir = [num |-> advertNum, key |-> key]]
            /\ advertNum' = advertNum + 1
        BY <2>2 DEF WriteExtInquiryResponse
      <3>2. PICK eir : eir = [num |-> advertNum, key |-> key]
        OBVIOUS
      <3>3. advertNum \in AdvertNum /\ advertNum + 1 \in 0 .. AdvN /\ (advertNum + 1) - 1 = advertNum
        BY <2>2, <1>7 DEF AdvertNum
      <3>4. eir \in Payload
        BY <3>2, <3>3, <1>7, Payloads
      <3>5. adapter' \in Adapter /\ adapter'.eir = eir
            /\ adapter'.on = adapter.on /\ adapter'.address = adapter.address
            /\ adapter'.mode = adapter.mode /\ adapter'.discoverable = adapter.discoverable
            /\ adapter'.connectable = adapter.connectable
        BY <3>1, <3>2, <3>4, <1>5 DEF Adapter
      <3> QED BY <3>1, <3>2, <3>3, <3>5
    <2> QED BY <2>1, <2>2
  <1>10. BT2TypeOK'
    BY <1>1, <1>4, <1>8, <1>9 DEF BT2TypeOK, AdapterTypeOK, CommandName
  <1>11. CommandsInv'
    BY <1>1, <1>3, <1>5, <1>6, <1>8 DEF CommandsInv, Resetting, EnableSteps
  <1>12. CarriedOutInv'
    BY <1>1, <1>5, <1>6, <1>8, <1>9 DEF CarriedOutInv
  <1>13. ResetInv' /\ OneKeyInv' /\ SecretsHaveTheirY' /\ KeysInv'
    BY <1>5, <1>8, <1>9 DEF ResetInv, OneKeyInv, SecretsHaveTheirY, KeysInv, Resetting, EnableSteps
  <1> QED BY <1>10, <1>11, <1>12, <1>13

LEMMA CommandKeeps ==
    ASSUME BT2Inv, Command
    PROVE  BT2Inv'
  <1> USE DEF BT2Inv, receiverVars, deviceVars
  <1>1. PICK left : left = Tail(commands)
    OBVIOUS
  <1>2. /\ UNCHANGED <<now, key, advertNum, sendDue, keyDue, receiverVars, deviceVars>>
        /\ enablePc = "idle" /\ commands # <<>> /\ commands' = left
    BY <1>1 DEF Command, Done
  <1>3. /\ adapter \in Adapter /\ lastKnownState \in [discoverable : BOOLEAN, connectable : BOOLEAN]
        /\ commands \in BeforeShow \cup {I5, D0, <<>>}
    BY DEF BT2TypeOK, AdapterTypeOK, CommandsInv
  \* It is enough that each command does what is no longer to come.
  <1>4. SUFFICES
          /\ left \in BeforeShow \cup {I5, D0, <<>>}
          /\ left \in BeforeAdvert => commands \in BeforeAdvert
          /\ adapter' \in Adapter /\ lastKnownState' \in [discoverable : BOOLEAN, connectable : BOOLEAN]
          /\ addressFile' = addressFile
          /\ adapter'.on = adapter.on /\ adapter'.address = adapter.address
          /\ adapter'.eir = adapter.eir
          /\ \/ enablePc' = "disable" /\ left \in {I2, E1}
             \/ enablePc' = "idle" /\ (left \notin BeforeAddress => commands \notin BeforeAddress)
          /\ left \notin BeforeConnect => lastKnownState'.connectable
          /\ left \notin BeforeAdvert => commands \notin BeforeAdvert
          /\ left \notin BeforeMode => adapter'.mode = "WithRSSIAndEIR"
          /\ left \notin BeforeShow => lastKnownState'.discoverable /\ adapter'.discoverable
          /\ left \notin BeforeShow \cup BeforeConnect => adapter'.connectable
    <2>1. left \in Seq(CommandName)
      BY <1>4, ListTypes
    <2>2. BT2TypeOK'
      BY <1>2, <1>4, <2>1 DEF BT2TypeOK, AdapterTypeOK, CommandName, EnableSteps
    <2>3. CommandsInv'
      BY <1>2, <1>4 DEF CommandsInv, Resetting, EnableSteps
    <2>4. CarriedOutInv'
      BY <1>2, <1>4 DEF CarriedOutInv
    <2>5. ResetInv' /\ OneKeyInv' /\ SecretsHaveTheirY' /\ KeysInv'
      BY <1>2, <1>4 DEF ResetInv, OneKeyInv, SecretsHaveTheirY, KeysInv, Resetting, EnableSteps
    <2> QED BY <2>2, <2>3, <2>4, <2>5
  <1>5. /\ commands \notin BeforeConnect => lastKnownState.connectable
        /\ commands \notin BeforeMode => adapter.mode = "WithRSSIAndEIR"
        /\ commands \notin BeforeShow => lastKnownState.discoverable /\ adapter.discoverable
        /\ commands \notin BeforeShow \cup BeforeConnect => adapter.connectable
    BY <1>2 DEF CommandsInv, CarriedOutInv
  <1>6. ASSUME NEW state \in [discoverable : BOOLEAN, connectable : BOOLEAN], SetScan(state)
        PROVE  /\ adapter' \in Adapter /\ lastKnownState' = state
               /\ addressFile' = addressFile /\ enablePc' = enablePc
               /\ adapter'.on = adapter.on /\ adapter'.address = adapter.address
               /\ adapter'.eir = adapter.eir /\ adapter'.mode = adapter.mode
               /\ adapter'.discoverable = state.discoverable
               /\ adapter'.connectable = state.connectable
    BY <1>3, <1>6 DEF SetScan, Adapter
  <1>7. CASE Done("hide") /\ SetDiscoverable(FALSE)
    <2>1. PICK state : state = [lastKnownState EXCEPT !.discoverable = FALSE]
      OBVIOUS
    <2>2. /\ state \in [discoverable : BOOLEAN, connectable : BOOLEAN]
          /\ state.connectable = lastKnownState.connectable
      BY <2>1, <1>3
    <2>3. SetScan(state)
      BY <1>7, <2>1 DEF SetDiscoverable
    <2>4. (commands = I0 /\ left = I1) \/ (commands = E1 /\ left = E2)
      BY <1>1, <1>2, <1>3, <1>7, AfterCommand DEF Done
    <2> QED BY <1>2, <1>5, <1>6, <2>2, <2>3, <2>4, DoneLists
  <1>8. CASE Done("show") /\ SetDiscoverable(TRUE)
    <2>1. PICK state : state = [lastKnownState EXCEPT !.discoverable = TRUE]
      OBVIOUS
    <2>2. /\ state \in [discoverable : BOOLEAN, connectable : BOOLEAN]
          /\ state.connectable = lastKnownState.connectable /\ state.discoverable
      BY <2>1, <1>3
    <2>3. SetScan(state)
      BY <1>8, <2>1 DEF SetDiscoverable
    <2>4. (commands = I4 /\ left = I5) \/ (commands = E4 /\ left = <<>>)
      BY <1>1, <1>2, <1>3, <1>8, AfterCommand DEF Done
    <2> QED BY <1>2, <1>5, <1>6, <2>2, <2>3, <2>4, DoneLists
  <1>9. CASE Done("connect") /\ SetConnectable(TRUE)
    <2>1. PICK state : state = [lastKnownState EXCEPT !.connectable = TRUE]
      OBVIOUS
    <2>2. /\ state \in [discoverable : BOOLEAN, connectable : BOOLEAN]
          /\ state.connectable /\ state.discoverable = lastKnownState.discoverable
      BY <2>1, <1>3
    <2>3. SetScan(state)
      BY <1>9, <2>1 DEF SetConnectable
    <2>4. commands = I5 /\ left = <<>>
      BY <1>1, <1>2, <1>3, <1>9, AfterCommand DEF Done
    <2> QED BY <1>2, <1>5, <1>6, <2>2, <2>3, <2>4, DoneLists
  <1>10. CASE Done("mode") /\ SetInquiryMode
    <2>1. /\ adapter' \in Adapter /\ addressFile' = addressFile /\ lastKnownState' = lastKnownState
          /\ enablePc' = enablePc
          /\ adapter'.on = adapter.on /\ adapter'.address = adapter.address
          /\ adapter'.eir = adapter.eir /\ adapter'.mode = "WithRSSIAndEIR"
          /\ adapter'.discoverable = adapter.discoverable
          /\ adapter'.connectable = adapter.connectable
      BY <1>3, <1>10 DEF SetInquiryMode, Adapter
    <2>2. (commands = I3 /\ left = I4) \/ (commands = E3 /\ left = E4)
      BY <1>1, <1>2, <1>3, <1>10, AfterCommand DEF Done
    <2> QED BY <1>2, <1>3, <1>5, <2>1, <2>2, DoneLists
  <1>11. CASE Done("address") /\ StartSetPublicAddress
    <2>1. UNCHANGED <<adapter, addressFile, lastKnownState>> /\ enablePc' = "disable"
      BY <1>11 DEF StartSetPublicAddress
    <2>2. (commands = I1 /\ left = I2) \/ (commands = E0 /\ left = E1)
      BY <1>1, <1>2, <1>3, <1>11, AfterCommand DEF Done
    <2> QED BY <1>2, <1>3, <1>5, <2>1, <2>2, DoneLists
  <1> QED BY <1>7, <1>8, <1>9, <1>10, <1>11 DEF Command

LEMMA SenderFailsKeeps ==
    ASSUME BT2Inv, SenderFails
    PROVE  BT2Inv'
  <1> USE DEF BT2Inv, SenderFails, CommandFails, senderVars, receiverVars, deviceVars
  <1>1. BT2TypeOK'
    BY DEF BT2TypeOK, AdapterTypeOK
  <1>2. CommandsInv' /\ CarriedOutInv'
    BY DEF CommandsInv, CarriedOutInv, Resetting, EnableSteps
  <1>3. ResetInv' /\ OneKeyInv' /\ SecretsHaveTheirY' /\ KeysInv'
    BY DEF ResetInv, OneKeyInv, SecretsHaveTheirY, KeysInv, Resetting, EnableSteps
  <1> QED BY <1>1, <1>2, <1>3

-----------------------------------------------------------------------------
(***************************************************************************)
(* The receiver's steps, which leave the sender alone.                     *)
(***************************************************************************)
LEMMA ReceiverSteps ==
    ASSUME BT2Inv, UNCHANGED <<adapterVars, senderVars>>, BT2TypeOK', SecretsHaveTheirY',
           now' > 1 => now' <= MaxTime
    PROVE  BT2Inv'
  <1> USE DEF adapterVars, senderVars
  <1>1. CommandsInv' /\ CarriedOutInv'
    BY DEF BT2Inv, CommandsInv, CarriedOutInv, Resetting
  <1>2. ResetInv' /\ OneKeyInv' /\ KeysInv'
    BY DEF BT2Inv, ResetInv, OneKeyInv, KeysInv, Resetting
  <1> QED BY <1>1, <1>2 DEF BT2Inv

LEMMA ReceiverTypes ==
    ASSUME BT2Inv
    PROVE  /\ now \in Nat /\ scanDue \in Nat /\ ownKey \in Nat /\ ownKeyDue \in Nat
           /\ epochs \in Seq(DeviceEpoch) /\ Len(epochs) <= 1
           /\ secrets \subseteq Secret
           /\ adapter \in Adapter
           /\ adapter.eir # Unset => adapter.eir.key = adapter.address
  BY DEF BT2Inv, BT2TypeOK, AdapterTypeOK, OneKeyInv

LEMMA AtMostOne ==
    ASSUME NEW S, NEW old \in Seq(S), Len(old) <= 1, NEW e \in S, NEW list,
           list = old \/ list = <<e>>
    PROVE  list \in Seq(S) /\ Len(list) <= 1
  <1>1. <<e>> \in Seq(S) /\ Len(<<e>>) = 1
    OBVIOUS
  <1>2. CASE list = old
    BY ONLY <1>2, old \in Seq(S), Len(old) <= 1
  <1>3. CASE list = <<e>>
    BY ONLY <1>1, <1>3
  <1> QED BY <1>2, <1>3

LEMMA StartInquiryKeeps ==
    ASSUME BT2Inv, StartInquiry
    PROVE  BT2Inv'
  <1> USE DEF StartInquiry, deviceVars
  <1>1. BT2TypeOK'
    BY DEF BT2Inv, BT2TypeOK, adapterVars, senderVars, AdapterTypeOK
  <1>2. SecretsHaveTheirY' /\ (now' > 1 => now' <= MaxTime)
    BY DEF BT2Inv, SecretsHaveTheirY, KeysInv
  <1> QED BY <1>1, <1>2, ReceiverSteps

LEMMA EndInquiryKeeps ==
    ASSUME BT2Inv, EndInquiry
    PROVE  BT2Inv'
  <1> USE DEF EndInquiry, deviceVars
  <1>1. scanDue' \in Nat
    <2>1. PICK i \in ScanJitter : scanDue' = scanDue + i
      OBVIOUS
    <2>2. i \in Nat
      BY Sizes
    <2> QED BY ONLY <2>1, <2>2, ReceiverTypes, BT2Inv
  <1>2. /\ device' \in {device, Unset} /\ lastTime' = lastTime /\ lastKey' = lastKey
        /\ epochs' \in {epochs, <<>>} /\ secrets' \in {secrets, {}}
    OBVIOUS
  <1>3. BT2TypeOK'
    <2>1. epochs' \in Seq(DeviceEpoch) /\ Len(epochs') <= 1
      <3>1. epochs' = epochs \/ epochs' = <<>>
        BY <1>2
      <3>2. Len(<<>>) = 0 /\ <<>> \in Seq(DeviceEpoch)
        OBVIOUS
      <3>3. epochs \in Seq(DeviceEpoch) /\ Len(epochs) <= 1
        BY ReceiverTypes
      <3>4. CASE epochs' = epochs
        BY ONLY <3>3, <3>4
      <3>5. CASE epochs' = <<>>
        BY ONLY <3>2, <3>5
      <3> QED BY ONLY <3>1, <3>4, <3>5
    <2>2. device' \in PublicAddress \cup {Unset} /\ secrets' \subseteq Secret /\ scanning' \in BOOLEAN
      BY <1>2 DEF BT2Inv, BT2TypeOK
    <2>3. {now, sendDue, keyDue, scanDue, ownKey, ownKeyDue, lastTime, lastKey}' \subseteq Nat
      BY <1>1, <1>2 DEF BT2Inv, BT2TypeOK, senderVars
    <2>4. AdapterTypeOK' /\ key' \in PublicAddress /\ advertNum' \in 0 .. AdvN
          /\ commands' \in Seq({"hide", "address", "advert", "mode", "show", "connect"})
      BY DEF BT2Inv, BT2TypeOK, adapterVars, senderVars, AdapterTypeOK
    <2> QED BY <2>1, <2>2, <2>3, <2>4 DEF BT2TypeOK
  <1>4. SecretsHaveTheirY' /\ (now' > 1 => now' <= MaxTime)
    BY <1>2 DEF BT2Inv, SecretsHaveTheirY, KeysInv
  <1> QED BY <1>3, <1>4, ReceiverSteps

\* What a device answers is address and payload of one key.
LEMMA ProcessEIRResponseKeeps ==
    ASSUME BT2Inv, ProcessEIRResponse
    PROVE  BT2Inv'
  <1>1. PICK n, remote : n = adapter.eir.num /\ remote = adapter.eir.key
    OBVIOUS
  <1>2. /\ n \in AdvertNum /\ remote \in PublicAddress /\ adapter.address = remote
        /\ remote \in Nat /\ ownKey \in Nat /\ now \in Nat
    <2>1. adapter.eir # Unset
      BY DEF ProcessEIRResponse
    <2>2. adapter.eir \in Payload /\ adapter.address = remote
      BY <1>1, <2>1, ReceiverTypes DEF Adapter
    <2>3. n \in AdvertNum /\ remote \in PublicAddress
      <3>1. PICK eir : eir = adapter.eir
        OBVIOUS
      <3>2. eir \in [num : AdvertNum, key : PublicAddress] /\ n = eir.num /\ remote = eir.key
        BY <1>1, <2>2, <3>1, Payloads
      <3> QED BY ONLY <3>2
    <2> QED BY <2>2, <2>3, ReceiverTypes, Sizes
  <1>3. PICK had, old, new, epoch :
          /\ had = IF IsKnown THEN secrets ELSE {}
          /\ old = IF IsKnown THEN epochs ELSE <<>>
          /\ new = [own |-> ownKey, remote |-> remote, yCoord |-> adapter.address]
          /\ epoch = [lastAdvertNum |-> n, lastAdvertTime |-> now, remote |-> remote]
    OBVIOUS
  <1>4. /\ epochs' = old \/ epochs' = <<epoch>>
        /\ secrets' = had \/ secrets' = had \cup {new}
    BY <1>1, <1>3 DEF ProcessEIRResponse, ProcessAdvert
  <1>5. epoch \in DeviceEpoch /\ new \in Secret /\ new.yCoord = new.remote
    BY <1>2, <1>3 DEF DeviceEpoch, Secret
  <1>6. /\ old \in Seq(DeviceEpoch) /\ Len(old) <= 1 /\ had \subseteq Secret
        /\ \A s \in had : s.yCoord = s.remote
    BY <1>3 DEF BT2Inv, BT2TypeOK, SecretsHaveTheirY
  <1>7. /\ epochs' \in Seq(DeviceEpoch) /\ Len(epochs') <= 1
    BY ONLY <1>4, <1>5, <1>6, AtMostOne
  <1>8. secrets' \subseteq Secret /\ SecretsHaveTheirY'
    BY <1>4, <1>5, <1>6 DEF SecretsHaveTheirY
  <1>9. /\ device' = remote /\ lastTime' = now /\ lastKey' = remote
        /\ UNCHANGED <<now, adapterVars, senderVars, receiverVars>>
    BY <1>1, <1>2 DEF ProcessEIRResponse
  <1>10. BT2TypeOK'
    BY <1>2, <1>7, <1>8, <1>9
       DEF BT2Inv, BT2TypeOK, adapterVars, senderVars, receiverVars, AdapterTypeOK
  <1>11. now' > 1 => now' <= MaxTime
    BY <1>9 DEF BT2Inv, KeysInv
  <1> QED BY <1>8, <1>9, <1>10, <1>11, ReceiverSteps

LEMMA ReceiverChangesEpochKeeps ==
    ASSUME BT2Inv, ReceiverChangesEpoch
    PROVE  BT2Inv'
  <1>1. ownKey' = ownKey + 1 /\ ownKeyDue' = ownKeyDue + EpochInterval
    BY DEF ReceiverChangesEpoch
  <1>2. UNCHANGED <<now, adapterVars, senderVars, scanning, scanDue, device, lastTime,
                    epochs, lastKey>>
    BY DEF ReceiverChangesEpoch
  <1>3. ownKey' \in Nat /\ ownKeyDue' \in Nat
    BY <1>1, Sizes, ReceiverTypes
  <1>4. PICK new : new = [own |-> ownKey + 1, remote |-> 0, yCoord |-> 0]
    OBVIOUS
  <1>5. new \in Secret /\ new.yCoord = new.remote
    BY <1>1, <1>3, <1>4 DEF Secret
  <1>6. secrets' = secrets \/ secrets' = secrets \cup {new}
    BY <1>4 DEF ReceiverChangesEpoch
  <1>7. secrets' \subseteq Secret /\ SecretsHaveTheirY'
    BY <1>5, <1>6 DEF BT2Inv, BT2TypeOK, SecretsHaveTheirY
  <1>8. BT2TypeOK'
    BY <1>2, <1>3, <1>7 DEF BT2Inv, BT2TypeOK, adapterVars, senderVars, AdapterTypeOK
  <1>9. now' > 1 => now' <= MaxTime
    BY <1>2 DEF BT2Inv, KeysInv
  <1> QED BY <1>2, <1>7, <1>8, <1>9, ReceiverSteps

LEMMA TickKeeps ==
    ASSUME BT2Inv, Tick
    PROVE  BT2Inv'
  <1> USE DEF Tick
  <1>1. Dues \subseteq Nat
    BY Sizes DEF BT2Inv, BT2TypeOK, Dues
  <1>2. now' \in Nat /\ now' <= MaxTime
    BY <1>1
  <1>3. BT2TypeOK'
    BY <1>2 DEF BT2Inv, BT2TypeOK, adapterVars, senderVars, receiverVars, deviceVars, AdapterTypeOK
  <1>4. SecretsHaveTheirY'
    BY DEF BT2Inv, SecretsHaveTheirY, deviceVars
  <1> QED BY <1>2, <1>3, <1>4, ReceiverSteps

-----------------------------------------------------------------------------
LEMMA StepBT2Inv ==
    ASSUME BT2Inv, [BT2Next]_bt2Vars
    PROVE  BT2Inv'
  <1>1. CASE SenderChangesEpoch
    BY <1>1, SenderChangesEpochKeeps
  <1>2. CASE SenderDiscovers
    BY <1>2, SenderDiscoversKeeps
  <1>3. CASE ChangeAdvert
    BY <1>3, ChangeAdvertKeeps
  <1>4. CASE Command
    BY <1>4, CommandKeeps
  <1>5. CASE SenderFails
    BY <1>5, SenderFailsKeeps
  <1>6. CASE SetPublicAddress
    BY <1>6, ResetSteps
  <1>7. CASE StartInquiry
    BY <1>7, StartInquiryKeeps
  <1>8. CASE ProcessEIRResponse
    BY <1>8, ProcessEIRResponseKeeps
  <1>9. CASE EndInquiry
    BY <1>9, EndInquiryKeeps
  <1>10. CASE ReceiverChangesEpoch
    BY <1>10, ReceiverChangesEpochKeeps
  <1>11. CASE Tick
    BY <1>11, TickKeeps
  <1>12. CASE UNCHANGED bt2Vars
    <2>1. UNCHANGED <<now, adapterVars, senderVars, receiverVars, deviceVars>>
      BY <1>12 DEF bt2Vars
    <2>2. BT2TypeOK'
      BY <2>1 DEF BT2Inv, BT2TypeOK, adapterVars, senderVars, receiverVars, deviceVars, AdapterTypeOK
    <2>3. SecretsHaveTheirY' /\ (now' > 1 => now' <= MaxTime)
      BY <2>1 DEF BT2Inv, SecretsHaveTheirY, KeysInv, deviceVars
    <2> QED BY <2>1, <2>2, <2>3, ReceiverSteps
  <1> QED BY <1>1, <1>2, <1>3, <1>4, <1>5, <1>6, <1>7, <1>8, <1>9, <1>10, <1>11, <1>12 DEF BT2Next

LEMMA BT2InvAlways == BT2Spec => []BT2Inv
  <1>1. BT2Init => BT2Inv
    BY InitBT2Inv
  <1>2. BT2Inv /\ [BT2Next]_bt2Vars => BT2Inv'
    BY StepBT2Inv
  <1> QED BY <1>1, <1>2, PTL DEF BT2Spec

-----------------------------------------------------------------------------
(***************************************************************************)
(* Number and time.                                                        *)
(*                                                                         *)
(* The sender draws its intervals, so advertisement n of an epoch is put   *)
(* on somewhere between the n-th quickest and the n-th slowest round, and  *)
(* the last unique one stays on until the epoch ends.  The bounds are      *)
(* stated of the round a command belongs to: advertNum_ is a round behind  *)
(* as long as the payload is still to be written.                          *)
(***************************************************************************)
Begin(k) == 1 + (k - 1) * EpochInterval

BeforePayload == BeforeAdvert \cup {D0}

RoundInv ==
    /\ keyDue = Begin(key + 1) /\ now <= keyDue
    /\ now <= sendDue /\ sendDue <= now + Slowest
    /\ commands \in BeforePayload =>
         /\ now + Quickest >= Begin(key) + advertNum * Quickest
         /\ sendDue + Quickest >= Begin(key) + (advertNum + 1) * Quickest
         /\ advertNum < AdvN => now <= Begin(key) + advertNum * Slowest
    /\ commands \notin BeforePayload =>
         /\ sendDue + Quickest >= Begin(key) + advertNum * Quickest
         /\ advertNum < AdvN => sendDue <= Begin(key) + advertNum * Slowest

\* Advertisement n of epoch k can be on the air at t.
Aired(n, k, t) ==
    /\ t + Quickest >= Begin(k) + n * Quickest
    /\ n < AdvN - 1 => t <= Begin(k) + (n + 1) * Slowest
    /\ t <= Begin(k + 1)

\* What is on the air.
AirInv ==
    adapter.eir # Unset =>
        /\ adapter.eir.key <= key
        /\ adapter.eir.key = key => adapter.eir.num < advertNum
        /\ Aired(adapter.eir.num, adapter.eir.key, now)

\* What the receiver has of it: the device is known by the address of the
\* epoch it keeps, and nothing older than that epoch is on the air.
Known(epoch) ==
    /\ device = epoch.remote /\ lastKey = epoch.remote /\ epoch.remote <= key
    /\ epoch.remote = key => epoch.lastAdvertNum < advertNum
    /\ Aired(epoch.lastAdvertNum, epoch.remote, epoch.lastAdvertTime)

NotBefore(epoch) ==
    adapter.eir # Unset =>
        /\ epoch.remote <= adapter.eir.key
        /\ adapter.eir.key = epoch.remote => epoch.lastAdvertNum <= adapter.eir.num

EpochInv == epochs # <<>> => Known(epochs[1]) /\ NotBefore(epochs[1])

TimesInv == RoundInv /\ AirInv /\ EpochInv

-----------------------------------------------------------------------------
(***************************************************************************)
(* The arithmetic of the rounds.                                           *)
(***************************************************************************)
LEMMA Times ==
    /\ Quickest \in Nat \ {0} /\ Slowest \in Nat \ {0} /\ Quickest <= Slowest
    /\ DiscInterval \in Nat /\ Quickest <= DiscInterval /\ DiscInterval <= Slowest
    /\ FirstDiscover <= Slowest /\ EpochInterval <= AdvN * DiscInterval
    /\ Slack \in Nat /\ Slack < AdvN
    /\ \A i \in SendJitter : i \in Nat /\ Quickest <= i /\ i <= Slowest
  <1>1. SendJitter \subseteq Nat \ {0}
    BY Sizes
  <1>2. {DiscInterval, Slack} \subseteq Nat /\ Slack < AdvN
    BY BT2EpochsAssumption
  <1>3. Quickest \in SendJitter /\ Slowest \in SendJitter
    BY BT2TimesAssumption
  <1>4. Quickest <= DiscInterval /\ DiscInterval <= Slowest /\ FirstDiscover <= Slowest
        /\ EpochInterval <= AdvN * DiscInterval
    BY BT2TimesAssumption
  <1>5. \A i \in SendJitter : Quickest <= i /\ i <= Slowest
    BY BT2TimesAssumption
  <1> QED BY ONLY <1>1, <1>2, <1>3, <1>4, <1>5

LEMMA Product ==
    ASSUME NEW a \in Nat, NEW c \in Nat
    PROVE  /\ a * c \in Nat /\ (a + 1) * c \in Nat /\ (a + 1) * c = a * c + c
           /\ 0 * c = 0 /\ 1 * c = c
  BY Z3

LEMMA Distributes ==
    ASSUME NEW a \in Nat, NEW b \in Nat, NEW c \in Nat
    PROVE  /\ (a + b) * c = a * c + b * c
           /\ (a + b) * c \in Nat /\ a * c \in Nat /\ b * c \in Nat
  BY Z3

LEMMA Monotone ==
    ASSUME NEW a \in Nat, NEW b \in Nat, a <= b, NEW c \in Nat
    PROVE  a * c <= b * c /\ a * c \in Nat /\ b * c \in Nat
  BY Z3

\* The epochs follow one another.
LEMMA Begins ==
    ASSUME NEW k \in Nat, k # 0
    PROVE  /\ Begin(k) \in Nat /\ Begin(k + 1) \in Nat
           /\ Begin(k + 1) = Begin(k) + EpochInterval
  <1>1. k - 1 \in Nat /\ EpochInterval \in Nat /\ k = (k - 1) + 1 /\ (k + 1) - 1 = k
    BY Sizes
  <1>2. (k - 1) * EpochInterval \in Nat /\ k * EpochInterval = (k - 1) * EpochInterval + EpochInterval
    BY <1>1, Product
  <1> QED BY <1>1, <1>2 DEF Begin

LEMMA BeginsInOrder ==
    ASSUME NEW k \in Nat, k # 0, NEW m \in Nat, k < m
    PROVE  Begin(k) + EpochInterval <= Begin(m) /\ Begin(m) \in Nat
  <1>1. k \in Nat /\ m - 1 \in Nat /\ k <= m - 1 /\ EpochInterval \in Nat
    BY Sizes
  <1>2. k * EpochInterval <= (m - 1) * EpochInterval
        /\ k * EpochInterval \in Nat /\ (m - 1) * EpochInterval \in Nat
    BY ONLY <1>1, Monotone
  <1>3. Begin(k + 1) = 1 + k * EpochInterval
    BY DEF Begin
  <1>4. Begin(k + 1) = Begin(k) + EpochInterval
    BY Begins
  <1> QED BY <1>2, <1>3, <1>4 DEF Begin

-----------------------------------------------------------------------------
(***************************************************************************)
(* How number and time go together.  From one advertisement of an epoch to *)
(* another the time is that of the rounds between them, give or take       *)
(* Spread; of another epoch, it is EpochInterval more.                     *)
(***************************************************************************)
LEMMA Drift ==
    ASSUME NEW lo \in Nat, NEW d \in Nat, NEW hi \in Nat, lo <= d, d <= hi,
           NEW l \in Nat, NEW n \in Nat, NEW m \in Nat, l <= n, n <= m
    PROVE  /\ (n + 1) * hi <= l * lo + hi + m * (hi - lo) + (n - l) * d
           /\ (l + 1) * hi + (n - l) * d <= n * lo + hi + m * (hi - lo)
  <1>1. PICK j, g, u, v : j = n - l /\ g = hi - lo /\ u = hi - d /\ v = d - lo
    OBVIOUS
  <1>2. /\ j \in Nat /\ g \in Nat /\ u \in Nat /\ v \in Nat
        /\ n = j + l /\ hi = lo + g /\ hi = d + u /\ d = lo + v /\ u <= g /\ v <= g
    BY <1>1
  \* Every product below, split into the parts that are compared.
  <1>3. /\ (j + l) * hi = j * hi + l * hi /\ j * hi \in Nat /\ l * hi \in Nat
        /\ (j + l) * lo = j * lo + l * lo /\ j * lo \in Nat /\ l * lo \in Nat
        /\ (j + l) * g = j * g + l * g /\ j * g \in Nat /\ l * g \in Nat
    BY <1>2, Distributes
  <1>4. /\ (d + u) * j = d * j + u * j /\ d * j \in Nat /\ u * j \in Nat
        /\ (lo + v) * j = lo * j + v * j /\ lo * j \in Nat /\ v * j \in Nat
        /\ (lo + g) * l = lo * l + g * l /\ lo * l \in Nat /\ g * l \in Nat
    BY <1>2, Distributes
  <1>5. u * j <= g * j /\ v * j <= g * j /\ g * j \in Nat
    BY <1>2, Monotone
  <1>6. n * g <= m * g /\ n * g \in Nat /\ m * g \in Nat
    BY <1>2, Monotone
  <1>7. \A a, b \in Nat : a * b = b * a
    BY Z3
  <1>8. /\ j * hi = hi * j /\ j * d = d * j /\ j * lo = lo * j /\ j * g = g * j
        /\ l * hi = hi * l /\ l * lo = lo * l /\ l * g = g * l
    BY ONLY <1>2, <1>7, hi \in Nat, d \in Nat, lo \in Nat, l \in Nat
  <1>9. (n + 1) * hi = n * hi + hi /\ (l + 1) * hi = l * hi + hi
    BY Product
  <1>10. /\ n * hi = hi * j + hi * l /\ hi * j = d * j + u * j /\ hi * l = lo * l + g * l
         /\ n * lo = lo * j + lo * l /\ d * j = lo * j + v * j
         /\ n * g = g * j + g * l
    BY ONLY <1>2, <1>3, <1>4, <1>8
  <1>11. n * hi <= l * lo + m * g + j * d
    BY ONLY <1>3, <1>4, <1>5, <1>6, <1>8, <1>10
  <1>12. l * hi + j * d <= n * lo + m * g
    BY ONLY <1>3, <1>4, <1>5, <1>6, <1>8, <1>10
  <1>13. (n + 1) * hi <= l * lo + hi + m * g + j * d
    <2>1. (n + 1) * hi \in Nat /\ n * hi \in Nat /\ l * lo \in Nat /\ m * g \in Nat /\ j * d \in Nat
      BY <1>2, Product
    <2> QED BY ONLY <1>9, <1>11, <2>1, hi \in Nat
  <1>14. (l + 1) * hi + j * d <= n * lo + hi + m * g
    <2>1. l * hi \in Nat /\ n * lo \in Nat /\ m * g \in Nat /\ j * d \in Nat
      BY <1>2, Product
    <2> QED BY ONLY <1>9, <1>12, <2>1, hi \in Nat
  <1> QED BY ONLY <1>1, <1>13, <1>14

LEMMA SpreadIs ==
    /\ Spread \in Nat /\ (AdvN - 1) * (Slowest - Quickest) \in Nat
    /\ Spread = Quickest + Slowest + (AdvN - 1) * (Slowest - Quickest)
  <1>1. AdvN - 1 \in Nat /\ Slowest - Quickest \in Nat
    BY Sizes, Times
  <1>2. (AdvN - 1) * (Slowest - Quickest) \in Nat
    BY ONLY <1>1, Product
  <1> QED BY <1>2, Times DEF Spread

\* The last unique advertisement stays on no longer than a slow round either.
LEMMA AiredBounds ==
    ASSUME NEW n \in AdvertNum, NEW k \in Nat, k # 0, NEW t \in Nat, Aired(n, k, t)
    PROVE  /\ n \in Nat /\ n <= AdvN - 1 /\ AdvN - 1 \in Nat
           /\ Begin(k) \in Nat /\ n * Quickest \in Nat /\ (n + 1) * Slowest \in Nat
           /\ t + Quickest >= Begin(k) + n * Quickest
           /\ t <= Begin(k) + (n + 1) * Slowest
  <1>1. n \in Nat /\ n <= AdvN - 1 /\ AdvN \in Nat /\ AdvN - 1 \in Nat
    BY Sizes DEF AdvertNum
  <1>2. Begin(k) \in Nat /\ Begin(k + 1) = Begin(k) + EpochInterval
    BY Begins
  <1>3. n * Quickest \in Nat /\ (n + 1) * Slowest \in Nat
    BY <1>1, Times, Product
  <1>4. t + Quickest >= Begin(k) + n * Quickest /\ t <= Begin(k + 1)
        /\ (n < AdvN - 1 => t <= Begin(k) + (n + 1) * Slowest)
    BY DEF Aired
  <1>5. CASE n < AdvN - 1
    BY <1>1, <1>2, <1>3, <1>4, <1>5
  <1>6. CASE n = AdvN - 1
    <2>1. AdvN * DiscInterval <= AdvN * Slowest
      <3>1. DiscInterval * AdvN <= Slowest * AdvN
        BY <1>1, Times, Monotone
      <3>2. \A a, b \in Nat : a * b = b * a
        BY Z3
      <3> QED BY <1>1, <3>1, <3>2, Times
    <2>2. n + 1 = AdvN /\ AdvN * DiscInterval \in Nat /\ AdvN * Slowest \in Nat
      BY <1>1, <1>6, Times, Product
    <2>3. EpochInterval <= AdvN * DiscInterval /\ EpochInterval \in Nat
      BY Times, Sizes
    <2> QED BY <1>1, <1>2, <1>3, <1>4, <2>1, <2>2, <2>3
  <1> QED BY <1>1, <1>5, <1>6

LEMMA SameEpoch ==
    ASSUME NEW k \in Nat, k # 0, NEW l \in AdvertNum, NEW n \in AdvertNum, l <= n,
           NEW then \in Nat, NEW t \in Nat, Aired(l, k, then), Aired(n, k, t)
    PROVE  t <= then + Spread + (n - l) * DiscInterval
  <1>1. /\ l \in Nat /\ l * Quickest \in Nat /\ Begin(k) \in Nat
        /\ then + Quickest >= Begin(k) + l * Quickest
    BY AiredBounds
  <1>2. /\ n \in Nat /\ n <= AdvN - 1 /\ AdvN - 1 \in Nat /\ (n + 1) * Slowest \in Nat
        /\ t <= Begin(k) + (n + 1) * Slowest
    BY AiredBounds
  <1>3. n - l \in Nat /\ (n - l) * DiscInterval \in Nat
    BY <1>1, <1>2, Times, Product
  <1>4. (n + 1) * Slowest <= l * Quickest + Slowest + (AdvN - 1) * (Slowest - Quickest)
                               + (n - l) * DiscInterval
    BY <1>1, <1>2, Times, Drift
  <1> QED BY ONLY <1>1, <1>2, <1>3, <1>4, SpreadIs, Times, t \in Nat, then \in Nat

LEMMA LaterEpoch ==
    ASSUME NEW k \in Nat, k # 0, NEW m \in Nat, k < m,
           NEW l \in AdvertNum, NEW n \in AdvertNum, l <= n,
           NEW then \in Nat, NEW t \in Nat, Aired(l, k, then), Aired(n, m, t)
    PROVE  t + Spread >= then + EpochInterval + (n - l) * DiscInterval
  <1>1. /\ l \in Nat /\ (l + 1) * Slowest \in Nat /\ Begin(k) \in Nat
        /\ then <= Begin(k) + (l + 1) * Slowest
    BY AiredBounds
  <1>2. m # 0
    OBVIOUS
  <1>3. /\ n \in Nat /\ n <= AdvN - 1 /\ AdvN - 1 \in Nat /\ n * Quickest \in Nat
        /\ t + Quickest >= Begin(m) + n * Quickest
    BY <1>2, AiredBounds
  <1>4. Begin(k) + EpochInterval <= Begin(m) /\ Begin(m) \in Nat /\ EpochInterval \in Nat
    BY BeginsInOrder, Sizes
  <1>5. n - l \in Nat /\ (n - l) * DiscInterval \in Nat
    BY <1>1, <1>3, Times, Product
  <1>6. (l + 1) * Slowest + (n - l) * DiscInterval
          <= n * Quickest + Slowest + (AdvN - 1) * (Slowest - Quickest)
    BY <1>1, <1>3, Times, Drift
  <1> QED BY ONLY <1>1, <1>3, <1>4, <1>5, <1>6, SpreadIs, Times, t \in Nat, then \in Nat

\* processAdvert takes an advertisement of the epoch it keeps for one.
LEMMA SameIsTold ==
    ASSUME NEW epoch \in DeviceEpoch, NEW n \in AdvertNum, epoch.lastAdvertNum <= n, now \in Nat,
           Aired(epoch.lastAdvertNum, epoch.remote, epoch.lastAdvertTime),
           Aired(n, epoch.remote, now)
    PROVE  IsDuplicate(epoch, n) \/ IsCurrent(epoch, n)
  <1>1. PICK l, then, k : l = epoch.lastAdvertNum /\ then = epoch.lastAdvertTime /\ k = epoch.remote
    OBVIOUS
  <1>2. l \in AdvertNum /\ then \in Nat /\ k \in Nat /\ k # 0 /\ l <= n
    BY <1>1, Sizes DEF DeviceEpoch
  <1>3. Aired(l, k, then) /\ Aired(n, k, now)
    BY <1>1
  <1>4. now <= then + Spread + (n - l) * DiscInterval
    BY <1>2, <1>3, SameEpoch
  <1>5. n \in Nat /\ l \in Nat /\ Slack \in Nat /\ DiscInterval \in Nat /\ n - l \in Nat
    BY <1>2, Times DEF AdvertNum
  <1>6. (n - l + Slack) * DiscInterval = (n - l) * DiscInterval + Slack * DiscInterval
        /\ (n - l) * DiscInterval \in Nat /\ Slack * DiscInterval \in Nat
    BY ONLY <1>5, Distributes
  <1>7. Spread < Slack * DiscInterval /\ Spread < (AdvN - Slack) * DiscInterval
    BY BT2TimesAssumption
  <1>8. CASE l = n
    <2>1. 0 * DiscInterval = 0 /\ n - l = 0
      BY <1>5, <1>8, Product
    <2>2. (AdvN - Slack) * DiscInterval \in Nat
      BY Times, Sizes, Product
    <2>3. now - then < (AdvN - Slack) * DiscInterval
      BY ONLY <1>2, <1>4, <1>7, <2>1, <2>2, SpreadIs, now \in Nat
    <2> QED BY <1>1, <1>8, <2>3 DEF IsDuplicate
  <1>9. CASE l # n
    <2>1. l < n
      BY <1>2, <1>5, <1>9
    <2>2. now - then < (n - l + Slack) * DiscInterval
      BY ONLY <1>2, <1>4, <1>6, <1>7, SpreadIs, now \in Nat
    <2> QED BY <1>1, <2>1, <2>2 DEF IsCurrent
  <1> QED BY <1>8, <1>9

\* And one of any later epoch, however much was missed, for a new one.
LEMMA LaterIsTold ==
    ASSUME NEW epoch \in DeviceEpoch, NEW n \in AdvertNum, now \in Nat,
           NEW m \in Nat, epoch.remote < m,
           Aired(epoch.lastAdvertNum, epoch.remote, epoch.lastAdvertTime),
           Aired(n, m, now)
    PROVE  ~IsDuplicate(epoch, n) /\ ~IsCurrent(epoch, n)
  <1>1. PICK l, then, k : l = epoch.lastAdvertNum /\ then = epoch.lastAdvertTime /\ k = epoch.remote
    OBVIOUS
  <1>2. l \in AdvertNum /\ then \in Nat /\ k \in Nat /\ k # 0 /\ k < m
    BY <1>1, Sizes DEF DeviceEpoch
  <1>3. Aired(l, k, then) /\ Aired(n, m, now)
    BY <1>1
  <1>4. l <= n => now + Spread >= then + EpochInterval + (n - l) * DiscInterval
    BY <1>2, <1>3, LaterEpoch
  <1>5. n \in Nat /\ l \in Nat /\ Slack \in Nat /\ DiscInterval \in Nat /\ EpochInterval \in Nat
    BY <1>2, Times, Sizes DEF AdvertNum
  <1>6. /\ Spread + Slack * DiscInterval <= EpochInterval
        /\ Spread + (AdvN - Slack) * DiscInterval <= EpochInterval
    BY BT2TimesAssumption
  <1>7. ~IsDuplicate(epoch, n)
    <2>1. SUFFICES ASSUME l = n PROVE ~(now - then < (AdvN - Slack) * DiscInterval)
      BY <1>1 DEF IsDuplicate
    <2>2. 0 * DiscInterval = 0 /\ n - l = 0 /\ l <= n
      BY <1>5, <2>1, Product
    <2>3. (AdvN - Slack) * DiscInterval \in Nat
      BY Times, Sizes, Product
    <2>4. now + Spread >= then + EpochInterval
      BY ONLY <1>2, <1>4, <1>5, <2>2
    <2> QED BY ONLY <1>2, <1>5, <1>6, <2>3, <2>4, SpreadIs, now \in Nat
  <1>8. ~IsCurrent(epoch, n)
    <2>1. SUFFICES ASSUME l < n PROVE ~(now - then < (n - l + Slack) * DiscInterval)
      BY <1>1 DEF IsCurrent
    <2>2. l <= n /\ n - l \in Nat
      BY <1>5, <2>1
    <2>3. (n - l + Slack) * DiscInterval = (n - l) * DiscInterval + Slack * DiscInterval
          /\ (n - l) * DiscInterval \in Nat /\ Slack * DiscInterval \in Nat
      BY ONLY <1>5, <2>2, Distributes
    <2>4. now + Spread >= then + EpochInterval + (n - l) * DiscInterval
      BY <1>4, <2>2
    <2> QED BY ONLY <1>2, <1>5, <1>6, <2>3, <2>4, SpreadIs, now \in Nat
  <1> QED BY <1>7, <1>8

-----------------------------------------------------------------------------
(***************************************************************************)
(* The steps that leave the rounds alone.                                  *)
(***************************************************************************)
LEMMA RoundTypes ==
    ASSUME BT2Inv
    PROVE  /\ key \in Nat /\ key # 0 /\ now \in Nat /\ sendDue \in Nat /\ keyDue \in Nat
           /\ advertNum \in Nat /\ advertNum <= AdvN /\ AdvN \in Nat
           /\ commands \in BeforeShow \cup {I5, D0, <<>>}
  <1>1. key \in PublicAddress /\ advertNum \in 0 .. AdvN
        /\ {now, sendDue, keyDue} \subseteq Nat
    BY DEF BT2Inv, BT2TypeOK
  <1>2. key \in Nat /\ key # 0 /\ AdvN \in Nat
    BY <1>1, Sizes
  <1>3. commands \in BeforeShow \cup {I5, D0, <<>>}
    BY DEF BT2Inv, CommandsInv
  <1> QED BY <1>1, <1>2, <1>3

LEMMA AirTypes ==
    ASSUME BT2Inv, adapter.eir # Unset
    PROVE  /\ adapter.eir.num \in AdvertNum /\ adapter.eir.num \in Nat
           /\ adapter.eir.key \in PublicAddress
           /\ adapter.eir.key \in Nat /\ adapter.eir.key # 0
           /\ adapter.eir.key = adapter.address
  <1>1. adapter.eir \in Payload
    BY DEF BT2Inv, BT2TypeOK, AdapterTypeOK, Adapter
  <1>2. adapter.eir.num \in AdvertNum /\ adapter.eir.key \in PublicAddress
    BY <1>1, Payloads
  <1>3. adapter.eir.key = adapter.address
    BY ReceiverTypes
  <1>4. AdvertNum \subseteq Nat /\ PublicAddress \subseteq Nat \ {0}
    BY Sizes DEF AdvertNum
  <1> QED BY ONLY <1>2, <1>3, <1>4

LEMMA EpochTypes ==
    ASSUME BT2Inv, epochs # <<>>
    PROVE  /\ epochs[1] \in DeviceEpoch
           /\ epochs[1].remote \in PublicAddress /\ epochs[1].remote \in Nat
           /\ epochs[1].remote # 0
           /\ epochs[1].lastAdvertNum \in AdvertNum /\ epochs[1].lastAdvertNum \in Nat
           /\ epochs[1].lastAdvertTime \in Nat
  <1>1. epochs \in Seq(DeviceEpoch)
    BY ReceiverTypes
  <1>2. ASSUME NEW S, NEW q \in Seq(S), q # <<>>
        PROVE  q[1] \in S
    <2>1. Len(q) \in Nat \ {0}
      BY <1>2
    <2> QED BY <1>2, <2>1
  <1>3. epochs[1] \in DeviceEpoch
    BY ONLY <1>1, <1>2, epochs # <<>>
  <1>4. /\ epochs[1].remote \in PublicAddress /\ epochs[1].lastAdvertNum \in AdvertNum
        /\ epochs[1].lastAdvertTime \in Nat
    BY <1>3 DEF DeviceEpoch
  <1>5. AdvertNum \subseteq Nat /\ PublicAddress \subseteq Nat \ {0}
    BY Sizes DEF AdvertNum
  <1> QED BY ONLY <1>3, <1>4, <1>5

\* The payload is to be written in the same lists as before, or has been.
LEMMA PayloadLists ==
    /\ {I0, I1, I2, E0, E1, E2, D0} \subseteq BeforePayload
    /\ {I3, I4, I5, E3, E4, <<>>} \cap BeforePayload = {}
  BY DoneLists, ListOrder DEF BeforePayload, BeforeAdvert, BeforeAddress

LEMMA OthersKeepTimes ==
    ASSUME TimesInv, UNCHANGED <<now, key, advertNum, sendDue, keyDue>>,
           commands' \in BeforePayload <=> commands \in BeforePayload,
           adapter'.eir = adapter.eir \/ adapter'.eir = Unset,
           epochs' = <<>> \/ UNCHANGED <<device, epochs, lastKey>>
    PROVE  TimesInv'
  <1>1. RoundInv'
    BY DEF TimesInv, RoundInv
  <1>2. AirInv'
    <2>1. CASE adapter'.eir = Unset
      BY <2>1 DEF AirInv
    <2>2. CASE adapter'.eir = adapter.eir
      BY <2>2 DEF TimesInv, AirInv
    <2> QED BY <2>1, <2>2
  <1>3. EpochInv'
    <2>1. SUFFICES ASSUME epochs' # <<>> PROVE Known(epochs[1])' /\ NotBefore(epochs[1])'
      BY DEF EpochInv
    <2>2. UNCHANGED <<device, epochs, lastKey>>
      BY <2>1
    <2>3. Known(epochs[1]) /\ NotBefore(epochs[1])
      BY <2>1, <2>2 DEF TimesInv, EpochInv
    <2>4. Known(epochs[1])'
      BY <2>2, <2>3 DEF Known
    <2>5. NotBefore(epochs[1])'
      BY <2>2, <2>3 DEF NotBefore
    <2> QED BY <2>4, <2>5
  <1> QED BY <1>1, <1>2, <1>3 DEF TimesInv

\* A reset takes the payload off, or leaves it.
LEMMA ResetPayload ==
    ASSUME BT2Inv, SetPublicAddress
    PROVE  adapter'.eir = adapter.eir \/ adapter'.eir = Unset
  <1>1. Disable(key) \/ BtEnable
    BY DEF SetPublicAddress
  <1>2. Resetting' => adapter'.eir = Unset
    BY <1>1, ResetAdapter
  <1>3. CASE enablePc' = "idle"
    <2>1. BtIsEnabled
      BY <1>1, <1>3 DEF Disable, BtDisableThrows, BtEnable, PowerOn, StartHCIAttach, IoctlUp,
                        StartBluetoothd, Catch, Throws
    <2> QED BY <1>3, <2>1 DEF BtIsEnabled, Throws
  <1>4. CASE enablePc' = "crashed"
    <2>1. BtDisableThrows
      BY <1>1, <1>4 DEF Disable, BtEnable, PowerOn, StartHCIAttach, IoctlUp,
                        StartBluetoothd, BtIsEnabled, Catch, Throws
    <2>2. \/ adapter' = adapter
          \/ \E parts \in SUBSET Parts : adapter' = Without(parts)
      BY <2>1 DEF BtDisableThrows, Parts
    <2>3. adapter \in Adapter
      BY ReceiverTypes
    <2> QED BY <2>2, <2>3, WithoutKeeps
  <1>5. enablePc' \in EnableSteps \cup {"idle", "crashed"}
    BY <1>1, ResetAdapter
  <1> QED BY <1>2, <1>3, <1>4, <1>5 DEF Resetting

LEMMA ResetKeepsTimes ==
    ASSUME BT2Inv, TimesInv, SetPublicAddress
    PROVE  TimesInv'
  <1>1. UNCHANGED <<now, senderVars, receiverVars, deviceVars>>
    BY DEF SetPublicAddress
  <1>2. UNCHANGED <<now, key, advertNum, sendDue, keyDue, commands, device, epochs, lastKey>>
    BY <1>1 DEF senderVars, deviceVars
  <1> QED BY <1>2, ResetPayload, OthersKeepTimes

LEMMA CommandKeepsTimes ==
    ASSUME BT2Inv, TimesInv, Command
    PROVE  TimesInv'
  <1>1. /\ UNCHANGED <<now, key, advertNum, sendDue, keyDue, device, epochs, lastKey>>
        /\ commands # <<>> /\ commands' = Tail(commands)
        /\ Head(commands) \in {"hide", "show", "connect", "mode", "address"}
    BY DEF Command, Done, deviceVars
  <1>2. PICK left : left = Tail(commands)
    OBVIOUS
  <1>3. commands \in BeforeShow \cup {I5, D0, <<>>}
    BY RoundTypes
  <1>4. \/ commands \in {I0, I1, E0, E1} /\ left \in {I1, I2, E1, E2}
        \/ commands \in {I3, I4, I5, E3, E4} /\ left \in {I4, I5, E4, <<>>}
    <2>1. /\ commands \in BeforeShow \cup {I5, D0, <<>>} /\ commands # <<>>
          /\ left = Tail(commands)
      BY <1>1, <1>2, <1>3
    <2>2. /\ Head(commands) = "hide" =>
               \/ (commands = I0 /\ left = I1) \/ (commands = E1 /\ left = E2)
          /\ Head(commands) = "address" =>
               \/ (commands = I1 /\ left = I2) \/ (commands = E0 /\ left = E1)
          /\ Head(commands) = "mode" =>
               \/ (commands = I3 /\ left = I4) \/ (commands = E3 /\ left = E4)
          /\ Head(commands) = "show" =>
               \/ (commands = I4 /\ left = I5) \/ (commands = E4 /\ left = <<>>)
          /\ Head(commands) = "connect" => commands = I5 /\ left = <<>>
      BY ONLY <2>1, AfterCommand
    <2> QED BY ONLY <1>1, <2>2
  <1>5. left = commands'
    BY <1>1, <1>2
  <1>6. commands' \in BeforePayload <=> commands \in BeforePayload
    BY ONLY <1>4, <1>5, PayloadLists
  <1>7. adapter'.eir = adapter.eir
    <2>1. adapter \in Adapter
      BY ReceiverTypes
    <2> QED BY <2>1 DEF Command, Done, SetDiscoverable, SetConnectable, SetScan, SetInquiryMode,
                        StartSetPublicAddress, Adapter
  <1> QED BY <1>1, <1>6, <1>7, OthersKeepTimes

-----------------------------------------------------------------------------
(***************************************************************************)
(* The steps of the rounds.                                                *)
(***************************************************************************)
LEMMA EpochStartsInTime ==
    ASSUME BT2Inv, TimesInv, SenderChangesEpoch
    PROVE  TimesInv'
  <1>1. /\ now = keyDue /\ keyDue < sendDue /\ commands = <<>>
        /\ key' = key + 1 /\ advertNum' = 0 /\ commands' = E0 /\ keyDue' = keyDue + EpochInterval
        /\ UNCHANGED <<now, adapter, sendDue, device, epochs, lastKey>>
    BY ListTypes DEF SenderChangesEpoch, SenderIdle, adapterVars, deviceVars
  <1>2. /\ key \in Nat /\ key # 0 /\ now \in Nat /\ sendDue \in Nat /\ keyDue \in Nat
        /\ EpochInterval \in Nat
    BY RoundTypes, Sizes
  <1>3. keyDue = Begin(key + 1) /\ now <= sendDue /\ sendDue <= now + Slowest
    BY DEF TimesInv, RoundInv
  <1>4. Begin((key + 1) + 1) = Begin(key + 1) + EpochInterval
    BY <1>2, Begins
  <1>5. /\ 0 * Quickest = 0 /\ (0 + 1) * Quickest = Quickest /\ 0 * Slowest = 0
        /\ Quickest \in Nat /\ Slowest \in Nat
    BY Times, Product
  <1>6. E0 \in BeforePayload
    BY PayloadLists
  <1>7. RoundInv'
    <2>1. keyDue' = Begin(key' + 1) /\ now' <= keyDue' /\ now' <= sendDue'
          /\ sendDue' <= now' + Slowest
      BY <1>1, <1>2, <1>3, <1>4
    <2>2. now' = Begin(key')
      BY <1>1, <1>3
    <2>3. /\ now' + Quickest >= Begin(key') + advertNum' * Quickest
          /\ sendDue' + Quickest >= Begin(key') + (advertNum' + 1) * Quickest
          /\ now' <= Begin(key') + advertNum' * Slowest
      BY <1>1, <1>2, <1>5, <2>2
    <2> QED BY <1>1, <1>6, <2>1, <2>3 DEF RoundInv
  <1>8. AirInv'
    <2>1. SUFFICES ASSUME adapter.eir # Unset
                   PROVE  /\ adapter.eir.key <= key' /\ adapter.eir.key # key'
                          /\ Aired(adapter.eir.num, adapter.eir.key, now')
      BY <1>1 DEF AirInv
    <2>2. adapter.eir.key <= key /\ Aired(adapter.eir.num, adapter.eir.key, now)
      BY <2>1 DEF TimesInv, AirInv
    <2>3. adapter.eir.key \in Nat
      BY <2>1, AirTypes
    <2> QED BY <1>1, <1>2, <2>2, <2>3
  <1>9. EpochInv'
    <2>1. SUFFICES ASSUME epochs # <<>> PROVE Known(epochs[1])' /\ NotBefore(epochs[1])'
      BY <1>1 DEF EpochInv
    <2>2. Known(epochs[1]) /\ NotBefore(epochs[1]) /\ epochs[1].remote \in Nat
      BY <2>1, EpochTypes DEF TimesInv, EpochInv
    <2>3. Known(epochs[1])'
      BY <1>1, <1>2, <2>2 DEF Known
    <2>4. NotBefore(epochs[1])'
      BY <1>1, <2>2 DEF NotBefore
    <2> QED BY <2>3, <2>4
  <1> QED BY <1>7, <1>8, <1>9 DEF TimesInv

LEMMA RoundStartsInTime ==
    ASSUME BT2Inv, TimesInv, SenderDiscovers
    PROVE  TimesInv'
  <1>1. /\ now = sendDue /\ sendDue <= keyDue /\ commands = <<>> /\ commands' = D0
        /\ UNCHANGED <<now, adapter, key, advertNum, keyDue, device, epochs, lastKey>>
    BY DEF SenderDiscovers, SenderIdle, D0, adapterVars, deviceVars
  <1>2. PICK i \in SendJitter : sendDue' = sendDue + i
    BY DEF SenderDiscovers
  <1>3. /\ key \in Nat /\ key # 0 /\ now \in Nat /\ sendDue \in Nat /\ keyDue \in Nat
        /\ advertNum \in Nat /\ Quickest \in Nat /\ Slowest \in Nat
        /\ i \in Nat /\ Quickest <= i /\ i <= Slowest
    BY RoundTypes, Times
  <1>4. Begin(key) \in Nat
    BY <1>3, Begins
  <1>5. /\ advertNum * Quickest \in Nat
        /\ (advertNum + 1) * Quickest = advertNum * Quickest + Quickest
    BY <1>3, Product
  <1>6. /\ keyDue = Begin(key + 1) /\ now <= keyDue
        /\ sendDue + Quickest >= Begin(key) + advertNum * Quickest
        /\ advertNum < AdvN => sendDue <= Begin(key) + advertNum * Slowest
    BY <1>1, PayloadLists DEF TimesInv, RoundInv
  <1>7. D0 \in BeforePayload
    BY PayloadLists
  <1>8. RoundInv'
    <2>1. /\ now' <= sendDue' /\ sendDue' <= now' + Slowest
          /\ now' + Quickest >= Begin(key) + advertNum * Quickest
          /\ sendDue' + Quickest >= Begin(key) + (advertNum + 1) * Quickest
      BY ONLY <1>1, <1>2, <1>3, <1>4, <1>5, <1>6
    <2> QED BY <1>1, <1>6, <1>7, <2>1 DEF RoundInv
  <1>9. AirInv'
    BY <1>1 DEF TimesInv, AirInv
  <1>10. EpochInv'
    BY <1>1 DEF TimesInv, EpochInv, Known, NotBefore
  <1> QED BY <1>8, <1>9, <1>10 DEF TimesInv

LEMMA AdvertGoesOnInTime ==
    ASSUME BT2Inv, TimesInv, ChangeAdvert
    PROVE  TimesInv'
  <1>1. /\ commands # <<>> /\ Head(commands) = "advert" /\ commands' = Tail(commands)
        /\ UNCHANGED <<now, key, sendDue, keyDue, device, epochs, lastKey>>
    BY DEF ChangeAdvert, Done, deviceVars
  <1>2. PICK left : left = Tail(commands)
    OBVIOUS
  <1>3. commands \in BeforePayload /\ commands' \notin BeforePayload
    BY <1>1, <1>2, RoundTypes, AfterCommand, PayloadLists
  <1>4. /\ key \in Nat /\ key # 0 /\ now \in Nat /\ sendDue \in Nat /\ keyDue \in Nat
        /\ advertNum \in Nat /\ advertNum <= AdvN /\ AdvN \in Nat
        /\ Quickest \in Nat /\ Slowest \in Nat
    BY RoundTypes, Times
  <1>5. Begin(key) \in Nat
    BY <1>4, Begins
  <1>6. /\ advertNum * Quickest \in Nat /\ advertNum * Slowest \in Nat
        /\ (advertNum + 1) * Quickest = advertNum * Quickest + Quickest
        /\ (advertNum + 1) * Slowest = advertNum * Slowest + Slowest
    BY <1>4, Product
  <1>7. /\ keyDue = Begin(key + 1) /\ now <= keyDue /\ now <= sendDue /\ sendDue <= now + Slowest
        /\ now + Quickest >= Begin(key) + advertNum * Quickest
        /\ sendDue + Quickest >= Begin(key) + (advertNum + 1) * Quickest
        /\ advertNum < AdvN => now <= Begin(key) + advertNum * Slowest
    BY <1>3 DEF TimesInv, RoundInv
  <1>8. CASE advertNum >= AdvN
    <2>1. UNCHANGED <<adapter, advertNum>>
      BY <1>8 DEF ChangeAdvert, adapterVars
    <2>2. sendDue + Quickest >= Begin(key) + advertNum * Quickest
      BY ONLY <1>4, <1>5, <1>6, <1>7
    <2>3. RoundInv'
      BY <1>1, <1>3, <1>4, <1>7, <1>8, <2>1, <2>2 DEF RoundInv
    <2>4. AirInv'
      BY <1>1, <2>1 DEF TimesInv, AirInv
    <2>5. EpochInv'
      BY <1>1, <2>1 DEF TimesInv, EpochInv, Known, NotBefore
    <2> QED BY <2>3, <2>4, <2>5 DEF TimesInv
  <1>9. CASE advertNum < AdvN
    <2>1. /\ adapter' = [adapter EXCEPT !.eir = [num |-> advertNum, key |-> key]]
          /\ advertNum' = advertNum + 1
      BY <1>4, <1>9 DEF ChangeAdvert, WriteExtInquiryResponse
    <2>2. adapter'.eir = [num |-> advertNum, key |-> key]
      BY <2>1, ReceiverTypes DEF Adapter
    <2>3. Aired(advertNum, key, now)
      <3>1. now <= Begin(key) + (advertNum + 1) * Slowest
        BY ONLY <1>4, <1>5, <1>6, <1>7, <1>9
      <3> QED BY <1>7, <3>1 DEF Aired
    <2>4. sendDue <= Begin(key) + (advertNum + 1) * Slowest
      BY ONLY <1>4, <1>5, <1>6, <1>7, <1>9
    <2>5. RoundInv'
      BY <1>1, <1>3, <1>7, <2>1, <2>4 DEF RoundInv
    <2>6. AirInv'
      BY <1>1, <1>4, <2>1, <2>2, <2>3 DEF AirInv
    <2>7. EpochInv'
      <3>1. SUFFICES ASSUME epochs # <<>> PROVE Known(epochs[1])' /\ NotBefore(epochs[1])'
        BY <1>1 DEF EpochInv
      <3>2. /\ Known(epochs[1]) /\ epochs[1].remote \in Nat /\ epochs[1].lastAdvertNum \in Nat
        BY <3>1, EpochTypes DEF TimesInv, EpochInv
      <3>3. Known(epochs[1])'
        BY <1>1, <1>4, <2>1, <3>2 DEF Known
      <3>4. NotBefore(epochs[1])'
        BY <1>1, <1>4, <2>2, <3>2 DEF NotBefore, Known
      <3> QED BY <3>3, <3>4
    <2> QED BY <2>5, <2>6, <2>7 DEF TimesInv
  <1> QED BY <1>4, <1>8, <1>9

\* Time passes while the radio sleeps, when the adapter has what it was given.
LEMMA TickKeepsTimes ==
    ASSUME BT2Inv, TimesInv, Tick
    PROVE  TimesInv'
  <1>1. /\ SenderIdle /\ commands = <<>>
        /\ UNCHANGED <<adapter, key, advertNum, commands, sendDue, keyDue, device, epochs, lastKey>>
        /\ now' \in Dues /\ now' > now /\ now' <= sendDue /\ now' <= keyDue
    BY DEF Tick, SenderIdle, Dues, adapterVars, senderVars, deviceVars
  <1>2. /\ key \in Nat /\ now \in Nat /\ sendDue \in Nat /\ keyDue \in Nat
        /\ Quickest \in Nat /\ Slowest \in Nat
        /\ advertNum \in Nat /\ AdvN \in Nat
    BY RoundTypes, Times
  <1>3. now' \in Nat
    BY <1>1, Sizes DEF BT2Inv, BT2TypeOK, Dues
  <1>4. commands \notin BeforePayload
    BY <1>1, PayloadLists
  <1>5. /\ keyDue = Begin(key + 1) /\ sendDue <= now + Slowest
        /\ advertNum < AdvN => sendDue <= Begin(key) + advertNum * Slowest
    BY <1>4 DEF TimesInv, RoundInv
  <1>6. RoundInv'
    <2>1. now' <= sendDue' /\ now' <= keyDue' /\ sendDue' = sendDue
      BY <1>1
    <2>2. sendDue <= now' + Slowest
      <3>1. PICK t : t = now'
        OBVIOUS
      <3>2. t \in Nat /\ t > now /\ sendDue <= now + Slowest
        BY <1>1, <1>3, <1>5, <3>1
      <3>3. sendDue <= t + Slowest
        BY ONLY <3>2, <1>2
      <3> QED BY <3>1, <3>3
    <2> QED BY <1>1, <1>4, <2>1, <2>2 DEF TimesInv, RoundInv
  <1>7. AirInv'
    <2>1. SUFFICES ASSUME adapter.eir # Unset
                   PROVE  /\ adapter.eir.key <= key
                          /\ adapter.eir.key = key => adapter.eir.num < advertNum
                          /\ Aired(adapter.eir.num, adapter.eir.key, now')
      BY <1>1 DEF AirInv
    <2>2. /\ adapter.eir.key <= key
          /\ adapter.eir.key = key => adapter.eir.num < advertNum
          /\ Aired(adapter.eir.num, adapter.eir.key, now)
      BY <2>1 DEF TimesInv, AirInv
    <2>3. adapter.eir = [num |-> advertNum - 1, key |-> key]
      <3>1. /\ <<>> \notin BeforeAdvert /\ enablePc = "idle"
        BY <1>1, DoneLists DEF SenderIdle
      <3> QED BY <1>1, <3>1 DEF BT2Inv, CarriedOutInv
    <2>4. PICK n : n = adapter.eir.num
      OBVIOUS
    <2>5. n \in Nat /\ n = advertNum - 1 /\ adapter.eir.key = key
      BY <2>1, <2>3, <2>4, AirTypes
    <2>6. n * Quickest \in Nat /\ Begin(key) \in Nat
      BY <1>2, <2>5, Product, RoundTypes, Begins
    <2>7. now + Quickest >= Begin(key) + n * Quickest
      BY <2>2, <2>4, <2>5 DEF Aired
    <2>8. now' + Quickest >= Begin(key) + n * Quickest
      BY ONLY <1>1, <1>2, <1>3, <2>6, <2>7
    <2>9. ASSUME n < AdvN - 1
          PROVE  now' <= Begin(key) + (n + 1) * Slowest
      <3>1. n + 1 = advertNum /\ advertNum < AdvN
        BY <1>2, <2>5, <2>9
      <3>2. (n + 1) * Slowest \in Nat
        BY <1>2, <2>5, Product
      <3>3. sendDue <= Begin(key) + (n + 1) * Slowest
        BY <1>5, <3>1
      <3> QED BY ONLY <1>1, <1>2, <1>3, <2>6, <3>2, <3>3
    <2>10. Aired(n, key, now')
      BY <1>1, <1>5, <2>8, <2>9 DEF Aired
    <2> QED BY <2>2, <2>4, <2>5, <2>10
  <1>8. EpochInv'
    BY <1>1 DEF TimesInv, EpochInv, Known, NotBefore
  <1> QED BY <1>6, <1>7, <1>8 DEF TimesInv

-----------------------------------------------------------------------------
(***************************************************************************)
(* What the receiver makes of an advertisement.                            *)
(***************************************************************************)
LEMMA AdvertIsAttributed ==
    ASSUME BT2Inv, TimesInv, ProcessEIRResponse
    PROVE  /\ TimesInv'
           /\ epochs # <<>> => (epochs' = epochs <=> lastKey' = epochs[1].remote)
  <1>1. PICK n, remote : n = adapter.eir.num /\ remote = adapter.eir.key
    OBVIOUS
  <1>2. /\ adapter.eir # Unset /\ ProcessAdvert(n, remote)
        /\ device' = adapter.address /\ lastKey' = remote
        /\ UNCHANGED <<now, adapter, senderVars>>
    BY <1>1 DEF ProcessEIRResponse, adapterVars
  <1>3. UNCHANGED <<key, advertNum, commands, sendDue, keyDue>>
    BY <1>2 DEF senderVars
  <1>4. /\ n \in AdvertNum /\ n \in Nat /\ remote \in Nat /\ remote # 0
        /\ remote = adapter.address /\ remote \in PublicAddress /\ now \in Nat
    BY <1>1, <1>2, AirTypes, RoundTypes
  <1>5. remote <= key /\ (remote = key => n < advertNum) /\ Aired(n, remote, now)
    BY <1>1, <1>2 DEF TimesInv, AirInv
  <1>6. PICK fresh : fresh = [lastAdvertNum |-> n, lastAdvertTime |-> now, remote |-> remote]
    OBVIOUS
  \* What there is of the device is kept, or a new epoch started.
  <1>7. \/ /\ IsKnown /\ epochs # <<>> /\ epochs' = epochs
           /\ IsDuplicate(epochs[1], n) \/ IsCurrent(epochs[1], n)
        \/ /\ epochs' = <<fresh>>
           /\ \/ ~IsKnown \/ epochs = <<>>
              \/ ~IsDuplicate(epochs[1], n) /\ ~IsCurrent(epochs[1], n)
    BY <1>2, <1>6 DEF ProcessAdvert
  <1>8. RoundInv' /\ AirInv'
    BY <1>2, <1>3 DEF TimesInv, RoundInv, AirInv
  <1>9. <<fresh>> # <<>> /\ <<fresh>>[1] = fresh
    OBVIOUS
  <1>10. ASSUME epochs # <<>>
         PROVE  epochs' = epochs <=> remote = epochs[1].remote
    <2>1. PICK e : e = epochs[1]
      OBVIOUS
    <2>2. /\ e \in DeviceEpoch /\ e.remote \in Nat /\ e.remote # 0
          /\ e.lastAdvertNum \in AdvertNum /\ e.lastAdvertTime \in Nat
      BY <1>10, <2>1, EpochTypes
    <2>3. Known(e) /\ NotBefore(e)
      BY <1>10, <2>1 DEF TimesInv, EpochInv
    <2>4. e.remote <= remote /\ (remote = e.remote => e.lastAdvertNum <= n)
      BY <1>1, <1>2, <2>3 DEF NotBefore
    <2>5. Aired(e.lastAdvertNum, e.remote, e.lastAdvertTime) /\ device = e.remote
      BY <2>3 DEF Known
    <2>6. CASE remote = e.remote
      <3>1. IsKnown
        BY <1>4, <2>2, <2>5, <2>6, Payloads DEF IsKnown
      <3>2. IsDuplicate(e, n) \/ IsCurrent(e, n)
        BY <1>4, <1>5, <2>2, <2>4, <2>5, <2>6, SameIsTold
      <3> QED BY <1>7, <1>10, <2>1, <2>6, <3>1, <3>2
    <2>7. CASE remote # e.remote
      <3>1. e.remote < remote
        BY <1>4, <2>2, <2>4, <2>7
      <3>2. ~IsDuplicate(e, n) /\ ~IsCurrent(e, n)
        BY <1>4, <1>5, <2>2, <2>5, <3>1, LaterIsTold
      <3>3. epochs' = <<fresh>>
        BY <1>7, <2>1, <3>2
      <3>4. fresh # e
        BY <1>6, <2>7
      <3>5. epochs' # epochs
        BY <1>9, <2>1, <3>3, <3>4
      <3> QED BY <2>1, <2>7, <3>5
    <2> QED BY <2>6, <2>7
  <1>11. EpochInv'
    <2>1. CASE epochs' = <<fresh>>
      <3>1. epochs'[1] = fresh
        BY <1>9, <2>1
      <3>2. Known(epochs[1])'
        BY <1>2, <1>3, <1>4, <1>5, <1>6, <3>1 DEF Known
      <3>3. NotBefore(epochs[1])'
        BY <1>1, <1>2, <1>4, <1>6, <3>1 DEF NotBefore
      <3> QED BY <3>2, <3>3 DEF EpochInv
    <2>2. CASE epochs # <<>> /\ epochs' = epochs
      <3>1. Known(epochs[1]) /\ NotBefore(epochs[1])
        BY <2>2 DEF TimesInv, EpochInv
      <3>2. remote = epochs[1].remote
        BY <1>10, <2>2
      <3>3. Known(epochs[1])'
        BY <1>2, <1>3, <1>4, <2>2, <3>1, <3>2 DEF Known
      <3>4. NotBefore(epochs[1])'
        BY <1>2, <2>2, <3>1 DEF NotBefore
      <3> QED BY <3>3, <3>4 DEF EpochInv
    <2> QED BY <1>7, <2>1, <2>2
  <1> QED BY <1>2, <1>8, <1>10, <1>11 DEF TimesInv

-----------------------------------------------------------------------------
LEMMA InitTimes ==
    ASSUME BT2Init
    PROVE  TimesInv
  <1>1. /\ now = 1 /\ key = 1 /\ advertNum = 0 /\ sendDue = 1 + FirstDiscover
        /\ keyDue = 1 + EpochInterval /\ commands = I0 /\ epochs = <<>> /\ adapter.eir = Unset
    BY ListTypes DEF BT2Init, AdapterInit
  <1>2. /\ EpochInterval \in Nat /\ FirstDiscover \in Nat /\ FirstDiscover <= Slowest
        /\ Quickest \in Nat /\ Slowest \in Nat
    BY Sizes, Times
  <1>3. /\ 0 * Quickest = 0 /\ (0 + 1) * Quickest = Quickest /\ 0 * Slowest = 0
        /\ 0 * EpochInterval = 0 /\ 1 * EpochInterval = EpochInterval
    BY <1>2, Product
  <1>4. Begin(1) = 1 /\ Begin(1 + 1) = 1 + EpochInterval
    BY <1>3 DEF Begin
  <1>5. I0 \in BeforePayload
    BY PayloadLists
  <1>6. RoundInv
    BY <1>1, <1>2, <1>3, <1>4, <1>5 DEF RoundInv
  <1>7. AirInv /\ EpochInv
    BY <1>1 DEF AirInv, EpochInv
  <1> QED BY <1>6, <1>7 DEF TimesInv

LEMMA StepTimes ==
    ASSUME BT2Inv, TimesInv, [BT2Next]_bt2Vars
    PROVE  /\ TimesInv'
           /\ epochs # <<>> /\ epochs' # <<>> => (epochs' = epochs <=> lastKey' = epochs[1].remote)
  <1>1. ASSUME epochs' = <<>> \/ UNCHANGED <<epochs, lastKey>>
        PROVE  epochs # <<>> /\ epochs' # <<>> => (epochs' = epochs <=> lastKey' = epochs[1].remote)
    BY <1>1 DEF TimesInv, EpochInv, Known
  <1>2. CASE SenderChangesEpoch
    BY <1>1, <1>2, EpochStartsInTime DEF SenderChangesEpoch, deviceVars
  <1>3. CASE SenderDiscovers
    BY <1>1, <1>3, RoundStartsInTime DEF SenderDiscovers, deviceVars
  <1>4. CASE ChangeAdvert
    BY <1>1, <1>4, AdvertGoesOnInTime DEF ChangeAdvert, deviceVars
  <1>5. CASE Command
    BY <1>1, <1>5, CommandKeepsTimes DEF Command, deviceVars
  <1>6. CASE SenderFails
    <2>1. UNCHANGED <<now, senderVars, deviceVars, adapter>>
      BY <1>6 DEF SenderFails, CommandFails
    <2> QED BY <1>1, <2>1, OthersKeepTimes DEF senderVars, deviceVars
  <1>7. CASE SetPublicAddress
    BY <1>1, <1>7, ResetKeepsTimes DEF SetPublicAddress, deviceVars
  <1>8. CASE StartInquiry
    <2>1. UNCHANGED <<now, senderVars, deviceVars, adapter>>
      BY <1>8 DEF StartInquiry, adapterVars
    <2> QED BY <1>1, <2>1, OthersKeepTimes DEF senderVars, deviceVars
  <1>9. CASE ProcessEIRResponse
    BY <1>9, AdvertIsAttributed
  <1>10. CASE EndInquiry
    <2>1. UNCHANGED <<now, senderVars, adapter>>
          /\ (epochs' = <<>> \/ UNCHANGED deviceVars)
      BY <1>10 DEF EndInquiry, adapterVars
    <2> QED BY <1>1, <2>1, OthersKeepTimes DEF senderVars, deviceVars
  <1>11. CASE ReceiverChangesEpoch
    <2>1. UNCHANGED <<now, senderVars, device, epochs, lastKey, adapter>>
      BY <1>11 DEF ReceiverChangesEpoch, adapterVars
    <2> QED BY <1>1, <2>1, OthersKeepTimes DEF senderVars
  <1>12. CASE Tick
    BY <1>1, <1>12, TickKeepsTimes DEF Tick, deviceVars
  <1>13. CASE UNCHANGED bt2Vars
    <2>1. UNCHANGED <<now, senderVars, deviceVars, adapter>>
      BY <1>13 DEF bt2Vars, adapterVars
    <2> QED BY <1>1, <2>1, OthersKeepTimes DEF senderVars, deviceVars
  <1> QED BY <1>2, <1>3, <1>4, <1>5, <1>6, <1>7, <1>8, <1>9, <1>10, <1>11, <1>12, <1>13 DEF BT2Next

-----------------------------------------------------------------------------
(***************************************************************************)
(* The variables have their types: an advertisement number stays below     *)
(* ADV_N on the air, every epoch of a run has an address, and the device   *)
(* of EbNRadioBT2::processEpochs keeps one epoch.                          *)
(***************************************************************************)
THEOREM BT2Types == BT2Spec => []BT2TypeOK
  <1>1. BT2Inv => BT2TypeOK
    BY DEF BT2Inv
  <1> QED BY <1>1, BT2InvAlways, PTL

(***************************************************************************)
(* When the radio goes back to sleep, the adapter is up, with the address  *)
(* and the payload of the current key, and can be found and connected to:  *)
(* whatever setPublicAddress caught and tried again, and whatever the      *)
(* power going off made the controller forget.                             *)
(***************************************************************************)
THEOREM AdapterIsSet == BT2Spec => []AdapterIsAsKnown
  <1>1. BT2Inv => AdapterIsAsKnown
    <2> SUFFICES ASSUME BT2Inv, SenderIdle PROVE AdapterIsAsKnown
      BY DEF AdapterIsAsKnown
    <2>1. commands = <<>> /\ enablePc = "idle"
      BY DEF SenderIdle
    <2>2. /\ <<>> \notin BeforeAddress /\ <<>> \notin BeforeAdvert /\ <<>> \notin BeforeMode
          /\ <<>> \notin BeforeShow /\ <<>> \notin BeforeConnect
      BY DoneLists
    <2> QED BY <2>1, <2>2 DEF BT2Inv, CarriedOutInv, AdapterIsAsKnown
  <1> QED BY <1>1, BT2InvAlways, PTL

(***************************************************************************)
(* The Y bit processAdvert takes from the address is that of the key whose *)
(* X value is in the payload, at whichever command of changeEpoch the      *)
(* inquiry is answered.                                                    *)
(***************************************************************************)
THEOREM SecretsAreOfOneKey == BT2Spec => []SecretsHaveTheirY
  <1>1. BT2Inv => SecretsHaveTheirY
    BY DEF BT2Inv
  <1> QED BY <1>1, BT2InvAlways, PTL

(***************************************************************************)
(* The windows of processAdvert take every advertisement of a key for one  *)
(* of the epoch already held and none of any later key for it, whatever    *)
(* the rounds draw, however many advertisements, or whole epochs, were not *)
(* heard, and however long the number ADV_N - 1 stays on the air.          *)
(***************************************************************************)
THEOREM AdvertsStayAttributed == BT2Spec => AdvertsAreAttributed
  <1>1. BT2Init => BT2Inv /\ TimesInv
    BY InitBT2Inv, InitTimes
  <1>2. BT2Inv /\ TimesInv /\ [BT2Next]_bt2Vars =>
          /\ (BT2Inv /\ TimesInv)'
          /\ [epochs # <<>> /\ epochs' # <<>> =>
                 (epochs' = epochs <=> lastKey' = epochs[1].remote)]_bt2Vars
    BY StepBT2Inv, StepTimes
  <1> QED BY <1>1, <1>2, PTL DEF BT2Spec, AdvertsAreAttributed
=============================================================================
