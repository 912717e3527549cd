-------------------------- MODULE BluetoothAdapter --------------------------
(***************************************************************************)
(* The Bluetooth 2.1 adapter as BluetoothHCI and AndroidBluetooth drive    *)
(* it.  A public address only changes by taking the adapter down, writing  *)
(* the address to a file and bringing it up again, with everything that    *)
(* was set before lost: the payload, the inquiry mode and the scan flags.  *)
(*                                                                         *)
(* Any part of it may fail.  What bt_enable throws is caught and tried     *)
(* again; what bt_disable or an HCI command throws ends the process.       *)
(* A command takes no time here, and an address is the number of the key   *)
(* it was made for.                                                        *)
(***************************************************************************)
EXTENDS Naturals

CONSTANTS Unset,
          PublicAddress,  \* the addresses the adapter can have
          Payload         \* the extended inquiry responses it can carry

\* What the constants have to be.
ASSUME AdapterAssumption == Unset \notin PublicAddress \cup Payload

VARIABLES
    adapter,          \* what is switched on, and what the controller holds
    addressFile,      \* the file ro.bt.bdaddr_path names
    lastKnownState,   \* lastKnownState_, of the two scan flags
    enablePc          \* where setPublicAddress is, or "idle", or "crashed"

adapterVars == <<adapter, addressFile, lastKnownState, enablePc>>

Parts == {"powered", "hciattach", "up", "bluetoothd"}

Adapter ==
    [on : SUBSET Parts,
     address : PublicAddress \cup {Unset}, eir : Payload \cup {Unset},
     mode : {"Standard", "WithRSSIAndEIR"},
     discoverable : BOOLEAN, connectable : BOOLEAN]

EnableSteps == {"disable", "power", "hciattach", "up", "bluetoothd", "check", "catch"}

AdapterTypeOK ==
    /\ adapter \in Adapter
    /\ addressFile \in PublicAddress \cup {Unset}
    /\ lastKnownState \in [discoverable : BOOLEAN, connectable : BOOLEAN]
    /\ enablePc \in EnableSteps \cup {"idle", "crashed"}

\* The constructor finds the adapter up, in whatever state it was left, and
\* reads its scan flags.
AdapterInit ==
    /\ \E d, c \in BOOLEAN :
         /\ adapter = [on |-> Parts, address |-> Unset, eir |-> Unset, mode |-> "Standard",
                       discoverable |-> d, connectable |-> c]
         /\ lastKnownState = [discoverable |-> d, connectable |-> c]
    /\ addressFile = Unset
    /\ enablePc = "idle"

-----------------------------------------------------------------------------
(***************************************************************************)
(* Commands to a controller that is up.  Each returns the adapter and what *)
(* is known of it afterwards.                                              *)
(***************************************************************************)
SetScan(state) ==
    /\ lastKnownState' = state
    /\ adapter' = [adapter EXCEPT !.discoverable = state.discoverable,
                                  !.connectable = state.connectable]
    /\ UNCHANGED <<addressFile, enablePc>>

SetDiscoverable(value) == SetScan([lastKnownState EXCEPT !.discoverable = value])

SetConnectable(value) == SetScan([lastKnownState EXCEPT !.connectable = value])

SetInquiryMode ==
    /\ adapter' = [adapter EXCEPT !.mode = "WithRSSIAndEIR"]
    /\ UNCHANGED <<addressFile, lastKnownState, enablePc>>

WriteExtInquiryResponse(payload) ==
    /\ adapter' = [adapter EXCEPT !.eir = payload]
    /\ UNCHANGED <<addressFile, lastKnownState, enablePc>>

\* LOG_E_BT_CRASH throws, and nothing on the controller thread catches.
CommandFails ==
    /\ enablePc' = "crashed"
    /\ UNCHANGED <<adapter, addressFile, lastKnownState>>

-----------------------------------------------------------------------------
(***************************************************************************)
(* setPublicAddress: bt_disable, the file, and bt_enable until it works.   *)
(***************************************************************************)
\* Without power, or without hciattach, there is no interface, and a
\* controller that lost its power has forgotten all it was told.
Without(parts) ==
    LET left == adapter.on \ parts
        on   == IF {"powered", "hciattach"} \subseteq left THEN left ELSE left \ {"up"}
    IN  IF "up" \in on THEN [adapter EXCEPT !.on = on]
        ELSE [adapter EXCEPT !.on = on, !.eir = Unset, !.mode = "Standard",
                             !.discoverable = FALSE, !.connectable = FALSE]

With(part) == [adapter EXCEPT !.on = @ \cup {part}]

StartSetPublicAddress ==
    /\ enablePc = "idle"
    /\ enablePc' = "disable"
    /\ UNCHANGED <<adapter, addressFile, lastKnownState>>

\* bt_disable stops bluetoothd, then hciattach, then the power.
BtDisable == adapter' = Without({"bluetoothd", "hciattach", "powered"})

BtDisableThrows ==
    /\ adapter' \in {adapter, Without({"bluetoothd"}), Without({"bluetoothd", "hciattach"})}
    /\ enablePc' = "crashed"

Disable(address) ==
    /\ enablePc = "disable"
    /\ \/ BtDisable /\ addressFile' = address /\ enablePc' = "power"
       \/ BtDisableThrows /\ UNCHANGED addressFile
    /\ UNCHANGED lastKnownState

\* The catch: a bt_disable of its own, which nobody catches.
Catch ==
    /\ enablePc = "catch"
    /\ \/ BtDisable /\ enablePc' = "power"
       \/ BtDisableThrows
    /\ UNCHANGED <<addressFile, lastKnownState>>

\* bt_enable gives up.  A step that fails undoes those before it, as far as
\* that does not throw in its turn.
Undone == {adapter, Without({"hciattach"}), Without({"hciattach", "powered"})}

Throws(after) == adapter' \in after /\ enablePc' = "catch"

PowerOn ==
    /\ enablePc = "power"
    /\ \/ adapter' = With("powered") /\ enablePc' = "hciattach"
       \/ Throws({adapter})
    /\ UNCHANGED <<addressFile, lastKnownState>>

StartHCIAttach ==
    /\ enablePc = "hciattach"
    /\ \/ adapter' = With("hciattach") /\ enablePc' = "up"
       \/ Throws({adapter, Without({"powered"})})
    /\ UNCHANGED <<addressFile, lastKnownState>>

\* Up at some attempt (or found up already), or down at every one of them.
\* The firmware takes its address from the file.
IoctlUp ==
    /\ enablePc = "up"
    /\ \/ adapter' = [With("up") EXCEPT !.address = addressFile] /\ enablePc' = "bluetoothd"
       \/ Throws(Undone)
    /\ UNCHANGED <<addressFile, lastKnownState>>

\* The daemon may set the scan flags as its own configuration has it.
StartBluetoothd ==
    /\ enablePc = "bluetoothd"
    /\ \/ /\ \E d, c \in BOOLEAN :
               adapter' = [With("bluetoothd") EXCEPT !.discoverable = d, !.connectable = c]
          /\ enablePc' = "check"
       \/ Throws(Undone)
    /\ UNCHANGED <<addressFile, lastKnownState>>

\* Bug: what bt_is_enabled finds is not looked at.
BugBtIsEnabled ==
    /\ enablePc = "check"
    /\ enablePc' = "idle"
    /\ adapter' \in {adapter, Without({"up"}), Without({"powered"})}
    /\ UNCHANGED <<addressFile, lastKnownState>>

\* bt_is_enabled, a second later.
BtIsEnabled ==
    /\ enablePc = "check"
    /\ \/ UNCHANGED adapter /\ enablePc' = "idle"
       \/ Throws({adapter, Without({"up"}), Without({"powered"})})
    /\ UNCHANGED <<addressFile, lastKnownState>>

BtEnable == PowerOn \/ StartHCIAttach \/ IoctlUp \/ StartBluetoothd \/ BtIsEnabled \/ Catch
=============================================================================
