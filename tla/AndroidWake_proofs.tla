------------------------- MODULE AndroidWake_proofs -------------------------
(***************************************************************************)
(* What holds of the sleep over AWakeService for any durations and any     *)
(* number of restarts.                                                     *)
(***************************************************************************)
EXTENDS AndroidWake, TLAPS

(***************************************************************************)
(* A sleep that ends too soon has ended behind a lost connection, which    *)
(* stays lost until the daemon is killed.  From then on no read is waited  *)
(* for, so that an action is only reached when its time has come.          *)
(***************************************************************************)
WakeTypes == slept \in Nat /\ msToSleep \in Nat /\ early \in Nat

FirstEarly == dpc = "act" /\ slept < msToSleep => conn = "closed" /\ early = 0

LaterNone ==
    /\ dpc = "connect" => early = 0
    /\ early # 0 => early = 1 /\ conn = "closed" /\ dpc # "read"

WakeInv == WakeTypes /\ FirstEarly /\ LaterNone

LEMMA InitWakeInv == WakeInit => WakeInv
  BY DEF WakeInit, WakeInv, WakeTypes, FirstEarly, LaterNone

\* One step, by what becomes of the connection and of the sleep.
LEMMA StepWakeInv ==
    ASSUME WakeInv, [WakeNext]_wakeVars
    PROVE  WakeInv'
  <1> USE DEF WakeInv, WakeTypes, FirstEarly, LaterNone
  <1>1. CASE Connect
    BY <1>1 DEF Connect
  <1>2. CASE RequestAWakeSleep
    <2>1. msToSleep' \in Nat /\ slept' = 0
      BY <1>2, AndroidWakeAssumption DEF RequestAWakeSleep
    <2> QED BY <1>2, <2>1 DEF RequestAWakeSleep
  <1>3. CASE Sleep
    <2>1. UNCHANGED <<msToSleep, slept, conn, early>> /\ dpc = "sleep"
      BY <1>3 DEF Sleep
    <2>2. \/ slept >= msToSleep /\ dpc' = "act"
          \/ conn # "closed" /\ dpc' = "read"
          \/ dpc' = "ended"
      BY <1>3 DEF Sleep
    <2> QED BY <2>1, <2>2
  <1>4. CASE Read
    BY <1>4 DEF Read
  <1>5. CASE Act
    BY <1>5 DEF Act
  <1>6. CASE Kill
    BY <1>6 DEF Kill
  <1>7. CASE Tick
    <2>1. slept' \in Nat /\ slept <= slept'
      BY <1>7 DEF Tick
    <2> QED BY <1>7, <2>1 DEF Tick
  <1>8. CASE Accept \/ Serve \/ OnDestroy
    BY <1>8 DEF Accept, Serve, OnDestroy
  <1>9. CASE Start \/ ReadRequest \/ EndConnection \/ AlarmFires \/ OnReceive
    BY <1>9 DEF Start, ReadRequest, EndConnection, AlarmFires, OnReceive, daemonVars
  <1>10. CASE UNCHANGED wakeVars
    BY <1>10 DEF wakeVars, daemonVars
  <1> QED BY <1>1, <1>2, <1>3, <1>4, <1>5, <1>6, <1>7, <1>8, <1>9, <1>10 DEF WakeNext, Service

\* The controller acts before its time only after the connection to the service
\* is lost, and then once: whatever restarts and late broadcasts do.
THEOREM EarlyOnlyOnce == WakeSpec => []EarlyOnceWhenLost
  <1>1. WakeInv /\ [WakeNext]_wakeVars => WakeInv'
    BY StepWakeInv
  <1>2. WakeInv => EarlyOnceWhenLost
    BY DEF WakeInv, LaterNone, EarlyOnceWhenLost
  <1> QED BY <1>1, <1>2, InitWakeInv, PTL DEF WakeSpec
=============================================================================
