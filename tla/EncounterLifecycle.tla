------------------------- MODULE EncounterLifecycle -------------------------
(***************************************************************************)
(* What the application is promised: for every device id the events come   *)
(* in one order.  An encounter is announced once, unconfirmed; it starts   *)
(* at most once, when keys were confirmed; it is then updated any number   *)
(* of times; it ends once, and nothing is ever told of the id again.       *)
(*                                                                         *)
(* Where other devices may come to us (active confirmation), an encounter  *)
(* need not have been announced.                                           *)
(***************************************************************************)
CONSTANTS DeviceID,
          Incoming    \* TRUE: devices may be met without being announced

VARIABLE told         \* the type of the last event told of each id

Init == told = [id \in DeviceID |-> "none"]

NotStarted == IF Incoming THEN {"none", "UnconfirmedStarted"} ELSE {"UnconfirmedStarted"}
Open       == NotStarted \cup {"Started", "Updated"}

Tell(id, from, type) ==
    /\ told[id] \in from
    /\ told' = [told EXCEPT ![id] = type]

Announce(id) == Tell(id, {"none"}, "UnconfirmedStarted")
Start(id)    == Tell(id, NotStarted, "Started")
Update(id)   == Tell(id, {"Started", "Updated"}, "Updated")
End(id)      == Tell(id, Open, "Ended")

Next == \E id \in DeviceID : Announce(id) \/ Start(id) \/ Update(id) \/ End(id)

Spec == Init /\ [][Next]_told
=============================================================================
