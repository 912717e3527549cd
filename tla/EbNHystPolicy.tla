---------------------------- MODULE EbNHystPolicy ----------------------------
(***************************************************************************)
(* EbNHystPolicy: which discovered devices are stable enough to shake      *)
(* hands with, and when an encounter is over.                              *)
(***************************************************************************)
EXTENDS EbNDeviceMap

CONSTANTS HystScheme,    \* "Standard", "Immediate" or "ImmediateNoMem"
          MinStartTime,  \* minStartTime_
          MaxStartTime,  \* maxStartTime_
          StartSeen,     \* startSeen_
          EndTime        \* endTime_

DeviceInfo ==
    [state     : {"Discovered", "Encountered"},
     firstTime : Nat,
     lastTime  : Nat,
     seen      : Nat]

ASSUME HystAssumption ==
    /\ HystScheme \in {"Standard", "Immediate", "ImmediateNoMem"}
    /\ {MinStartTime, MaxStartTime, StartSeen, EndTime} \subseteq Nat
    /\ NULL \notin DeviceInfo

VARIABLE deviceInfo      \* deviceInfo_; NULL where the map has no entry

HystTypeOK ==
    deviceInfo \in [DeviceID -> DeviceInfo \cup {NULL}]

HystInit == deviceInfo = [id \in DeviceID |-> NULL]

Known == {id \in DeviceID : deviceInfo[id] # NULL}

\* The test in the code is !(scheme & ImmediateNoMem), with Immediate = 1 and
\* ImmediateNoMem = 3: Immediate has no memory either.
HasMemory == HystScheme = "Standard"

NewInfo(state, time) ==
    [state |-> state, firstTime |-> time, lastTime |-> time, seen |-> 0]

-----------------------------------------------------------------------------
(***************************************************************************)
(* discovered(): events is the sequence of [id, strong] of one scan, where *)
(* strong is rssi > rssiThreshold_.  All of it happens at one time, and    *)
(* seen only grows, so the loop's result for a device depends on how often *)
(* it was heard and not on the order.                                      *)
(***************************************************************************)
HeardIn(events) == {events[i].id : i \in DOMAIN events}

StrongIn(events, id) ==
    Cardinality({i \in DOMAIN events : events[i].id = id /\ events[i].strong})

TimesIn(events, id) == Cardinality({i \in DOMAIN events : events[i].id = id})

\* Bug: seen often, or over a long time.
BugIsStableEither(info, time) ==
    info.seen >= StartSeen \/ Elapsed(time, info.firstTime) >= MinStartTime

IsStable(info, time) ==
    info.seen >= StartSeen /\ Elapsed(time, info.firstTime) >= MinStartTime

InfoAfter(events, id, time) ==
    LET old  == IF deviceInfo[id] = NULL THEN NewInfo("Discovered", time)
                                         ELSE deviceInfo[id]
        info == [old EXCEPT !.lastTime = time, !.seen = @ + StrongIn(events, id)]
    IN  IF IsStable(info, time) THEN [info EXCEPT !.state = "Encountered"] ELSE info

AfterDiscovered(events, time) ==
    IF HasMemory
    THEN [id \in DeviceID |->
            IF id \in HeardIn(events) THEN InfoAfter(events, id, time)
                                      ELSE deviceInfo[id]]
    ELSE deviceInfo

\* newlyDiscovered, as a bag: without memory every response is one.
NewlyDiscovered(events) ==
    [id \in DeviceID |->
        IF HasMemory
        THEN IF id \in HeardIn(events) /\ id \notin Known THEN 1 ELSE 0
        ELSE TimesIn(events, id)]

\* The devices discovered() selects for a handshake.
Selected(events, time) ==
    IF HasMemory
    THEN {id \in HeardIn(events) :
            AfterDiscovered(events, time)[id].state = "Encountered"}
    ELSE HeardIn(events)

\* Bug: a device that was never discovered is not inserted.
BugEncounteredKnown(ids, time) ==
    [id \in DeviceID |->
        IF id \in ids \cap Known THEN [deviceInfo[id] EXCEPT !.state = "Encountered"]
                                 ELSE deviceInfo[id]]

\* encountered(): lastTime is not refreshed.
AfterEncountered(ids, time) ==
    [id \in DeviceID |->
        IF id \notin ids THEN deviceInfo[id]
        ELSE IF id \in Known THEN [deviceInfo[id] EXCEPT !.state = "Encountered"]
        ELSE NewInfo("Encountered", time)]

\* Bug: measured from the first time.
BugExpiredFromFirst(info, time) ==
    \/ info.state = "Discovered"  /\ Elapsed(time, info.firstTime) > MaxStartTime
    \/ info.state = "Encountered" /\ Elapsed(time, info.firstTime) > EndTime

\* Bug: devices that were only discovered stay.
BugExpiredEncountered(info, time) ==
    info.state = "Encountered" /\ Elapsed(time, info.lastTime) > EndTime

\* checkExpired()
IsExpired(info, time) ==
    \/ info.state = "Discovered"  /\ Elapsed(time, info.lastTime) > MaxStartTime
    \/ info.state = "Encountered" /\ Elapsed(time, info.lastTime) > EndTime

Expired(time) == {id \in Known : IsExpired(deviceInfo[id], time)}

\* Bug: the entries are not erased.
BugForgetNothing(ids) == deviceInfo

Forget(ids) == [id \in DeviceID |-> IF id \in ids THEN NULL ELSE deviceInfo[id]]
=============================================================================
