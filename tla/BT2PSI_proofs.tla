---------------------------- MODULE BT2PSI_proofs ----------------------------
(***************************************************************************)
(* That the two scripts of an intersection session fit, for any number of  *)
(* nodes, discoveries and connections: of a stream that was not torn, what *)
(* a side has not received yet is what the other one has sent beyond it.   *)
(***************************************************************************)
EXTENDS BT2PSI, TLAPS

(***************************************************************************)
(* The messages that go to a side, in order, and how many of them a side   *)
(* has sent, and received, when it is at step k of its script.             *)
(***************************************************************************)
Stream(side) ==
    IF side = "listener"
    THEN <<"public", "request", "published", "response">>
    ELSE <<"public", "published", "response", "request">>

Sent(side, k) ==
    IF side = "connector" THEN <<0, 1, 1, 1, 2, 2, 3, 3, 4>>[k]
                          ELSE <<0, 1, 1, 2, 2, 3, 3, 4, 4>>[k]

Received(side, k) ==
    IF side = "connector" THEN <<0, 0, 1, 2, 2, 3, 3, 4, 4>>[k]
                          ELSE <<0, 0, 1, 1, 2, 2, 3, 3, 4>>[k]

\* What is in the inbox of an end that is open, of a stream that is whole.
InboxFits(conn, side) ==
    LET received == Received(side, conn.at[side])
        sent     == Sent(Other(side), conn.at[Other(side)])
    IN  /\ received <= sent
        /\ Len(conn.inbox[side]) = IF conn.open[side] THEN sent - received ELSE 0
        /\ \A i \in 1 .. Len(conn.inbox[side]) :
             conn.inbox[side][i] = Stream(side)[received + i]

Fits(conn) == conn.torn \/ \A side \in Side : InboxFits(conn, side)

ConnsInv == \A c \in DOMAIN conns : Fits(conns[c])

\* Where a thread has a connection, and whom the main thread is to meet.
ThreadsInv ==
    \A n \in Node :
        /\ pc[n] \in {"connect", "session", "wait"} => peer[n] \in Node
        /\ pc[n] \in {"session", "wait"} => socket[n] \in DOMAIN conns
        /\ lpc[n] \in {"insert", "session"} => client[n] \in DOMAIN conns
        /\ \A m \in toHandshake[n] : known[n][m] \in Epoch

PSIInv == PSITypeOK /\ ThreadsInv /\ ConnsInv
-----------------------------------------------------------------------------
(***************************************************************************)
(* The scripts.                                                            *)
(***************************************************************************)
LEMMA Others ==
    /\ Side = {"connector", "listener"}
    /\ Other("connector") = "listener" /\ Other("listener") = "connector"
  BY DEF Side, Other

LEMMA ScriptLengths ==
    ASSUME NEW side \in Side
    PROVE  Len(Script(side)) = 8 /\ DOMAIN Script(side) = 1 .. 8
  BY DEF Script, ConnectorScript, ListenerScript

\* One more step is one message more sent, or received; it is the next one of
\* the stream it belongs to.
LEMMA ScriptStep ==
    ASSUME NEW side \in Side, NEW k \in 1 .. 8
    PROVE  /\ Script(side)[k].message \in Message
           /\ Script(side)[k].op = "send" =>
                /\ Sent(side, k + 1) = Sent(side, k) + 1
                /\ Received(side, k + 1) = Received(side, k)
                /\ Script(side)[k].message = Stream(Other(side))[Sent(side, k) + 1]
           /\ Script(side)[k].op = "recv" =>
                /\ Sent(side, k + 1) = Sent(side, k)
                /\ Received(side, k + 1) = Received(side, k) + 1
                /\ Script(side)[k].message = Stream(side)[Received(side, k) + 1]
  <1> USE DEF Script, ConnectorScript, ListenerScript, Send, Recv, Message, Sent, Received, Stream
  <1>1. CASE side = "connector"
    <2>1. \/ k = 1 \/ k = 2 \/ k = 3 \/ k = 4 \/ k = 5 \/ k = 6 \/ k = 7 \/ k = 8
      OBVIOUS
    <2> QED BY <1>1, <2>1, Others
  <1>2. CASE side = "listener"
    <2>1. \/ k = 1 \/ k = 2 \/ k = 3 \/ k = 4 \/ k = 5 \/ k = 6 \/ k = 7 \/ k = 8
      OBVIOUS
    <2> QED BY <1>2, <2>1, Others
  <1> QED BY <1>1, <1>2 DEF Side

LEMMA Counts ==
    ASSUME NEW side \in Side, NEW k \in 1 .. 9
    PROVE  Sent(side, k) \in 0 .. 4 /\ Received(side, k) \in 0 .. 4
  BY DEF Side, Sent, Received

LEMMA AtTheStart ==
    ASSUME NEW side \in Side
    PROVE  Sent(side, 1) = 0 /\ Received(side, 1) = 0
  BY DEF Side, Sent, Received

\* Only the last step of the listener completes its stream.
LEMMA AtTheEnd ==
    /\ ResultStep("connector") = 5 /\ ResultStep("listener") = 8
    /\ \A k \in 1 .. 9 : Received("listener", k) = 4 => k = 9
    /\ Received("listener", 9) = 4
    /\ \A k \in 1 .. 9 : Sent("connector", k) = 4 => k = 9
  <1>1. ResultStep("connector") = 5
    BY DEF ResultStep, Script, ConnectorScript, Send, Recv
  <1>2. ResultStep("listener") = 8
    BY DEF ResultStep, Script, ListenerScript, Send, Recv
  <1> QED BY <1>1, <1>2 DEF Sent, Received

\* As long as the stream is not at its end, the script goes on to receive it.
LEMMA NextToReceive ==
    ASSUME NEW side \in Side, NEW k \in 1 .. 9, Received(side, k) < 4
    PROVE  \E i \in k .. 8 :
             /\ Script(side)[i].op = "recv"
             /\ Script(side)[i].message = Stream(side)[Received(side, k) + 1]
             /\ \A j \in k .. 8 : Script(side)[j].op = "recv" => i <= j
  <1>1. \/ k = 1 \/ k = 2 \/ k = 3 \/ k = 4 \/ k = 5 \/ k = 6 \/ k = 7 \/ k = 8 \/ k = 9
    OBVIOUS
  <1> USE DEF Script, ConnectorScript, ListenerScript, Send, Recv, Received, Stream
  <1>2. CASE side = "connector"
    BY <1>1, <1>2
  <1>3. CASE side = "listener"
    BY <1>1, <1>3
  <1> QED BY <1>2, <1>3 DEF Side

-----------------------------------------------------------------------------
(***************************************************************************)
(* What a step does to its connection.                                     *)
(***************************************************************************)
LEMMA SendFits ==
    ASSUME NEW conn \in Connection, NEW side \in Side, Fits(conn),
           conn.at[side] \in 1 .. 8, Script(side)[conn.at[side]].op = "send",
           NEW next,
           next = [conn EXCEPT
                     !.at[side] = @ + 1,
                     !.inbox[Other(side)] =
                       IF conn.open[Other(side)] /\ ~conn.torn
                       THEN Append(@, Script(side)[conn.at[side]].message) ELSE @]
    PROVE  next \in Connection /\ Fits(next)
  <1>1. PICK other, message :
          /\ other = Other(side) /\ message = Script(side)[conn.at[side]].message
          /\ other \in Side /\ other # side /\ Other(other) = side /\ message \in Message
    BY Others, ScriptStep
  <1>2. /\ conn.at \in [Side -> 1 .. 9] /\ conn.inbox \in [Side -> Seq(Message)]
        /\ conn.open \in [Side -> BOOLEAN] /\ conn.torn \in BOOLEAN
    BY DEF Connection
  <1>3. /\ next.at = [conn.at EXCEPT ![side] = @ + 1]
        /\ next.inbox = [conn.inbox EXCEPT
                           ![other] = IF conn.open[other] /\ ~conn.torn
                                      THEN Append(@, message) ELSE @]
        /\ next.open = conn.open /\ next.torn = conn.torn
    BY <1>1 DEF Connection
  <1>4. next \in Connection
    <2>1. next.at \in [Side -> 1 .. 9]
      BY <1>2, <1>3
    <2>2. next.inbox \in [Side -> Seq(Message)]
      BY <1>1, <1>2, <1>3
    <2> QED BY <1>1, <2>1, <2>2 DEF Connection
  <1>5. ASSUME ~conn.torn
        PROVE  \A s \in Side : InboxFits(next, s)
    <2>1. InboxFits(conn, side) /\ InboxFits(conn, other)
      BY <1>1, <1>5 DEF Fits
    <2>2. /\ Sent(side, conn.at[side] + 1) = Sent(side, conn.at[side]) + 1
          /\ Received(side, conn.at[side] + 1) = Received(side, conn.at[side])
          /\ message = Stream(other)[Sent(side, conn.at[side]) + 1]
      BY <1>1, ScriptStep
    <2>3. /\ Sent(side, conn.at[side]) \in Nat /\ Received(other, conn.at[other]) \in Nat
          /\ Sent(other, conn.at[other]) \in Nat /\ Received(side, conn.at[side]) \in Nat
      <3>1. conn.at[side] \in 1 .. 9 /\ conn.at[other] \in 1 .. 9
        BY <1>1, <1>2
      <3> QED BY <1>1, <3>1, Counts
    <2>4. /\ next.at[side] = conn.at[side] + 1 /\ next.at[other] = conn.at[other]
          /\ next.inbox[side] = conn.inbox[side]
      BY <1>1, <1>2, <1>3
    <2>5. InboxFits(next, side)
      BY <1>1, <1>3, <2>1, <2>2, <2>4 DEF InboxFits
    <2>6. InboxFits(next, other)
      <3>1. CASE ~conn.open[other]
        <4>1. next.inbox[other] = conn.inbox[other] /\ ~next.open[other]
          BY <1>1, <1>2, <1>3, <3>1
        <4> QED BY <1>1, <2>1, <2>2, <2>3, <2>4, <4>1, <3>1 DEF InboxFits
      <3>2. CASE conn.open[other]
        <4>1. next.inbox[other] = Append(conn.inbox[other], message) /\ next.open[other]
          BY <1>1, <1>2, <1>3, <1>5, <3>2
        <4>2. conn.inbox[other] \in Seq(Message)
          BY <1>1, <1>2
        <4>3. PICK q : q = conn.inbox[other]
          OBVIOUS
        <4>4. /\ Len(Append(q, message)) = Len(q) + 1
              /\ \A i \in 1 .. Len(q) : Append(q, message)[i] = q[i]
              /\ Append(q, message)[Len(q) + 1] = message
              /\ Len(q) \in Nat
          BY <1>1, <4>2, <4>3
        <4>5. /\ Received(other, conn.at[other]) <= Sent(side, conn.at[side])
              /\ Len(q) = Sent(side, conn.at[side]) - Received(other, conn.at[other])
              /\ \A i \in 1 .. Len(q) : q[i] = Stream(other)[Received(other, conn.at[other]) + i]
          BY <1>1, <2>1, <3>2, <4>3 DEF InboxFits
        <4>6. message = Stream(other)[Received(other, conn.at[other]) + (Len(q) + 1)]
          BY <2>2, <2>3, <4>4, <4>5
        <4>7. \A i \in 1 .. Len(q) + 1 :
                Append(q, message)[i] = Stream(other)[Received(other, conn.at[other]) + i]
          BY <4>4, <4>5, <4>6
        <4>8. next.inbox[other] = Append(q, message)
          BY <4>1, <4>3
        <4>9. Len(Append(q, message)) = Sent(side, next.at[side]) - Received(other, next.at[other])
          BY <2>2, <2>3, <2>4, <4>4, <4>5
        <4>10. Received(other, next.at[other]) <= Sent(side, next.at[side])
          BY <2>2, <2>3, <2>4, <4>5
        <4>11. Len(Append(q, message)) = Len(q) + 1
          BY <4>4
        <4> QED BY ONLY <1>1, <2>4, <4>1, <4>7, <4>8, <4>9, <4>10, <4>11 DEF InboxFits
      <3> QED BY <3>1, <3>2
    <2> QED BY <1>1, <2>5, <2>6, Others DEF Side
  <1> QED BY <1>3, <1>4, <1>5 DEF Fits

LEMMA RecvFits ==
    ASSUME NEW conn \in Connection, NEW side \in Side, Fits(conn),
           conn.at[side] \in 1 .. 8, Script(side)[conn.at[side]].op = "recv",
           conn.inbox[side] # <<>>,
           NEW next, next = [conn EXCEPT !.at[side] = @ + 1, !.inbox[side] = Tail(@)]
    PROVE  next \in Connection /\ Fits(next)
  <1>1. PICK other : other = Other(side) /\ other \in Side /\ other # side /\ Other(other) = side
    BY Others
  <1>2. /\ conn.at \in [Side -> 1 .. 9] /\ conn.inbox \in [Side -> Seq(Message)]
        /\ conn.open \in [Side -> BOOLEAN] /\ conn.torn \in BOOLEAN
    BY DEF Connection
  <1>3. /\ next.at = [conn.at EXCEPT ![side] = @ + 1]
        /\ next.inbox = [conn.inbox EXCEPT ![side] = Tail(@)]
        /\ next.open = conn.open /\ next.torn = conn.torn
    BY DEF Connection
  <1>4. PICK q : q = conn.inbox[side] /\ q \in Seq(Message) /\ q # <<>>
    BY <1>2
  <1>5. /\ Tail(q) \in Seq(Message) /\ Len(Tail(q)) = Len(q) - 1 /\ Len(q) \in Nat \ {0}
        /\ \A i \in 1 .. Len(q) - 1 : Tail(q)[i] = q[i + 1]
    BY <1>4
  <1>6. next \in Connection
    <2>1. next.at \in [Side -> 1 .. 9]
      BY <1>2, <1>3
    <2>2. next.inbox \in [Side -> Seq(Message)]
      BY <1>2, <1>3, <1>4, <1>5
    <2> QED BY <2>1, <2>2 DEF Connection
  <1>7. ASSUME ~conn.torn
        PROVE  \A s \in Side : InboxFits(next, s)
    <2>1. InboxFits(conn, side) /\ InboxFits(conn, other)
      BY <1>1, <1>7 DEF Fits
    <2>2. /\ Sent(side, conn.at[side] + 1) = Sent(side, conn.at[side])
          /\ Received(side, conn.at[side] + 1) = Received(side, conn.at[side]) + 1
      BY ScriptStep
    <2>3. /\ Sent(other, conn.at[other]) \in Nat /\ Received(side, conn.at[side]) \in Nat
      <3>1. conn.at[side] \in 1 .. 9 /\ conn.at[other] \in 1 .. 9
        BY <1>1, <1>2
      <3> QED BY <1>1, <3>1, Counts
    <2>4. /\ next.at[side] = conn.at[side] + 1 /\ next.at[other] = conn.at[other]
          /\ next.inbox[other] = conn.inbox[other] /\ next.inbox[side] = Tail(q)
      BY <1>1, <1>2, <1>3, <1>4
    <2>5. InboxFits(next, other)
      BY <1>1, <1>3, <2>1, <2>2, <2>4 DEF InboxFits
    <2>6. InboxFits(next, side)
      <3>1. /\ conn.open[side]
            /\ Len(q) = Sent(other, conn.at[other]) - Received(side, conn.at[side])
            /\ \A i \in 1 .. Len(q) : q[i] = Stream(side)[Received(side, conn.at[side]) + i]
        BY <1>1, <1>4, <1>5, <2>1 DEF InboxFits
      <3>2. \A i \in 1 .. Len(q) - 1 :
              Tail(q)[i] = Stream(side)[Received(side, conn.at[side]) + 1 + i]
        <4>1. ASSUME NEW i \in 1 .. Len(q) - 1
              PROVE  /\ Tail(q)[i] = Stream(side)[Received(side, conn.at[side]) + (i + 1)]
                     /\ Received(side, conn.at[side]) + (i + 1)
                          = Received(side, conn.at[side]) + 1 + i
          BY <1>5, <2>3, <3>1
        <4> QED BY <4>1
      <3>3. Len(Tail(q)) = Sent(other, next.at[other]) - Received(side, next.at[side])
        BY <1>5, <2>2, <2>3, <2>4, <3>1
      <3>4. Received(side, next.at[side]) <= Sent(other, next.at[other])
        BY <1>5, <2>2, <2>3, <2>4, <3>1
      <3>5. \A i \in 1 .. Len(Tail(q)) :
              Tail(q)[i] = Stream(side)[Received(side, next.at[side]) + i]
        BY <1>5, <2>2, <2>4, <3>2
      <3>6. next.open[side] /\ next.inbox[side] = Tail(q)
        BY <1>3, <2>4, <3>1
      <3> QED BY <1>1, <3>3, <3>4, <3>5, <3>6 DEF InboxFits
    <2> QED BY <1>1, <2>5, <2>6, Others DEF Side
  <1> QED BY <1>3, <1>6, <1>7 DEF Fits

\* After a part of a message the stream is torn; then anything fits.
LEMMA TornFits ==
    ASSUME NEW conn \in Connection, NEW side \in Side, NEW next,
           next = [conn EXCEPT !.at[side] = Len(Script(side)) + 1,
                               !.inbox = [s \in Side |-> <<>>],
                               !.torn = TRUE, !.broken = TRUE]
    PROVE  next \in Connection /\ Fits(next)
  <1>1. Len(Script(side)) = 8
    BY ScriptLengths
  <1>2. conn.at \in [Side -> 1 .. 9]
    BY DEF Connection
  <1>3. /\ next.at = [conn.at EXCEPT ![side] = 9] /\ next.inbox = [s \in Side |-> <<>>]
        /\ next.torn = TRUE
    BY <1>1, <1>2 DEF Connection
  <1>4. next.at \in [Side -> 1 .. 9] /\ next.inbox \in [Side -> Seq(Message)]
    BY <1>2, <1>3
  <1> QED BY <1>3, <1>4 DEF Connection, Fits

\* An end that is closed has nothing in its inbox.
LEMMA CloseFits ==
    ASSUME NEW conn \in Connection, NEW side \in Side, Fits(conn), NEW next,
           next = [conn EXCEPT !.open[side] = FALSE, !.inbox[side] = <<>>]
    PROVE  next \in Connection /\ Fits(next)
  <1>1. /\ conn.at \in [Side -> 1 .. 9] /\ conn.inbox \in [Side -> Seq(Message)]
        /\ conn.open \in [Side -> BOOLEAN] /\ conn.torn \in BOOLEAN
    BY DEF Connection
  <1>2. /\ next.at = conn.at /\ next.torn = conn.torn
        /\ next.inbox = [conn.inbox EXCEPT ![side] = <<>>]
        /\ next.open = [conn.open EXCEPT ![side] = FALSE]
    BY <1>1 DEF Connection
  <1>3. next.inbox \in [Side -> Seq(Message)] /\ next.open \in [Side -> BOOLEAN]
    BY <1>1, <1>2
  <1>4. next \in Connection
    BY <1>2, <1>3 DEF Connection
  <1>5. ASSUME NEW s \in Side, InboxFits(conn, s)
        PROVE  InboxFits(next, s)
    <2>1. CASE s = side
      <3>1. next.inbox[s] = <<>> /\ ~next.open[s]
        BY <1>1, <1>2, <2>1
      <3> QED BY <1>2, <1>5, <3>1 DEF InboxFits
    <2>2. CASE s # side
      <3>1. next.inbox[s] = conn.inbox[s] /\ next.open[s] = conn.open[s]
        BY <1>1, <1>2, <2>2
      <3> QED BY <1>2, <1>5, <3>1 DEF InboxFits
    <2> QED BY <2>1, <2>2
  <1> QED BY <1>2, <1>4, <1>5 DEF Fits

\* Whether a session is broken makes no difference.
LEMMA BrokenFits ==
    ASSUME NEW conn \in Connection, Fits(conn), NEW accepted \in BOOLEAN, NEW next,
           \/ next = [conn EXCEPT !.broken = TRUE]
           \/ next = [conn EXCEPT !.accepted = accepted]
           \/ next = [conn EXCEPT !.accepted = accepted, !.broken = TRUE]
    PROVE  next \in Connection /\ Fits(next)
  <1>1. next \in Connection /\ next.at = conn.at /\ next.inbox = conn.inbox
        /\ next.open = conn.open /\ next.torn = conn.torn
    BY DEF Connection
  <1> QED BY <1>1 DEF Fits, InboxFits

LEMMA NewFits ==
    ASSUME NEW n \in Node, NEW m \in Node, epoch \in [Node -> Epoch]
    PROVE  NewConnection(n, m) \in Connection /\ Fits(NewConnection(n, m))
  <1>1. PICK conn : conn = NewConnection(n, m)
    OBVIOUS
  <1>2. /\ conn.at = [s \in Side |-> 1] /\ conn.inbox = [s \in Side |-> <<>>]
    BY <1>1 DEF NewConnection
  <1>3. conn \in Connection
    BY <1>1 DEF NewConnection, Connection
  <1>4. ASSUME NEW s \in Side
        PROVE  InboxFits(conn, s)
    <2>1. Other(s) \in Side
      BY Others
    <2> QED BY <1>2, <2>1, AtTheStart DEF InboxFits
  <1> QED BY <1>1, <1>3, <1>4 DEF Fits

\* A step on one connection leaves the others alone.
LEMMA OneConnection ==
    ASSUME conns \in Seq(Connection), ConnsInv, NEW c \in DOMAIN conns,
           NEW next \in Connection, Fits(next), conns' = [conns EXCEPT ![c] = next]
    PROVE  conns' \in Seq(Connection) /\ Len(conns') = Len(conns) /\ ConnsInv'
  <1>1. conns' \in Seq(Connection) /\ Len(conns') = Len(conns)
    OBVIOUS
  <1>2. \A d \in DOMAIN conns' : conns'[d] = IF d = c THEN next ELSE conns[d]
    OBVIOUS
  <1>3. ASSUME NEW d \in DOMAIN conns'
        PROVE  Fits(conns'[d])
    BY <1>2, <1>3 DEF ConnsInv
  <1> QED BY <1>1, <1>3 DEF ConnsInv

LEMMA SessionFits ==
    ASSUME conns \in Seq(Connection), ConnsInv, NEW c \in DOMAIN conns, NEW side \in Side,
           SessionStep(c, side) \/ RecvPart(c, side)
    PROVE  conns' \in Seq(Connection) /\ Len(conns') = Len(conns) /\ ConnsInv'
  <1>1. PICK conn : conn = conns[c] /\ conn \in Connection /\ Fits(conn)
    BY DEF ConnsInv
  <1>2. /\ Len(Script(side)) = 8 /\ conn.at \in [Side -> 1 .. 9]
        /\ conn.at[side] \in 1 .. 9
    BY <1>1, ScriptLengths DEF Connection
  <1>3. conn.at[side] \in 1 .. 8
    BY <1>1, <1>2 DEF SessionStep, SendStep, RecvStep, RecvPart, IsOver
  <1>4. CASE SendStep(c, side)
    <2>1. PICK next :
            next = [conn EXCEPT
                      !.at[side] = @ + 1,
                      !.inbox[Other(side)] =
                        IF conn.open[Other(side)] /\ ~conn.torn
                        THEN Append(@, Script(side)[conn.at[side]].message) ELSE @]
      OBVIOUS
    <2>2. conns' = [conns EXCEPT ![c] = next]
      BY <1>1, <1>4, <2>1 DEF SendStep, Now
    <2>3. Script(side)[conn.at[side]].op = "send"
      BY <1>1, <1>4 DEF SendStep, Now
    <2>4. next \in Connection /\ Fits(next)
      BY <1>1, <1>3, <2>1, <2>3, SendFits
    <2> QED BY <2>2, <2>4, OneConnection
  <1>5. CASE RecvStep(c, side)
    <2>1. PICK next : next = [conn EXCEPT !.at[side] = @ + 1, !.inbox[side] = Tail(@)]
      OBVIOUS
    <2>2. conns' = [conns EXCEPT ![c] = next]
      BY <1>1, <1>5, <2>1 DEF RecvStep
    <2>3. Script(side)[conn.at[side]].op = "recv" /\ conn.inbox[side] # <<>>
      BY <1>1, <1>5 DEF RecvStep, Now
    <2>4. next \in Connection /\ Fits(next)
      BY <1>1, <1>3, <2>1, <2>3, RecvFits
    <2> QED BY <2>2, <2>4, OneConnection
  <1>6. CASE RecvPart(c, side)
    <2>1. PICK next :
            next = [conn EXCEPT !.at[side] = Len(Script(side)) + 1,
                                !.inbox = [s \in Side |-> <<>>],
                                !.torn = TRUE, !.broken = TRUE]
      OBVIOUS
    <2>2. conns' = [conns EXCEPT ![c] = next]
      BY <1>1, <1>6, <2>1 DEF RecvPart
    <2>3. next \in Connection /\ Fits(next)
      BY <1>1, <2>1, TornFits
    <2> QED BY <2>2, <2>3, OneConnection
  <1> QED BY <1>4, <1>5, <1>6 DEF SessionStep

LEMMA ClosingFits ==
    ASSUME conns \in Seq(Connection), ConnsInv, NEW c \in DOMAIN conns, NEW side \in Side,
           conns' = [conns EXCEPT ![c] = Close(c, side)]
    PROVE  conns' \in Seq(Connection) /\ Len(conns') = Len(conns) /\ ConnsInv'
  <1>1. PICK conn : conn = conns[c] /\ conn \in Connection /\ Fits(conn)
    BY DEF ConnsInv
  <1>2. PICK next : next = [conn EXCEPT !.open[side] = FALSE, !.inbox[side] = <<>>]
    OBVIOUS
  <1>3. next \in Connection /\ Fits(next)
    BY <1>1, <1>2, CloseFits
  <1> QED BY <1>1, <1>2, <1>3, OneConnection DEF Close

\* Closing what failed, and remembering that it did.
LEMMA FailingFits ==
    ASSUME NEW conn \in Connection, Fits(conn), NEW side \in Side, NEW accepted \in BOOLEAN,
           NEW closed, closed = [conn EXCEPT !.open[side] = FALSE, !.inbox[side] = <<>>],
           NEW next, \/ next = [closed EXCEPT !.broken = TRUE]
                     \/ next = [closed EXCEPT !.accepted = accepted, !.broken = TRUE]
    PROVE  next \in Connection /\ Fits(next)
  <1>1. closed \in Connection /\ Fits(closed)
    BY CloseFits
  <1> QED BY <1>1, BrokenFits

(***************************************************************************)
(* The actions.                                                            *)
(***************************************************************************)
LEMMA InitPSIInv == Init => PSIInv
  BY PSIAssumption DEF Init, PSIInv, PSITypeOK, ThreadsInv, ConnsInv, Epoch

LEMMA OnesOwn ==
    ASSUME PSIInv, NEW c \in DOMAIN conns
    PROVE  conns[c] \in Connection /\ Fits(conns[c])
  BY DEF PSIInv, PSITypeOK, ConnsInv

\* The main thread, outside a session.
LEMMA DiscoverSteps ==
    ASSUME PSIInv, NEW n \in Node,
           \/ ChangeEpoch(n) \/ StartDiscover(n) \/ FinishDiscover(n) \/ FinishHandshake(n)
           \/ \E m \in Node : \/ DoneWithDevice(n, m) \/ PassConfirmed(n, m)
                              \/ LeaveLoop(n, m) \/ SelectNext(n, m)
    PROVE  PSIInv'
  <1> USE PSIAssumption DEF PSIInv, PSITypeOK, ThreadsInv, ConnsInv, mainVars, listenerVars,
          nodeVars
  <1>1. CASE ChangeEpoch(n)
    BY <1>1 DEF ChangeEpoch, Epoch
  <1>2. CASE StartDiscover(n)
    BY <1>2 DEF StartDiscover
  <1>3. CASE FinishDiscover(n)
    <2>1. PICK selected \in SUBSET (Node \ {n}) :
            /\ known' = [known EXCEPT
                           ![n] = [m \in Node |-> IF m \in selected THEN epoch[m] ELSE NULL]]
            /\ toHandshake' = [toHandshake EXCEPT ![n] = selected]
      BY <1>3 DEF FinishDiscover
    <2>2. known' \in [Node -> [Node -> Epoch \cup {NULL}]]
      BY <2>1
    <2>3. ASSUME NEW k \in Node, NEW m \in toHandshake'[k]
          PROVE  known'[k][m] \in Epoch
      BY <2>1, <2>3
    <2> QED BY <1>3, <2>1, <2>2, <2>3 DEF FinishDiscover
  <1>4. CASE FinishHandshake(n)
    <2>1. ASSUME NEW k \in Node, NEW m \in toHandshake'[k]
          PROVE  known'[k][m] \in Epoch
      BY <1>4, <2>1 DEF FinishHandshake
    <2>2. known' \in [Node -> [Node -> Epoch \cup {NULL}]]
      BY <1>4 DEF FinishHandshake
    <2> QED BY <1>4, <2>1, <2>2 DEF FinishHandshake
  <1>5. ASSUME NEW m \in Node, DoneWithDevice(n, m)
        PROVE  PSIInv'
    BY <1>5 DEF DoneWithDevice
  <1>6. ASSUME NEW m \in Node, PassConfirmed(n, m)
        PROVE  PSIInv'
    BY <1>6 DEF PassConfirmed
  <1>7. ASSUME NEW m \in Node, LeaveLoop(n, m)
        PROVE  PSIInv'
    BY <1>7 DEF LeaveLoop
  <1>8. ASSUME NEW m \in Node, SelectNext(n, m)
        PROVE  PSIInv'
    <2>1. AddressKnown(n, m) \in Address
      BY <1>8 DEF SelectNext, AddressKnown, Address
    <2> QED BY <1>8, <2>1 DEF SelectNext
  <1> QED BY <1>1, <1>2, <1>3, <1>4, <1>5, <1>6, <1>7, <1>8

\* The main thread, connecting and in a session.
LEMMA ConnectorSteps ==
    ASSUME PSIInv, NEW n \in Node,
           \/ Connect(n) \/ ConnectFails(n) \/ MainStep(n) \/ MainRecvPart(n)
           \/ MainFails(n) \/ CloseSocket(n)
    PROVE  PSIInv'
  <1> USE PSIAssumption DEF PSIInv, PSITypeOK, ThreadsInv, mainVars, listenerVars, nodeVars
  <1>0. "connector" \in Side
    BY DEF Side
  <1>1. CASE Connect(n)
    <2>1. PICK new : /\ new = NewConnection(n, peer[n]) /\ new \in Connection /\ Fits(new)
      BY <1>1, NewFits DEF Connect
    <2>2. conns' = Append(conns, new)
      BY <1>1, <2>1 DEF Connect
    <2>3. /\ conns' \in Seq(Connection) /\ Len(conns') = Len(conns) + 1
          /\ DOMAIN conns' = 1 .. Len(conns) + 1
          /\ \A c \in DOMAIN conns' : conns'[c] = IF c <= Len(conns) THEN conns[c] ELSE new
      BY <2>1, <2>2
    <2>4. ConnsInv'
      BY <2>1, <2>3 DEF ConnsInv
    <2>5. Len(conns) + 1 \in ConnID /\ Len(conns') <= MaxConnections
      BY <1>1, <2>3 DEF Connect, ConnID
    <2> QED BY <1>1, <2>3, <2>4, <2>5 DEF Connect
  <1>2. CASE ConnectFails(n)
    BY <1>2 DEF ConnectFails, ConnsInv
  <1>3. CASE MainStep(n) \/ MainRecvPart(n)
    <2>1. conns' \in Seq(Connection) /\ Len(conns') = Len(conns) /\ ConnsInv'
      BY <1>0, <1>3, SessionFits DEF MainStep, MainRecvPart
    <2>2. confirmed' \in [Node -> SUBSET Node]
      <3>1. UNCHANGED confirmed \/ confirmed' = [confirmed EXCEPT ![n] = @ \cup {peer[n]}]
        BY ONLY <1>3 DEF MainStep, MainRecvPart, MayConfirm
      <3>2. peer[n] \in Node
        BY <1>3 DEF MainStep, MainRecvPart
      <3>3. PICK p : p = peer[n] /\ p \in Node
        BY <3>2
      <3>4. confirmed \in [Node -> SUBSET Node]
        OBVIOUS
      <3>5. CASE confirmed' = [confirmed EXCEPT ![n] = @ \cup {p}]
        BY ONLY <3>3, <3>4, <3>5
      <3> QED BY ONLY <3>1, <3>3, <3>4, <3>5
    <2> QED BY <1>3, <2>1, <2>2 DEF MainStep, MainRecvPart
  <1>4. CASE MainFails(n)
    <2>1. PICK conn, next : conn = conns[socket[n]] /\ next = [conn EXCEPT !.broken = TRUE]
      OBVIOUS
    <2>2. conns' = [conns EXCEPT ![socket[n]] = next] /\ socket[n] \in DOMAIN conns
      BY <1>4, <2>1 DEF MainFails
    <2>3. next \in Connection /\ Fits(next)
      <3>1. conn \in Connection /\ Fits(conn)
        BY <2>1, <2>2, OnesOwn
      <3> QED BY ONLY <2>1, <3>1, BrokenFits, TRUE \in BOOLEAN
    <2>4. conns' \in Seq(Connection) /\ Len(conns') = Len(conns) /\ ConnsInv'
      BY <2>2, <2>3, OneConnection
    <2> QED BY <1>4, <2>4 DEF MainFails
  <1>5. CASE CloseSocket(n)
    <2>1. conns' \in Seq(Connection) /\ Len(conns') = Len(conns) /\ ConnsInv'
      BY <1>0, <1>5, ClosingFits DEF CloseSocket
    <2> QED BY <1>5, <2>1 DEF CloseSocket
  <1> QED BY <1>1, <1>2, <1>3, <1>4, <1>5

LEMMA ListenerSteps ==
    ASSUME PSIInv, NEW n \in Node,
           \/ Accept(n) \/ AcceptFails(n) \/ InsertClient(n)
           \/ ListenStep(n) \/ ListenRecvPart(n) \/ ListenFails(n) \/ CloseClient(n)
    PROVE  PSIInv'
  <1> USE PSIAssumption DEF PSIInv, PSITypeOK, ThreadsInv, mainVars, listenerVars, nodeVars
  <1>0. "listener" \in Side
    BY DEF Side
  <1>1. CASE Accept(n)
    <2>1. PICK c \in DOMAIN conns :
            /\ conns' = [conns EXCEPT ![c].accepted = TRUE]
            /\ client' = [client EXCEPT ![n] = c]
      BY <1>1 DEF Accept
    <2>2. PICK conn, next : conn = conns[c] /\ next = [conn EXCEPT !.accepted = TRUE]
      OBVIOUS
    <2>3. next \in Connection /\ Fits(next)
      <3>1. conn \in Connection /\ Fits(conn)
        BY <2>2, OnesOwn
      <3> QED BY ONLY <2>2, <3>1, BrokenFits, TRUE \in BOOLEAN
    <2>4. conns' \in Seq(Connection) /\ Len(conns') = Len(conns) /\ ConnsInv'
      BY <2>1, <2>2, <2>3, OneConnection
    <2>5. c \in ConnID
      BY DEF ConnID
    <2> QED BY <1>1, <2>1, <2>4, <2>5 DEF Accept
  <1>2. CASE AcceptFails(n)
    <2>1. ASSUME NEW c \in DOMAIN conns
          PROVE  conns'[c] \in Connection /\ Fits(conns'[c])
      <3>1. PICK conn, closed :
              /\ conn = conns[c] /\ conn \in Connection /\ Fits(conn)
              /\ closed = [conn EXCEPT !.open["listener"] = FALSE, !.inbox["listener"] = <<>>]
        BY OnesOwn
      <3>2. \/ conns'[c] = conn
            \/ conns'[c] = [closed EXCEPT !.accepted = TRUE, !.broken = TRUE]
        BY <1>2, <3>1 DEF AcceptFails, Close
      <3> QED BY <1>0, <3>1, <3>2, FailingFits, TRUE \in BOOLEAN
    <2>2. PICK f : f = conns'
      OBVIOUS
    <2>3. DOMAIN f = 1 .. Len(conns) /\ f = [c \in 1 .. Len(conns) |-> f[c]]
      <3>1. DOMAIN conns = 1 .. Len(conns)
        OBVIOUS
      <3> QED BY ONLY <1>2, <2>2, <3>1 DEF AcceptFails
    <2>4. \A c \in 1 .. Len(conns) : f[c] \in Connection /\ Fits(f[c])
      BY <2>1, <2>2
    <2>5. f \in Seq(Connection) /\ Len(f) = Len(conns)
      BY <2>3, <2>4
    <2>6. conns' \in Seq(Connection) /\ Len(conns') = Len(conns) /\ ConnsInv'
      BY <2>2, <2>3, <2>4, <2>5 DEF ConnsInv
    <2> QED BY <1>2, <2>6 DEF AcceptFails
  <1>3. CASE InsertClient(n)
    <2>1. [owner |-> conns[client[n]].from, epoch |-> conns[client[n]].epoch] \in Address
      <3>1. conns[client[n]] \in Connection
        BY <1>3, OnesOwn DEF InsertClient
      <3> QED BY <3>1 DEF Connection, Address
    <2> QED BY <1>3, <2>1 DEF InsertClient, ConnsInv
  <1>4. CASE ListenStep(n) \/ ListenRecvPart(n)
    <2>1. conns' \in Seq(Connection) /\ Len(conns') = Len(conns) /\ ConnsInv'
      BY <1>0, <1>4, SessionFits DEF ListenStep, ListenRecvPart
    <2> QED BY <1>4, <2>1 DEF ListenStep, ListenRecvPart
  <1>5. CASE ListenFails(n)
    <2>1. PICK conn, closed, next :
            /\ conn = conns[client[n]]
            /\ closed = [conn EXCEPT !.open["listener"] = FALSE, !.inbox["listener"] = <<>>]
            /\ next = [closed EXCEPT !.broken = TRUE]
      OBVIOUS
    <2>2. conns' = [conns EXCEPT ![client[n]] = next] /\ client[n] \in DOMAIN conns
      BY <1>5, <2>1 DEF ListenFails, Close
    <2>3. next \in Connection /\ Fits(next)
      <3>1. conn \in Connection /\ Fits(conn)
        BY <2>1, <2>2, OnesOwn
      <3> QED BY ONLY <1>0, <2>1, <3>1, FailingFits, TRUE \in BOOLEAN
    <2>4. conns' \in Seq(Connection) /\ Len(conns') = Len(conns) /\ ConnsInv'
      BY <2>2, <2>3, OneConnection
    <2> QED BY <1>5, <2>4 DEF ListenFails
  <1>6. CASE CloseClient(n)
    <2>1. conns' \in Seq(Connection) /\ Len(conns') = Len(conns) /\ ConnsInv'
      BY <1>0, <1>6, ClosingFits DEF CloseClient
    <2> QED BY <1>6, <2>1 DEF CloseClient
  <1> QED BY <1>1, <1>2, <1>3, <1>4, <1>5, <1>6

LEMMA StepPSIInv == PSIInv /\ [Next]_vars => PSIInv'
  <1> SUFFICES ASSUME PSIInv, [Next]_vars PROVE PSIInv'
    OBVIOUS
  <1>1. CASE UNCHANGED vars
    BY <1>1 DEF vars, PSIInv, PSITypeOK, ThreadsInv, ConnsInv, mainVars, listenerVars, nodeVars
  <1>2. CASE Next
    <2>1. PICK n \in Node :
            \/ ChangeEpoch(n) \/ StartDiscover(n) \/ FinishDiscover(n)
            \/ \E m \in Node : \/ DoneWithDevice(n, m) \/ PassConfirmed(n, m)
                               \/ LeaveLoop(n, m) \/ SelectNext(n, m)
            \/ Connect(n) \/ ConnectFails(n) \/ FinishHandshake(n)
            \/ MainStep(n) \/ MainRecvPart(n) \/ MainFails(n) \/ CloseSocket(n)
            \/ Accept(n) \/ AcceptFails(n) \/ InsertClient(n)
            \/ ListenStep(n) \/ ListenRecvPart(n) \/ ListenFails(n) \/ CloseClient(n)
      BY <1>2 DEF Next
    <2> QED BY <2>1, DiscoverSteps, ConnectorSteps, ListenerSteps
  <1> QED BY <1>1, <1>2

LEMMA SessionsFit == Spec => []PSIInv
  BY InitPSIInv, StepPSIInv, PTL DEF Spec

-----------------------------------------------------------------------------
\* The variables of both threads keep their types: a thread in a session has a
\* connection, one that connects has a peer.
THEOREM PSITypes == Spec => []PSITypeOK
  <1>1. PSIInv => PSITypeOK
    BY DEF PSIInv
  <1> QED BY <1>1, SessionsFit, PTL

\* However the sends and receives of the two ends interleave, and wherever one
\* gives up, a whole stream brings each end the message its script waits for.
THEOREM MessagesAreExpected == Spec => []ScriptsFit
  <1>1. PSIInv => ScriptsFit
    <2> SUFFICES ASSUME PSIInv, NEW c \in DOMAIN conns, NEW side \in Side, ~conns[c].torn,
                        conns[c].inbox[side] # <<>>
                 PROVE  \E i \in ToReceive(c, side) :
                           /\ \A j \in ToReceive(c, side) : i <= j
                           /\ Head(conns[c].inbox[side]) = Script(side)[i].message
      BY DEF ScriptsFit
    <2>1. PICK conn, k, other, inbox :
            /\ conn = conns[c] /\ k = conn.at[side] /\ other = Other(side)
            /\ inbox = conn.inbox[side]
      OBVIOUS
    <2>2. /\ conn \in Connection /\ k \in 1 .. 9 /\ other \in Side /\ conn.at[other] \in 1 .. 9
          /\ inbox \in Seq(Message) /\ inbox # <<>>
      <3>1. conn \in Connection /\ other \in Side
        BY <2>1, OnesOwn, Others
      <3> QED BY <2>1, <3>1 DEF Connection
    <2>3. InboxFits(conn, side)
      BY <2>1 DEF PSIInv, ConnsInv, Fits
    <2>4. Sent(other, conn.at[other]) \in 0 .. 4 /\ Received(side, k) \in 0 .. 4
      BY <2>2, Counts
    <2>5. Len(inbox) \in Nat \ {0} /\ Head(inbox) = inbox[1]
      BY <2>2
    <2>6. Received(side, k) < 4 /\ Head(inbox) = Stream(side)[Received(side, k) + 1]
      BY <2>1, <2>3, <2>4, <2>5 DEF InboxFits
    <2>7. PICK i \in k .. 8 :
             /\ Script(side)[i].op = "recv"
             /\ Script(side)[i].message = Stream(side)[Received(side, k) + 1]
             /\ \A j \in k .. 8 : Script(side)[j].op = "recv" => i <= j
      BY <2>2, <2>6, NextToReceive
    <2>8. ToReceive(c, side) = {j \in k .. 8 : Script(side)[j].op = "recv"}
      BY <2>1, ScriptLengths DEF ToReceive
    <2> QED BY <2>1, <2>6, <2>7, <2>8
  <1> QED BY <1>1, SessionsFit, PTL

\* The listener's result is made of the connector's last message, which the
\* connector sends after it got its own.
THEOREM ListenerIsLast == Spec => []ListenerResultIsLast
  <1>1. PSIInv => ListenerResultIsLast
    <2> SUFFICES ASSUME PSIInv, NEW c \in DOMAIN conns, ~conns[c].torn, HasResult(c, "listener")
                 PROVE  HasResult(c, "connector")
      BY DEF ListenerResultIsLast
    <2>1. PICK conn : conn = conns[c] /\ conn \in Connection
      BY DEF PSIInv, PSITypeOK
    <2>2. conn.at["listener"] \in 1 .. 9 /\ conn.at["connector"] \in 1 .. 9
      BY <2>1 DEF Connection, Side
    <2>3. conn.at["listener"] = 9
      BY <2>1, <2>2, AtTheEnd DEF HasResult
    <2>4. InboxFits(conn, "listener")
      BY <2>1, Others DEF PSIInv, ConnsInv, Fits
    <2>5. 4 <= Sent("connector", conn.at["connector"])
      BY <2>3, <2>4, AtTheEnd, Others DEF InboxFits
    <2>6. Sent("connector", conn.at["connector"]) \in 0 .. 4
      BY <2>2, Others, Counts
    <2>7. conn.at["connector"] = 9
      BY <2>2, <2>5, <2>6, AtTheEnd
    <2> QED BY <2>1, <2>7, AtTheEnd DEF HasResult
  <1> QED BY <1>1, SessionsFit, PTL
=============================================================================
