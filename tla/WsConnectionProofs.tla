------------------------- MODULE WsConnectionProofs -------------------------
(***************************************************************************)
(* Proofs about WsConnection, for any number of connections, attempts and  *)
(* messages and for any channel sizes: who serves the connection, what the *)
(* server receives and in which order, and what an acknowledgement means.  *)
(***************************************************************************)
EXTENDS WsConnection, TLAPS

LinkStates == {"unused", "up", "broken", "closed"}
LoopStates == {"none", "ended", "select", "write", "load", "read"}
RecStates  == {"idle", "dial", "replay", "spawn", "release"}
MaybeConn  == Conns \union {NoConn}
LoopSet    == [st : LoopStates, msg : Msg \union {NoMsg}, on : MaybeConn]

\* The types of the variables that the connection and its goroutines share.
Shape ==
    /\ conn \in MaybeConn
    /\ sendCh \in Seq(Msg)
    /\ sent \in 0..MaxMsgs
    /\ writer \in [Conns -> LoopSet]
    /\ reader \in [Conns -> LoopSet]
    /\ triggers \in Nat
    /\ rec \in [st : RecStates, tries : Nat, on : MaybeConn]
    /\ link \in [Conns -> LinkStates]

\* A reconnect dials while no connection is installed, or one that it has
\* closed itself; afterwards its own is installed, or close has been called.
Installed ==
    /\ rec.st = "dial" => conn = NoConn \/ link[conn] = "closed"
    /\ rec.st \in {"replay", "spawn"} => rec.on \in Conns /\ conn \in {NoConn, rec.on}

\* BreakIsNoticed, also while a finished reconnect still has the flag.
Watched ==
    (InstalledBroken /\ ~closed /\ ~missed) =>
        \/ triggers > 0
        \/ rec.st \in {"dial", "replay", "spawn"}
        \/ \E i \in Conns : Running(reader[i])

IInv == Shape /\ Installed /\ ConnectionIsServed /\ Watched

-----------------------------------------------------------------------------
\* There is no connection at the start.
LEMMA InitIInv == Init => IInv
<1> USE WsAssumption DEF Conns, NoConn, MaybeConn
<1>1. ASSUME Init PROVE Shape
    BY <1>1 DEF Init, Shape, LoopSet, LoopStates, LinkStates, RecStates, Loop, NoLoop,
                NoRec, NoMsg
<1>2. ASSUME Init PROVE Installed /\ ConnectionIsServed /\ Watched
    BY <1>2 DEF Init, Installed, ConnectionIsServed, Serves, Watched, InstalledBroken,
                Running, Loop, NoLoop, NoRec
<1> QED
    BY <1>1, <1>2 DEF IInv

\* Every step keeps the types.
LEMMA ShapeStep == Shape /\ Installed /\ [Next]_vars => Shape'
<1> SUFFICES ASSUME Shape, Installed, [Next]_vars PROVE Shape'
    OBVIOUS
<1> USE WsAssumption DEF Shape, MaybeConn, RecStates, LinkStates, LoopStates
<1>1. ASSUME NEW t \in Types, Send(t) PROVE sendCh' \in Seq(Msg) /\ sent' \in 0..MaxMsgs
    BY <1>1 DEF Send, Msg, Types
<1>2. ASSUME \/ Record \/ StartMission \/ EndMission PROVE Shape'
    BY <1>1, <1>2 DEF Record, StartMission, EndMission, client, loops, net, Types, Calls
<1>3. ASSUME CacheStart \/ \E t \in Calls : TimeOut(t) \/ TakeAck(t) PROVE Shape'
    BY <1>3 DEF CacheStart, TimeOut, TakeAck, queue, loops, net
<1>4. CASE Close
    BY <1>4 DEF Close, CloseConn, Down, queue, loops, NoConn
<1>5. ASSUME NEW i \in Conns, Break(i) PROVE Shape'
    BY <1>5 DEF Break, Down, client, queue, loops
<1>6. ASSUME NEW i \in Conns, Write(i) PROVE Shape'
  <2>1. CASE WriterTake(i)
    <3>1. sendCh' \in Seq(Msg) /\ Head(sendCh) \in Msg
      BY <2>1 DEF WriterTake
    <3>2. writer' \in [Conns -> LoopSet]
      BY <2>1, <3>1 DEF WriterTake, Loop, LoopSet
    <3> QED
      BY <2>1, <3>1, <3>2 DEF WriterTake, client, net
  <2>2. CASE WriterStop(i)
    BY <2>2 DEF WriterStop, Stopped, Loop, LoopSet, client, queue, net
  <2>3. CASE WriterWrite(i)
    BY <2>3 DEF WriterWrite, Loop, LoopSet, client, queue
  <2>4. CASE WriterFail(i)
    BY <2>4 DEF WriterFail, Trigger, Stopped, Loop, LoopSet, client, queue, net
  <2> QED
    BY <1>6, <2>1, <2>2, <2>3, <2>4 DEF Write
<1>7. ASSUME NEW i \in Conns, Read(i) PROVE Shape'
  <2>1. reader' \in [Conns -> LoopSet]
    <3>1. Stopped \in LoopSet /\ Loop("load", NoMsg, NoConn) \in LoopSet
      BY DEF Stopped, Loop, LoopSet
    <3>2. conn # NoConn => Loop("read", NoMsg, conn) \in LoopSet
      BY DEF Loop, LoopSet
    <3>3. \E l \in LoopSet : reader' = [reader EXCEPT ![i] = l]
      BY <1>7, <3>1, <3>2 DEF Read, ReaderLoad, ReaderGet, ReaderFail
    <3> QED
      BY <3>3
  <2>2. UNCHANGED <<conn, sendCh, sent, writer, rec, link>> /\ triggers' \in {triggers, triggers + 1}
    BY <1>7 DEF Read, ReaderLoad, ReaderGet, ReaderFail, Trigger, client, queue, net
  <2> QED
    BY <2>1, <2>2
<1>8. CASE Reconnect
  <2> DEFINE Rec == [st : RecStates, tries : Nat, on : MaybeConn]
  <2>0. ASSUME NextTry PROVE rec' \in Rec
    <3>1. [st |-> "dial", tries |-> rec.tries + 1, on |-> NoConn] \in Rec
      OBVIOUS
    <3>2. [rec EXCEPT !.st = "release"] \in Rec
      OBVIOUS
    <3> QED
      BY <2>0, <3>1, <3>2 DEF NextTry
  <2>1. CASE SkipReconnect
    BY <2>1 DEF SkipReconnect, client, queue, loops, net
  <2>2. CASE BeginReconnect
    BY <2>2 DEF BeginReconnect, CloseConn, Down, queue, loops
  <2>3. CASE DialFails
    BY <2>0, <2>3 DEF DialFails, client, queue, loops, net
  <2>4. CASE DialSucceeds
    <3>1. PICK n \in Conns : /\ link' = [link EXCEPT ![n] = "up"] /\ conn' = n
                             /\ rec' = [rec EXCEPT !.st = IF cached THEN "replay" ELSE "spawn",
                                                   !.on = n]
      BY <2>4 DEF DialSucceeds, Install
    <3>2. conn' \in MaybeConn /\ link' \in [Conns -> LinkStates]
      BY <3>1
    <3>3. rec' \in Rec
      <4>1. \A st \in {"replay", "spawn"} : [rec EXCEPT !.st = st, !.on = n] \in Rec
        OBVIOUS
      <4> QED
        BY <3>1, <4>1
    <3> QED
      BY <2>4, <3>2, <3>3 DEF DialSucceeds, Install, queue
  <2>5. CASE ReplayStart
    BY <2>5 DEF ReplayStart, client, queue, loops
  <2>6. CASE ReplayFails
    BY <2>0, <2>6 DEF ReplayFails, Down, client, queue, loops
  <2>7. CASE StartLoops
    BY <2>7 DEF StartLoops, Installed, Loop, LoopSet, client, queue, net
  <2>8. CASE Release
    BY <2>8 DEF Release, NoRec, client, queue, loops, net
  <2> QED
    BY <1>8, <2>1, <2>2, <2>3, <2>4, <2>5, <2>6, <2>7, <2>8 DEF Reconnect
<1>9. CASE UNCHANGED vars
    BY <1>9 DEF vars
<1> QED
    BY <1>2, <1>3, <1>4, <1>5, <1>6, <1>7, <1>8, <1>9 DEF Next

\* A reconnect dials only when the connection before is gone, and installs its own.
LEMMA InstalledStep == Shape /\ Installed /\ [Next]_vars => Installed'
<1> SUFFICES ASSUME Shape, Installed, [Next]_vars PROVE Installed'
    OBVIOUS
<1> USE DEF Installed, Shape, MaybeConn, NoConn
<1> DEFINE Same == UNCHANGED <<conn, link, rec>>
<1>1. ASSUME Same PROVE Installed'
    BY <1>1
<1>2. ASSUME \/ Record \/ CacheStart \/ StartMission \/ EndMission
             \/ \E t \in Calls : TimeOut(t) \/ TakeAck(t)
             \/ \E i \in Conns : Write(i) \/ Read(i)
      PROVE  Same
    BY <1>2 DEF Record, CacheStart, StartMission, EndMission, TimeOut, TakeAck, Write,
        WriterTake, WriterStop, WriterWrite, WriterFail, Read, ReaderLoad, ReaderGet,
        ReaderFail, client, net
<1>3. CASE Close
    BY <1>3 DEF Close, CloseConn, Down
<1>4. ASSUME NEW i \in Conns, Break(i) PROVE Installed'
    BY <1>4 DEF Break, Down, client
<1>5. CASE Reconnect
  <2>1. CASE SkipReconnect
    BY <1>1, <2>1 DEF SkipReconnect, client, net
  <2>2. CASE BeginReconnect
    BY <2>2 DEF BeginReconnect, CloseConn, Down
  <2>3. CASE DialFails
    BY <2>3 DEF DialFails, NextTry, client, net
  <2>4. CASE DialSucceeds
    BY <2>4 DEF DialSucceeds, Install
  <2>5. CASE ReplayStart
    BY <2>5 DEF ReplayStart, client
  <2>6. CASE ReplayFails
    BY <2>6 DEF ReplayFails, NextTry, Down, client
  <2>7. CASE StartLoops \/ Release
    BY <2>7 DEF StartLoops, Release, NoRec, client, net
  <2> QED
    BY <1>5, <2>1, <2>2, <2>3, <2>4, <2>5, <2>6, <2>7 DEF Reconnect
<1>6. CASE UNCHANGED vars
    BY <1>1, <1>6 DEF vars
<1> QED
    BY <1>1, <1>2, <1>3, <1>4, <1>5, <1>6 DEF Next

\* The loops of the installed connection are its own.
LEMMA ServedStep ==
    Shape /\ Installed /\ ConnectionIsServed /\ [Next]_vars => ConnectionIsServed'
<1> SUFFICES ASSUME Shape, Installed, ConnectionIsServed, [Next]_vars PROVE ConnectionIsServed'
    OBVIOUS
<1> USE DEF ConnectionIsServed, Serves, Shape, MaybeConn, NoConn, Running
<1>1. ASSUME UNCHANGED <<conn, link, rec, closed, loops>> PROVE ConnectionIsServed'
    BY <1>1 DEF loops
<1>2. ASSUME \/ Record \/ CacheStart \/ StartMission \/ EndMission
             \/ \E t \in Calls : TimeOut(t) \/ TakeAck(t)
             \/ SkipReconnect
      PROVE  UNCHANGED <<conn, link, rec, closed, loops>>
    BY <1>2 DEF Record, CacheStart, StartMission, EndMission, TimeOut, TakeAck,
        SkipReconnect, client, net
<1>3. CASE Close
    BY <1>3 DEF Close
<1>4. ASSUME NEW i \in Conns, Break(i) PROVE ConnectionIsServed'
    BY <1>4 DEF Break, Down, client, loops
<1>5. ASSUME NEW i \in Conns, Write(i) PROVE ConnectionIsServed'
  <2>1. CASE WriterTake(i)
    BY <2>1 DEF WriterTake, Loop, client, net
  <2>2. CASE WriterStop(i)
    BY <2>2 DEF WriterStop, client
  <2>3. CASE WriterWrite(i)
    BY <2>3 DEF WriterWrite, Loop, client
  <2>4. CASE WriterFail(i)
    BY <2>4 DEF WriterFail, client, net
  <2> QED
    BY <1>5, <2>1, <2>2, <2>3, <2>4 DEF Write
<1>6. ASSUME NEW i \in Conns, Read(i) PROVE ConnectionIsServed'
  <2>1. CASE ReaderLoad(i)
    BY <2>1 DEF ReaderLoad, Loop, client, net
  <2>2. CASE ReaderGet(i)
    BY <2>2 DEF ReaderGet, Loop, client
  <2>3. CASE ReaderFail(i)
    BY <2>3 DEF ReaderFail, client, net
  <2> QED
    BY <1>6, <2>1, <2>2, <2>3 DEF Read
<1>7. CASE Reconnect
  <2>1. CASE BeginReconnect
    BY <1>1, <2>1 DEF BeginReconnect, CloseConn
  <2>2. CASE DialFails
    BY <2>2 DEF DialFails, Installed, client, net
  <2>3. CASE DialSucceeds
    BY <2>3 DEF DialSucceeds, Install
  <2>4. CASE ReplayStart
    BY <2>4 DEF ReplayStart
  <2>5. CASE ReplayFails
    BY <2>5 DEF ReplayFails, Installed, Down, client
  <2>6. CASE StartLoops
    BY <2>6 DEF StartLoops, Installed, Loop, client, net
  <2>7. CASE Release
    BY <2>7 DEF Release, client, loops, net
  <2> QED
    BY <1>1, <1>2, <1>7, <2>1, <2>2, <2>3, <2>4, <2>5, <2>6, <2>7 DEF Reconnect
<1>8. CASE UNCHANGED vars
    BY <1>1, <1>8 DEF vars, loops
<1> QED
    BY <1>1, <1>2, <1>3, <1>4, <1>5, <1>6, <1>7, <1>8 DEF Next

\* A failure of the installed connection keeps a loop or a reconnect that will see it.
LEMMA WatchedStep ==
    Shape /\ Installed /\ ConnectionIsServed /\ Watched /\ [Next]_vars => Watched'
<1> SUFFICES ASSUME Shape, Installed, ConnectionIsServed, Watched, [Next]_vars
             PROVE  Watched'
    OBVIOUS
<1>0. triggers' \in Nat
    BY ShapeStep DEF Shape
<1> USE DEF Watched, InstalledBroken, Shape, MaybeConn, NoConn, Running, RecStates
<1>1. ASSUME UNCHANGED <<conn, link, rec, closed, missed, reader>>, triggers' >= triggers
      PROVE  Watched'
  <2>1. triggers > 0 => triggers' > 0
    BY <1>0, <1>1
  <2> QED
    BY <1>1, <2>1
<1>2. ASSUME \/ Record \/ CacheStart \/ StartMission \/ EndMission
             \/ \E t \in Calls : TimeOut(t) \/ TakeAck(t)
             \/ \E i \in Conns : Write(i)
      PROVE  UNCHANGED <<conn, link, rec, closed, missed, reader>> /\ triggers' >= triggers
    BY <1>2 DEF Record, CacheStart, StartMission, EndMission, TimeOut, TakeAck, Write,
        WriterTake, WriterStop, WriterWrite, WriterFail, Trigger, client, loops, net, seen
<1>3. CASE Close
    BY <1>3 DEF Close
<1>4. ASSUME NEW i \in Conns, Break(i) PROVE Watched'
    BY <1>4 DEF Break, Down, ConnectionIsServed, Serves, client, loops, seen
<1>5. ASSUME NEW i \in Conns, Read(i) PROVE Watched'
  <2>1. CASE ReaderLoad(i)
    BY <2>1 DEF ReaderLoad, Loop, client, net
  <2>2. CASE ReaderGet(i)
    BY <2>2 DEF ReaderGet, Loop
  <2>3. CASE ReaderFail(i)
    BY <2>3 DEF ReaderFail, Trigger, client
  <2> QED
    BY <1>5, <2>1, <2>2, <2>3 DEF Read
<1>6. CASE Reconnect
  <2>1. CASE SkipReconnect
    BY <2>1 DEF SkipReconnect, client, loops, net
  <2>2. CASE BeginReconnect
    BY <2>2 DEF BeginReconnect
  <2>3. CASE DialFails
    BY <2>3 DEF DialFails, Installed, client, net
  <2>4. CASE DialSucceeds
    BY <2>4 DEF DialSucceeds, Install
  <2>5. CASE ReplayStart
    BY <2>5 DEF ReplayStart
  <2>6. CASE ReplayFails
    BY <2>6 DEF ReplayFails, Installed, Down, client
  <2>7. CASE StartLoops
    BY <2>7 DEF StartLoops, Installed, Loop, client, net
  <2>8. CASE Release
    BY <2>8 DEF Release, client, loops, net, seen
  <2> QED
    BY <1>6, <2>1, <2>2, <2>3, <2>4, <2>5, <2>6, <2>7, <2>8 DEF Reconnect
<1>7. CASE UNCHANGED vars
    BY <1>1, <1>7 DEF vars
<1> QED
    BY <1>1, <1>2, <1>3, <1>4, <1>5, <1>6, <1>7 DEF Next

\* The invariant of the connections holds in every reachable state.
LEMMA AlwaysIInv == Spec => []IInv
<1>1. IInv /\ [Next]_vars => IInv'
    BY ShapeStep, InstalledStep, ServedStep, WatchedStep DEF IInv
<1> QED
    BY <1>1, InitIInv, PTL DEF Spec

\* A working connection that is installed is served by the two loops started for
\* it, however dials, failures, older loops, late reconnects and close interleave
\* (reconnect, writeLoop, readLoop).
THEOREM WorkingConnectionIsServed == Spec => []ConnectionIsServed
<1>1. IInv => ConnectionIsServed
    BY DEF IInv
<1> QED
    BY <1>1, AlwaysIInv, PTL

\* The failure of an installed connection is noticed without anything being
\* sent, unless it is skipped between the two last steps of a reconnect (readLoop,
\* reconnect).
THEOREM FailuresAreNoticed == Spec => []BreakIsNoticed
<1>1. IInv => BreakIsNoticed
    BY DEF IInv, Watched, BreakIsNoticed
<1> QED
    BY <1>1, AlwaysIInv, PTL

-----------------------------------------------------------------------------
(* What the server receives, and in which order *)

Holds(i) == writer[i].st = "write"

\* The messages of the calls of send: numbers grow along the queue.
QueueNumbers ==
    /\ \A a \in DOMAIN sendCh : sendCh[a].id \in 1..sent
    /\ \A a, b \in DOMAIN sendCh : a < b => sendCh[a].id < sendCh[b].id

\* What a write loop holds has left the queue, and no other loop holds it.
HeldNumbers ==
    \A i \in Conns : Holds(i) =>
        /\ writer[i].on \in Conns
        /\ writer[i].msg \in Msg /\ writer[i].msg.id \in 1..sent
        /\ \A a \in DOMAIN sendCh : writer[i].msg.id < sendCh[a].id
        /\ \A j \in Conns : i # j /\ Holds(j) => writer[i].msg.id # writer[j].msg.id

\* What has arrived is neither in the queue nor held.
ReceivedNumbers ==
    \A i \in Conns : \A m \in DOMAIN received[i] : received[i][m].id # 0 =>
        /\ received[i][m].id \in 1..sent
        /\ \A a \in DOMAIN sendCh : received[i][m].id < sendCh[a].id
        /\ \A j \in Conns : Holds(j) => received[i][m].id # writer[j].msg.id

\* No number arrives twice, and the number 0 of a replay once per connection.
ArrivedOnce ==
    \A i, j \in Conns : \A m \in DOMAIN received[i], n \in DOMAIN received[j] :
        (received[i][m].id = received[j][n].id /\ (i # j \/ m # n)) =>
            received[i][m].id = 0 /\ i # j

Numbered == /\ received \in [Conns -> Seq(Msg)]
            /\ QueueNumbers /\ HeldNumbers /\ ReceivedNumbers /\ ArrivedOnce

\* Nothing arrives before the dial, connections are dialled in their order, the
\* newest is installed, and a replay comes first.
Dialled ==
    /\ \A i \in Conns : link[i] = "unused" =>
          /\ received[i] = <<>>
          /\ \A j \in Conns : i < j => link[j] = "unused"
    /\ conn # NoConn =>
          /\ link[conn] # "unused"
          /\ \A i \in Conns : conn < i => link[i] = "unused"
    /\ rec.st = "replay" =>
          /\ rec.on \in Conns /\ link[rec.on] # "unused"
          /\ \A n \in DOMAIN received[rec.on] : received[rec.on][n].id # 0

DeliveryInv == Numbered /\ Dialled

-----------------------------------------------------------------------------
\* A message is a replay or has a number.
LEMMA MessageNumbers ==
    /\ \A m \in Msg : m.id \in Nat /\ (m.id = 0 <=> m = Replay)
    /\ Replay \in Msg /\ Replay.id = 0
    BY WsAssumption DEF Msg, Replay

\* One more message arrives by connection c.
LEMMA Arrives ==
    ASSUME received \in [Conns -> Seq(Msg)], NEW c \in Conns, NEW x \in Msg,
           received' = [received EXCEPT ![c] = Append(@, x)]
    PROVE  /\ received' \in [Conns -> Seq(Msg)]
           /\ \A i \in Conns \ {c} : received'[i] = received[i]
           /\ Len(received[c]) \in Nat
           /\ DOMAIN received[c] = 1..Len(received[c])
           /\ DOMAIN received'[c] = 1..(Len(received[c]) + 1)
           /\ \A n \in DOMAIN received[c] : received'[c][n] = received[c][n]
           /\ received'[c][Len(received[c]) + 1] = x
<1>1. received[c] \in Seq(Msg)
    OBVIOUS
<1>2. received'[c] = Append(received[c], x)
    OBVIOUS
<1> QED
    BY <1>1, <1>2

\* Nothing has been sent at the start.
LEMMA InitDelivery == Init => DeliveryInv
<1> SUFFICES ASSUME Init PROVE DeliveryInv
    OBVIOUS
<1> USE WsAssumption DEF Init, Conns, NoConn
<1>1. received \in [Conns -> Seq(Msg)]
    OBVIOUS
<1>2. QueueNumbers /\ HeldNumbers
    BY DEF QueueNumbers, HeldNumbers, Holds, Loop, NoLoop
<1>3. ReceivedNumbers /\ ArrivedOnce
    BY DEF ReceivedNumbers, ArrivedOnce
<1>4. Dialled
    BY DEF Dialled, NoRec
<1> QED
    BY <1>1, <1>2, <1>3, <1>4 DEF DeliveryInv, Numbered

\* Steps after which nothing has moved but that a loop may have dropped what it
\* held, and no message arrives.
LEMMA NothingMoves ==
    ASSUME Shape, Numbered, UNCHANGED <<received, sendCh, sent>>,
           \A i \in Conns : Holds(i)' => Holds(i) /\ writer'[i] = writer[i]
    PROVE  Numbered'
<1> USE DEF Numbered
<1>1. QueueNumbers'
    BY DEF QueueNumbers
<1>2. HeldNumbers'
  <2> SUFFICES ASSUME NEW i \in Conns, Holds(i)'
               PROVE  /\ writer[i].on \in Conns
                      /\ writer[i].msg \in Msg /\ writer[i].msg.id \in 1..sent
                      /\ \A a \in DOMAIN sendCh : writer[i].msg.id < sendCh[a].id
                      /\ \A j \in Conns :
                            i # j /\ Holds(j)' => writer[i].msg.id # writer'[j].msg.id
    BY DEF HeldNumbers, Holds
  <2>1. Holds(i)
    OBVIOUS
  <2> QED
    BY <2>1 DEF HeldNumbers
<1>3. ReceivedNumbers'
    BY DEF ReceivedNumbers, Holds
<1>4. ArrivedOnce'
    BY DEF ArrivedOnce
<1> QED
    BY <1>1, <1>2, <1>3, <1>4

\* A message that is sent has a new number, whether the queue takes it or drops it.
LEMMA SendDelivery ==
    ASSUME Shape, Numbered, NEW t \in Types, Send(t), UNCHANGED <<received, writer>>
    PROVE  Numbered'
<1> USE DEF Numbered
<1>1. ArrivedOnce'
    BY DEF ArrivedOnce
<1>2. sent \in Nat /\ sent' = sent + 1
    BY WsAssumption DEF Shape, Send
<1>3. CASE UNCHANGED sendCh
  <2>1. QueueNumbers'
    BY <1>2, <1>3 DEF QueueNumbers
  <2>2. HeldNumbers'
    BY <1>2, <1>3 DEF HeldNumbers, Holds
  <2>3. ReceivedNumbers'
    BY <1>2, <1>3 DEF ReceivedNumbers, Holds
  <2> QED
    BY <1>1, <2>1, <2>2, <2>3
<1>4. CASE sendCh' = Append(sendCh, [id |-> sent', type |-> t])
  <2> DEFINE x == [id |-> sent', type |-> t]
  <2>1. x.id = sent + 1
    BY <1>2
  <2>2. x \in Msg
    <3>1. sent' \in 1..MaxMsgs
      BY <1>2, WsAssumption DEF Send
    <3> QED
      BY <3>1 DEF Msg
  <2> HIDE DEF x
  <2>3. /\ Len(sendCh) \in Nat /\ DOMAIN sendCh = 1..Len(sendCh)
        /\ DOMAIN sendCh' = 1..(Len(sendCh) + 1)
        /\ \A a \in DOMAIN sendCh : sendCh'[a] = sendCh[a]
        /\ sendCh'[Len(sendCh) + 1] = x
    BY <1>4, <2>2 DEF Shape, x
  <2>4. QueueNumbers'
    <3>1. ASSUME NEW a \in DOMAIN sendCh' PROVE sendCh'[a].id \in 1..sent'
      <4>1. CASE a = Len(sendCh) + 1
        BY <1>2, <2>1, <2>3, <4>1
      <4>2. CASE a \in DOMAIN sendCh
        <5>1. sendCh[a].id \in 1..sent
          BY <4>2 DEF QueueNumbers
        <5> QED
          BY <1>2, <2>3, <4>2, <5>1
      <4> QED
        BY <2>3, <4>1, <4>2
    <3>2. ASSUME NEW a \in DOMAIN sendCh', NEW b \in DOMAIN sendCh', a < b
          PROVE  sendCh'[a].id < sendCh'[b].id
      <4>1. a \in DOMAIN sendCh /\ sendCh'[a] = sendCh[a] /\ sendCh[a].id \in 1..sent
        BY <2>3, <3>2 DEF QueueNumbers
      <4>2. CASE b = Len(sendCh) + 1
        BY <1>2, <2>1, <2>3, <4>1, <4>2
      <4>3. CASE b \in DOMAIN sendCh
        BY <2>3, <3>2, <4>1, <4>3 DEF QueueNumbers
      <4> QED
        BY <2>3, <4>2, <4>3
    <3> QED
      BY <3>1, <3>2 DEF QueueNumbers
  <2>5. HeldNumbers'
    <3> SUFFICES ASSUME NEW k \in Conns, Holds(k)
                 PROVE  /\ writer[k].msg.id \in 1..sent'
                        /\ \A a \in DOMAIN sendCh' : writer[k].msg.id < sendCh'[a].id
      BY DEF HeldNumbers, Holds
    <3>1. /\ writer[k].msg.id \in 1..sent
          /\ \A a \in DOMAIN sendCh : writer[k].msg.id < sendCh[a].id
      BY DEF HeldNumbers
    <3>2. writer[k].msg.id < sendCh'[Len(sendCh) + 1].id
      BY <1>2, <2>1, <2>3, <3>1
    <3>3. ASSUME NEW a \in DOMAIN sendCh'
          PROVE  writer[k].msg.id < sendCh'[a].id
      <4>1. CASE a = Len(sendCh) + 1
        BY <3>2, <4>1
      <4>2. CASE a \in DOMAIN sendCh
        BY <2>3, <3>1, <4>2
      <4> QED
        BY <2>3, <4>1, <4>2
    <3>4. writer[k].msg.id \in 1..sent'
      BY <1>2, <3>1
    <3> QED
      BY <3>3, <3>4
  <2>6. ReceivedNumbers'
    <3> SUFFICES ASSUME NEW i \in Conns, NEW m \in DOMAIN received[i],
                        received[i][m].id # 0
                 PROVE  /\ received[i][m].id \in 1..sent'
                        /\ \A a \in DOMAIN sendCh' : received[i][m].id < sendCh'[a].id
                        /\ \A j \in Conns : Holds(j) => received[i][m].id # writer[j].msg.id
      BY DEF ReceivedNumbers, Holds
    <3>1. /\ received[i][m].id \in 1..sent
          /\ \A a \in DOMAIN sendCh : received[i][m].id < sendCh[a].id
          /\ \A j \in Conns : Holds(j) => received[i][m].id # writer[j].msg.id
      BY DEF ReceivedNumbers
    <3>2. received[i][m].id < sendCh'[Len(sendCh) + 1].id
      BY <1>2, <2>1, <2>3, <3>1
    <3>3. ASSUME NEW a \in DOMAIN sendCh'
          PROVE  received[i][m].id < sendCh'[a].id
      <4>1. CASE a = Len(sendCh) + 1
        BY <3>2, <4>1
      <4>2. CASE a \in DOMAIN sendCh
        BY <2>3, <3>1, <4>2
      <4> QED
        BY <2>3, <4>1, <4>2
    <3>4. received[i][m].id \in 1..sent'
      BY <1>2, <3>1
    <3> QED
      BY <3>1, <3>3, <3>4
  <2> QED
    BY <1>1, <2>4, <2>5, <2>6
<1> QED
    BY <1>3, <1>4 DEF Send

\* A write loop takes the head of the queue, the oldest message that is left.
LEMMA TakeDelivery ==
    ASSUME Shape, Numbered, NEW i \in Conns, WriterTake(i)
    PROVE  Numbered'
<1> USE DEF Numbered
<1> DEFINE x == Head(sendCh)
<1>1. /\ writer[i].st = "select" /\ sendCh # <<>> /\ sendCh' = Tail(sendCh)
      /\ writer' = IF conn = NoConn THEN writer
                   ELSE [writer EXCEPT ![i] = Loop("write", x, conn)]
      /\ UNCHANGED <<received, sent>>
    BY DEF WriterTake, net
<1>2. /\ x \in Msg /\ x = sendCh[1] /\ 1 \in DOMAIN sendCh
      /\ \A a \in DOMAIN sendCh' : a + 1 \in DOMAIN sendCh /\ sendCh'[a] = sendCh[a + 1]
                                   /\ a \in Nat \ {0}
    BY <1>1 DEF Shape
<1> HIDE DEF x
<1>3. QueueNumbers'
    BY <1>1, <1>2 DEF QueueNumbers
<1>4. \A a \in DOMAIN sendCh' : x.id < sendCh'[a].id
    BY <1>1, <1>2 DEF QueueNumbers
<1>5. CASE conn = NoConn
  <2>1. HeldNumbers'
    BY <1>1, <1>2, <1>5 DEF HeldNumbers, Holds
  <2>2. ReceivedNumbers'
    BY <1>1, <1>2, <1>5 DEF ReceivedNumbers, Holds
  <2> QED
    BY <1>1, <1>3, <2>1, <2>2 DEF ArrivedOnce
<1>6. CASE conn # NoConn
  <2>1. /\ writer'[i].st = "write" /\ writer'[i].msg = x /\ writer'[i].on = conn
        /\ \A j \in Conns : j # i => writer'[j] = writer[j]
        /\ conn \in Conns
    BY <1>1, <1>6 DEF Shape, Loop, MaybeConn
  <2>2. x.id \in 1..sent
    BY <1>2 DEF QueueNumbers
  <2>3. \A j \in Conns : Holds(j) => writer[j].msg.id < x.id /\ writer[j].msg.id \in Nat
    BY <1>2 DEF HeldNumbers
  <2>4. HeldNumbers'
    <3> SUFFICES ASSUME NEW k \in Conns, Holds(k)'
                 PROVE  /\ writer'[k].on \in Conns
                        /\ writer'[k].msg \in Msg /\ writer'[k].msg.id \in 1..sent
                        /\ \A a \in DOMAIN sendCh' : writer'[k].msg.id < sendCh'[a].id
                        /\ \A j \in Conns : k # j /\ Holds(j)' =>
                              writer'[k].msg.id # writer'[j].msg.id
      BY <1>1 DEF HeldNumbers
    <3>1. CASE k = i
      BY <1>1, <1>2, <1>4, <2>1, <2>2, <2>3, <3>1 DEF Holds
    <3>2. CASE k # i
      BY <1>1, <1>2, <2>1, <2>2, <2>3, <3>2 DEF Holds, HeldNumbers
    <3> QED
      BY <3>1, <3>2
  <2>5. ReceivedNumbers'
    BY <1>1, <1>2, <2>1, <2>2 DEF ReceivedNumbers, Holds
  <2> QED
    BY <1>1, <1>3, <2>4, <2>5 DEF ArrivedOnce
<1> QED
    BY <1>5, <1>6

\* A write loop writes what it holds: it arrives, or is lost on the way.
LEMMA WriteDelivery ==
    ASSUME Shape, Numbered, NEW i \in Conns, WriterWrite(i)
    PROVE  Numbered'
<1> USE DEF Numbered
<1> DEFINE x == writer[i].msg
           c == writer[i].on
<1>1. /\ Holds(i) /\ Written(c, x)
      /\ writer' = [writer EXCEPT ![i] = Loop("select", NoMsg, NoConn)]
      /\ UNCHANGED <<sendCh, sent>>
    BY DEF WriterWrite, Holds, queue
<1>2. /\ c \in Conns /\ x \in Msg /\ x.id \in 1..sent /\ x.id # 0
      /\ \A a \in DOMAIN sendCh : x.id < sendCh[a].id
      /\ \A j \in Conns : i # j /\ Holds(j) => x.id # writer[j].msg.id
    BY <1>1 DEF HeldNumbers
<1>3. \A j \in Conns : Holds(j)' => Holds(j) /\ writer'[j] = writer[j] /\ j # i
    BY <1>1 DEF Shape, Holds, Loop
<1>4. CASE UNCHANGED received
    BY <1>1, <1>3, <1>4, NothingMoves
<1>5. CASE received' = [received EXCEPT ![c] = Append(@, x)]
  <2> HIDE DEF c
  <2> DEFINE last == Len(received[c]) + 1
  <2>1. \A j \in Conns : \A n \in DOMAIN received[j] : received[j][n].id # x.id
    BY <1>1, <1>2 DEF ReceivedNumbers
  <2> HIDE DEF x
  <2>2. /\ received' \in [Conns -> Seq(Msg)]
        /\ \A j \in Conns \ {c} : received'[j] = received[j]
        /\ \A n \in DOMAIN received[c] : received'[c][n] = received[c][n]
        /\ DOMAIN received[c] \subseteq DOMAIN received'[c]
        /\ DOMAIN received'[c] = DOMAIN received[c] \union {last}
        /\ received'[c][last] = x
    BY <1>2, <1>5, Arrives
  <2> HIDE DEF last
  <2>3. ASSUME NEW j \in Conns, NEW n \in DOMAIN received'[j]
        PROVE  \/ j = c /\ n = last /\ received'[j][n] = x
               \/ n \in DOMAIN received[j] /\ received'[j][n] = received[j][n]
    BY <2>2, <2>3
  <2>4. QueueNumbers'
    BY <1>1 DEF QueueNumbers
  <2>5. HeldNumbers'
    BY <1>1, <1>3 DEF HeldNumbers
  <2>6. ReceivedNumbers'
    <3> SUFFICES ASSUME NEW j \in Conns, NEW n \in DOMAIN received'[j],
                        received'[j][n].id # 0
                 PROVE  /\ received'[j][n].id \in 1..sent
                        /\ \A a \in DOMAIN sendCh : received'[j][n].id < sendCh[a].id
                        /\ \A k \in Conns : Holds(k) /\ k # i =>
                              received'[j][n].id # writer[k].msg.id
      BY <1>1, <1>3 DEF ReceivedNumbers
    <3>1. CASE received'[j][n] = x
      BY <1>2, <3>1
    <3>2. CASE n \in DOMAIN received[j] /\ received'[j][n] = received[j][n]
      BY <3>2 DEF ReceivedNumbers
    <3> QED
      BY <2>3, <3>1, <3>2
  <2>7. ArrivedOnce'
    <3> SUFFICES ASSUME NEW j \in Conns, NEW k \in Conns,
                        NEW m \in DOMAIN received'[j], NEW n \in DOMAIN received'[k],
                        received'[j][m].id = received'[k][n].id, j # k \/ m # n
                 PROVE  received'[j][m].id = 0 /\ j # k
      BY DEF ArrivedOnce
    <3>1. /\ m \in DOMAIN received[j] /\ received'[j][m] = received[j][m]
          /\ n \in DOMAIN received[k] /\ received'[k][n] = received[k][n]
      BY <2>1, <2>3
    <3> QED
      BY <3>1 DEF ArrivedOnce
  <2> QED
    BY <2>2, <2>4, <2>5, <2>6, <2>7
<1> QED
    BY <1>1, <1>4, <1>5 DEF Written

\* The replay of a start arrives, as the first by its connection, or is lost.
LEMMA ReplayDelivery ==
    ASSUME Shape, Numbered, Dialled, ReplayStart
    PROVE  Numbered'
<1> USE DEF Numbered
<1> DEFINE c == rec.on
<1>1. Written(c, Replay) /\ UNCHANGED <<sendCh, sent, writer>> /\ c \in Conns
      /\ \A n \in DOMAIN received[c] : received[c][n].id # 0
    BY DEF ReplayStart, Dialled, queue, loops
<1>2. CASE UNCHANGED received
    BY <1>1, <1>2, NothingMoves DEF Holds
<1>3. CASE received' = [received EXCEPT ![c] = Append(@, Replay)]
  <2> HIDE DEF c
  <2> DEFINE last == Len(received[c]) + 1
  <2>2. /\ received' \in [Conns -> Seq(Msg)]
        /\ \A j \in Conns \ {c} : received'[j] = received[j]
        /\ \A n \in DOMAIN received[c] : received'[c][n] = received[c][n]
        /\ DOMAIN received[c] \subseteq DOMAIN received'[c]
        /\ DOMAIN received'[c] = DOMAIN received[c] \union {last}
        /\ received'[c][last].id = 0
    BY <1>1, <1>3, Arrives, MessageNumbers
  <2> HIDE DEF last
  <2>3. ASSUME NEW j \in Conns, NEW n \in DOMAIN received'[j]
        PROVE  \/ j = c /\ n = last /\ received'[j][n].id = 0
               \/ n \in DOMAIN received[j] /\ received'[j][n] = received[j][n]
    BY <2>2, <2>3
  <2>4. QueueNumbers' /\ HeldNumbers'
    BY <1>1 DEF QueueNumbers, HeldNumbers, Holds
  <2>5. ReceivedNumbers'
    BY <1>1, <2>3 DEF ReceivedNumbers, Holds
  <2>6. ArrivedOnce'
    <3> SUFFICES ASSUME NEW j \in Conns, NEW k \in Conns,
                        NEW m \in DOMAIN received'[j], NEW n \in DOMAIN received'[k],
                        received'[j][m].id = received'[k][n].id, j # k \/ m # n
                 PROVE  received'[j][m].id = 0 /\ j # k
      BY DEF ArrivedOnce
    <3>1. CASE /\ m \in DOMAIN received[j] /\ received'[j][m] = received[j][m]
               /\ n \in DOMAIN received[k] /\ received'[k][n] = received[k][n]
      BY <3>1 DEF ArrivedOnce
    <3>2. CASE received'[j][m].id = 0
      <4>1. CASE j = c /\ k = c
        BY <1>1, <2>3, <3>2, <4>1
      <4>2. CASE j # c /\ k # c
        BY <2>3, <3>1, <4>2
      <4>3. CASE j # k
        BY <3>2, <4>3
      <4> QED
        BY <4>1, <4>2, <4>3
    <3> QED
      BY <2>3, <3>1, <3>2
  <2> QED
    BY <2>2, <2>4, <2>5, <2>6
<1> QED
    BY <1>1, <1>2, <1>3 DEF Written

\* Numbers grow along the queue, and each is in one place.
LEMMA NumberedStep ==
    ASSUME Shape, Installed, Numbered, Dialled, [Next]_vars
    PROVE  Numbered'
<1>1. CASE Record \/ StartMission \/ EndMission
    BY <1>1, SendDelivery DEF Record, StartMission, EndMission, loops, net, Types, Calls
<1>2. ASSUME NEW i \in Conns, Write(i)
      PROVE  Numbered'
  <2>1. CASE WriterStop(i) \/ WriterFail(i)
    <3>1. UNCHANGED <<received, sendCh, sent>> /\ writer' = [writer EXCEPT ![i] = Stopped]
      BY <2>1 DEF WriterStop, WriterFail, queue, net
    <3>2. \A j \in Conns : Holds(j)' => Holds(j) /\ writer'[j] = writer[j]
      BY <3>1 DEF Holds, Stopped, Loop, Shape
    <3> QED
      BY <3>1, <3>2, NothingMoves
  <2> QED
    BY <1>2, <2>1, TakeDelivery, WriteDelivery DEF Write
<1>3. CASE StartLoops
  <2>1. /\ UNCHANGED <<received, sendCh, sent>>
        /\ writer' = [writer EXCEPT ![rec.on] = Loop("select", NoMsg, NoConn)]
    BY <1>3 DEF StartLoops, queue, net
  <2>2. \A j \in Conns : Holds(j)' => Holds(j) /\ writer'[j] = writer[j]
    BY <2>1 DEF Holds, Loop, Shape
  <2> QED
    BY <2>1, <2>2, NothingMoves
<1>4. CASE \/ CacheStart \/ Close \/ (\E t \in Calls : TimeOut(t) \/ TakeAck(t))
           \/ (\E i \in Conns : Break(i) \/ Read(i))
           \/ SkipReconnect \/ BeginReconnect \/ DialFails \/ DialSucceeds
           \/ ReplayFails \/ Release \/ UNCHANGED vars
  <2>1. UNCHANGED <<received, sendCh, sent, writer>>
    BY <1>4 DEF CacheStart, Close, TimeOut, TakeAck, Break, Read, ReaderLoad, ReaderGet,
                ReaderFail, SkipReconnect, BeginReconnect, DialFails, DialSucceeds,
                Install, ReplayFails, Release, vars, queue, net, loops
  <2> QED
    BY <2>1, NothingMoves DEF Holds
<1> QED
    BY <1>1, <1>2, <1>3, <1>4, ReplayDelivery DEF Next, Reconnect

-----------------------------------------------------------------------------
\* Connections are dialled in their order, and nothing arrives before the dial.
LEMMA DialledStep ==
    ASSUME Shape, Installed, Numbered, Dialled, [Next]_vars
    PROVE  Dialled'
<1> USE DEF Shape, MaybeConn, NoConn
<1>0. /\ conn = 0 \/ conn \in Conns
      /\ received \in [Conns -> Seq(Msg)]
      /\ 0 \notin Conns /\ Conns \subseteq Nat
    BY DEF Numbered, Conns
<1>1. CASE UNCHANGED <<received, link, conn, rec>>
    BY <1>1 DEF Dialled
<1>2. CASE /\ UNCHANGED received /\ conn' \in {conn, NoConn}
           /\ rec' = rec \/ rec'.st # "replay"
           /\ \/ UNCHANGED link
              \/ \E i \in Conns, how \in {"broken", "closed"} :
                    link[i] # "unused" /\ link' = [link EXCEPT ![i] = how]
  <2>1. \A i \in Conns : link'[i] = "unused" <=> link[i] = "unused"
    BY <1>2
  <2> QED
    BY <1>0, <1>2, <2>1 DEF Dialled
<1>3. ASSUME NEW i \in Conns, WriterWrite(i)
      PROVE  Dialled'
  <2>1. UNCHANGED <<conn, rec, link>> /\ Written(writer[i].on, writer[i].msg)
    BY <1>3 DEF WriterWrite, client
  <2>2. writer[i].on \in Conns /\ writer[i].msg \in Msg /\ writer[i].msg.id # 0
    BY <1>3 DEF WriterWrite, Numbered, HeldNumbers, Holds
  <2>3. CASE UNCHANGED received
    BY <1>1, <2>1, <2>3
  <2>4. CASE /\ link[writer[i].on] = "up"
             /\ received' = [received EXCEPT ![writer[i].on] = Append(@, writer[i].msg)]
    <3> DEFINE c == writer[i].on
               x == writer[i].msg
    <3>1. /\ link[c] = "up" /\ x.id # 0
          /\ \A j \in Conns \ {c} : received'[j] = received[j]
          /\ \A n \in DOMAIN received'[c] :
                \/ received'[c][n] = x
                \/ n \in DOMAIN received[c] /\ received'[c][n] = received[c][n]
      BY <1>0, <2>2, <2>4, Arrives
    <3> HIDE DEF c, x
    <3> QED
      BY <2>1, <3>1 DEF Dialled
  <2> QED
    BY <2>1, <2>3, <2>4 DEF Written
<1>4. CASE ReplayStart
  <2>1. /\ rec'.st = "spawn" /\ UNCHANGED <<conn, link>>
        /\ UNCHANGED received \/ link[rec.on] = "up"
        /\ \A j \in Conns : j # rec.on => received'[j] = received[j]
    BY <1>0, <1>4 DEF ReplayStart, Written, client
  <2> QED
    BY <2>1 DEF Dialled
<1>5. CASE DialSucceeds
  <2>1. PICK n \in Conns :
          /\ link[n] = "unused"
          /\ \A k \in 1..(n - 1) : link[k] # "unused"
          /\ link' = [link EXCEPT ![n] = "up"]
          /\ conn' = n
          /\ rec' = [rec EXCEPT !.st = IF cached THEN "replay" ELSE "spawn", !.on = n]
    BY <1>5 DEF DialSucceeds, Install
  <2>2. UNCHANGED received /\ rec'.on = n
    BY <1>5, <2>1 DEF DialSucceeds, Install
  <2>3. link'[n] = "up" /\ \A j \in Conns : j # n => link'[j] = link[j]
    BY <2>1
  <2>4. /\ received[n] = <<>>
        /\ \A j \in Conns : n < j => link[j] = "unused"
        /\ \A j \in Conns : j < n => link[j] # "unused"
    BY <1>0, <2>1 DEF Dialled, Conns
  <2>5. \A j \in Conns : link'[j] = "unused" => link[j] = "unused" /\ n < j
    BY <1>0, <2>3, <2>4
  <2> QED
    BY <1>0, <2>1, <2>2, <2>3, <2>4, <2>5 DEF Dialled
<1>6. CASE Close \/ BeginReconnect \/ ReplayFails \/ (\E i \in Conns : Break(i))
  <2>1. conn # NoConn => conn \in Conns /\ link[conn] # "unused"
    BY <1>0 DEF Dialled
  <2>2. rec.st = "replay" => rec.on \in Conns /\ link[rec.on] # "unused"
    BY DEF Dialled
  <2>3. NextTry => rec'.st # "replay"
    BY DEF NextTry
  <2> QED
    BY <1>2, <1>6, <2>1, <2>2, <2>3
       DEF Close, CloseConn, Down, BeginReconnect, ReplayFails, Break, client, NoConn
<1>7. CASE DialFails \/ StartLoops \/ Release
  <2>1. rec'.st # "replay"
    BY <1>7 DEF DialFails, NextTry, StartLoops, Release, NoRec
  <2> QED
    BY <1>2, <1>7, <2>1 DEF DialFails, StartLoops, Release, client, net
<1>8. CASE \/ Record \/ CacheStart \/ StartMission \/ EndMission
           \/ (\E t \in Calls : TimeOut(t) \/ TakeAck(t))
           \/ (\E i \in Conns : WriterTake(i) \/ WriterStop(i) \/ WriterFail(i) \/ Read(i))
           \/ SkipReconnect \/ UNCHANGED vars
    BY <1>1, <1>8 DEF Record, CacheStart, StartMission, EndMission, TimeOut, TakeAck,
        WriterTake, WriterStop, WriterFail, Read, ReaderLoad, ReaderGet, ReaderFail,
        SkipReconnect, vars, client, net
<1> QED
    BY <1>3, <1>4, <1>5, <1>6, <1>7, <1>8 DEF Next, Write, Reconnect

\* Numbers stay unique and in order in every reachable state.
LEMMA AlwaysDelivered == Spec => [](IInv /\ DeliveryInv)
<1>1. IInv /\ DeliveryInv /\ [Next]_vars => DeliveryInv'
    BY NumberedStep, DialledStep DEF IInv, DeliveryInv
<1> QED
    BY <1>1, InitDelivery, AlwaysIInv, PTL DEF Spec

\* However often the connection is replaced, the server receives no message
\* twice, neither by one connection nor by two (a failed write is not retried);
\* only a start is replayed, once per connection (writeLoop, reconnect).
THEOREM NothingArrivesTwice == Spec => []AtMostOnce
<1>1. DeliveryInv => AtMostOnce
  <2> SUFFICES ASSUME DeliveryInv, NEW i \in Conns, NEW j \in Conns,
                      NEW m \in DOMAIN received[i], NEW n \in DOMAIN received[j],
                      received[i][m] = received[j][n], i # j \/ m # n
               PROVE  received[i][m] = Replay /\ i # j
    BY DEF AtMostOnce
  <2>1. received[i][m] \in Msg
    BY DEF DeliveryInv, Numbered
  <2>2. received[i][m].id = 0 /\ i # j
    BY DEF DeliveryInv, Numbered, ArrivedOnce
  <2> QED
    BY <2>1, <2>2, MessageNumbers
<1> QED
    BY <1>1, AlwaysDelivered, PTL

-----------------------------------------------------------------------------
(* The order of arrival *)

\* No two write loops run at once, and none before a reconnect has replayed the
\* start on its connection.
OneWriter ==
    ~crowded =>
        /\ \A i, j \in Conns : i # j => ~(Running(writer[i]) /\ Running(writer[j]))
        /\ rec.st \in {"replay", "spawn"} => \A i \in Conns : ~Running(writer[i])
        /\ rec.st = "replay" => received[rec.on] = <<>>

\* A replay is the first message of its connection.
ReplayFirst ==
    ~crowded => \A i \in Conns : \A n \in DOMAIN received[i] :
        received[i][n].id = 0 => n = 1

\* What a write loop holds is newer than all that has arrived, and goes to the
\* newest of the connections that messages have arrived by.
HeldIsNewest ==
    ~crowded => \A i \in Conns : Holds(i) =>
        \A c \in Conns : \A m \in DOMAIN received[c] : received[c][m].id # 0 =>
            received[c][m].id < writer[i].msg.id /\ c <= writer[i].on

ArrivedInOrder ==
    ~crowded => \A i, j \in Conns : \A m \in DOMAIN received[i], n \in DOMAIN received[j] :
        (received[i][m].id # 0 /\ received[j][n].id # 0 /\ (i < j \/ (i = j /\ m < n))) =>
            received[i][m].id < received[j][n].id

OrderInv == OneWriter /\ ReplayFirst /\ HeldIsNewest /\ ArrivedInOrder

\* Nothing has arrived at the start.
LEMMA InitOrder == Init => OrderInv
    BY DEF Init, OrderInv, OneWriter, ReplayFirst, HeldIsNewest, ArrivedInOrder, Running,
           NoLoop, NoRec, Loop, Holds

\* No message moves and no loop starts.
LEMMA OrderKept ==
    ASSUME Shape, OrderInv, UNCHANGED received, crowded' = crowded,
           rec' = rec \/ rec'.st \notin {"replay", "spawn"},
           \A i \in Conns : /\ Running(writer'[i]) => Running(writer[i])
                            /\ Holds(i)' => Holds(i) /\ writer'[i] = writer[i]
    PROVE  OrderInv'
<1> USE DEF OrderInv
<1>1. OneWriter'
    BY DEF OneWriter, Running
<1>2. HeldIsNewest'
    BY DEF HeldIsNewest, Holds
<1>3. ArrivedInOrder' /\ ReplayFirst'
    BY DEF ArrivedInOrder, ReplayFirst
<1> QED
    BY <1>1, <1>2, <1>3

\* A loop takes the oldest message of the queue.
LEMMA TakeOrder ==
    ASSUME Shape, DeliveryInv, OrderInv, NEW i \in Conns, WriterTake(i)
    PROVE  OrderInv'
<1> USE DEF OrderInv, DeliveryInv, Numbered
<1> DEFINE x == Head(sendCh)
<1>1. /\ writer[i].st = "select" /\ sendCh # <<>>
      /\ writer' = IF conn = NoConn THEN writer
                   ELSE [writer EXCEPT ![i] = Loop("write", x, conn)]
      /\ UNCHANGED <<received, crowded, rec>>
    BY DEF WriterTake, net, seen
<1>2. x = sendCh[1] /\ 1 \in DOMAIN sendCh
    BY <1>1 DEF Shape
<1> HIDE DEF x
<1>3. CASE conn = NoConn
    BY <1>1, <1>3, OrderKept DEF Holds
<1>4. CASE conn # NoConn
  <2>1. /\ writer'[i].st = "write" /\ writer'[i].msg = x /\ writer'[i].on = conn
        /\ \A j \in Conns : j # i => writer'[j] = writer[j]
    BY <1>1, <1>4 DEF Shape, Loop
  <2>2. ASSUME NEW c \in Conns, NEW m \in DOMAIN received[c], received[c][m].id # 0
        PROVE  received[c][m].id < x.id /\ c <= conn
    <3>1. received[c][m].id < x.id
      BY <1>2, <2>2 DEF ReceivedNumbers
    <3>2. conn \in Nat /\ c \in Nat
      BY <1>4 DEF Shape, MaybeConn, Conns, NoConn
    <3>3. ~(conn < c)
      BY <1>4, <2>2 DEF Dialled
    <3> QED
      BY <3>1, <3>2, <3>3
  <2>3. OneWriter'
    BY <1>1, <2>1 DEF OneWriter, Running
  <2>4. HeldIsNewest'
    BY <1>1, <2>1, <2>2 DEF HeldIsNewest, Holds
  <2>5. ArrivedInOrder' /\ ReplayFirst'
    BY <1>1 DEF ArrivedInOrder, ReplayFirst
  <2> QED
    BY <2>3, <2>4, <2>5
<1> QED
    BY <1>3, <1>4

\* While there was one loop at a time, what it writes is newer than what has arrived.
LEMMA WriteOrder ==
    ASSUME Shape, DeliveryInv, OrderInv, NEW i \in Conns, WriterWrite(i)
    PROVE  OrderInv'
<1> USE DEF OrderInv, DeliveryInv, Numbered
<1> DEFINE x == writer[i].msg
           c == writer[i].on
<1>1. /\ Holds(i) /\ Written(c, x)
      /\ writer' = [writer EXCEPT ![i] = Loop("select", NoMsg, NoConn)]
      /\ UNCHANGED <<crowded, rec>>
    BY DEF WriterWrite, Holds, seen
<1>2. c \in Conns /\ x \in Msg
    BY <1>1 DEF HeldNumbers
<1>3. \A j \in Conns : /\ Running(writer'[j]) => Running(writer[j])
                       /\ Holds(j)' => Holds(j) /\ writer'[j] = writer[j] /\ j # i
    BY <1>1 DEF Shape, Holds, Loop, Running
<1>4. CASE UNCHANGED received
    BY <1>1, <1>3, <1>4, OrderKept
<1>5. CASE received' = [received EXCEPT ![c] = Append(@, x)]
  <2>0. SUFFICES ASSUME ~crowded
                 PROVE  OrderInv'
    BY <1>1 DEF OneWriter, ReplayFirst, HeldIsNewest, ArrivedInOrder
  <2>1. \A j \in Conns : ~Holds(j)'
    BY <1>1, <1>3, <2>0 DEF OneWriter, Running, Holds
  <2>2. \A k \in Conns : \A m \in DOMAIN received[k] : received[k][m].id # 0 =>
            received[k][m].id < x.id /\ k <= c
    BY <1>1, <2>0 DEF HeldIsNewest
  <2> HIDE DEF c, x
  <2> DEFINE last == Len(received[c]) + 1
  <2>3. /\ \A j \in Conns \ {c} : received'[j] = received[j]
        /\ \A n \in DOMAIN received[c] : received'[c][n] = received[c][n] /\ n < last
        /\ DOMAIN received'[c] = DOMAIN received[c] \union {last}
        /\ received'[c][last] = x
        /\ last \in Nat /\ DOMAIN received[c] \subseteq Nat
    BY <1>2, <1>5, Arrives
  <2> HIDE DEF last
  <2>4. ASSUME NEW j \in Conns, NEW n \in DOMAIN received'[j]
        PROVE  \/ j = c /\ n = last /\ received'[j][n] = x
               \/ n \in DOMAIN received[j] /\ received'[j][n] = received[j][n]
    BY <2>3, <2>4
  <2>5. OneWriter' /\ HeldIsNewest'
    <3>1. rec.st \notin {"replay", "spawn"}
      BY <1>1, <2>0 DEF OneWriter, Running, Holds
    <3> QED
      BY <1>1, <1>3, <2>0, <2>1, <3>1 DEF OneWriter, HeldIsNewest
  <2>6. ArrivedInOrder'
    <3> SUFFICES ASSUME NEW j \in Conns, NEW k \in Conns,
                        NEW m \in DOMAIN received'[j], NEW n \in DOMAIN received'[k],
                        received'[j][m].id # 0, received'[k][n].id # 0,
                        j < k \/ (j = k /\ m < n)
                 PROVE  received'[j][m].id < received'[k][n].id
      BY DEF ArrivedInOrder
    <3>0. Conns \subseteq Nat
      BY DEF Conns
    <3>1. CASE j = c /\ m = last
      <4>1. k > c \/ (k = c /\ n > last)
        BY <3>0, <3>1
      <4>2. n \in DOMAIN received[k] /\ received'[k][n] = received[k][n]
        BY <2>3, <2>4, <3>0, <4>1
      <4>3. k <= c
        BY <2>2, <4>2
      <4> QED
        BY <1>2, <2>3, <3>0, <4>1, <4>2, <4>3
    <3>2. CASE m \in DOMAIN received[j] /\ received'[j][m] = received[j][m]
      <4>1. CASE n \in DOMAIN received[k] /\ received'[k][n] = received[k][n]
        BY <2>0, <3>2, <4>1 DEF ArrivedInOrder
      <4>2. CASE received'[k][n] = x
        BY <2>2, <3>2, <4>2
      <4> QED
        BY <2>4, <4>1, <4>2
    <3> QED
      BY <2>4, <3>1, <3>2
  <2>7. ReplayFirst'
    <3>1. x.id # 0
      BY <1>1 DEF HeldNumbers, x
    <3> QED
      BY <2>0, <2>4, <3>1 DEF ReplayFirst
  <2> QED
    BY <2>5, <2>6, <2>7
<1> QED
    BY <1>1, <1>4, <1>5 DEF Written

\* A replayed start has no number and disturbs no order, and nothing has arrived
\* before it.
LEMMA ReplayOrder ==
    ASSUME Shape, DeliveryInv, OrderInv, ReplayStart
    PROVE  OrderInv'
<1> USE DEF OrderInv, DeliveryInv, Numbered
<1> DEFINE c == rec.on
<1>1. /\ Written(c, Replay) /\ UNCHANGED <<writer, crowded>> /\ c \in Conns
      /\ rec.st = "replay" /\ rec'.st = "spawn"
    BY DEF ReplayStart, Dialled, loops, seen, Shape
<1>2. CASE UNCHANGED received
  <2>1. OneWriter'
    BY <1>1, <1>2 DEF OneWriter
  <2>2. HeldIsNewest'
    BY <1>1, <1>2 DEF HeldIsNewest, Holds
  <2>3. ArrivedInOrder' /\ ReplayFirst'
    BY <1>1, <1>2 DEF ArrivedInOrder, ReplayFirst
  <2> QED
    BY <2>1, <2>2, <2>3
<1>3. CASE received' = [received EXCEPT ![c] = Append(@, Replay)]
  <2> HIDE DEF c
  <2>1. ASSUME NEW j \in Conns, NEW n \in DOMAIN received'[j], received'[j][n].id # 0
        PROVE  n \in DOMAIN received[j] /\ received'[j][n] = received[j][n]
    BY <1>1, <1>3, <2>1, Arrives, MessageNumbers
  <2>2. OneWriter'
    BY <1>1 DEF OneWriter
  <2>3. HeldIsNewest'
    BY <1>1, <2>1 DEF HeldIsNewest, Holds
  <2>4. ArrivedInOrder'
    BY <1>1, <2>1 DEF ArrivedInOrder
  <2>5. ReplayFirst'
    <3> SUFFICES ASSUME ~crowded, NEW j \in Conns, NEW n \in DOMAIN received'[j],
                        received'[j][n].id = 0
                 PROVE  n = 1
      BY <1>1 DEF ReplayFirst
    <3>1. received[c] = <<>> /\ received'[c] = Append(<<>>, Replay)
      BY <1>1, <1>3 DEF OneWriter, c
    <3>2. CASE j = c
      BY <3>1, <3>2
    <3>3. CASE j # c
      BY <1>1, <1>3, <3>3, Arrives, MessageNumbers DEF ReplayFirst
    <3> QED
      BY <3>2, <3>3
  <2> QED
    BY <2>2, <2>3, <2>4, <2>5
<1> QED
    BY <1>1, <1>2, <1>3 DEF Written

\* Every step keeps the order.
LEMMA OrderStep ==
    ASSUME Shape, Installed, DeliveryInv, OrderInv, [Next]_vars
    PROVE  OrderInv'
<1>1. ASSUME NEW i \in Conns, WriterStop(i) \/ WriterFail(i)
      PROVE  OrderInv'
  <2>1. /\ UNCHANGED <<received, crowded, rec>>
        /\ writer' = [writer EXCEPT ![i] = Stopped]
    BY <1>1 DEF WriterStop, WriterFail, net, seen
  <2>2. \A j \in Conns : /\ Running(writer'[j]) => Running(writer[j])
                         /\ Holds(j)' => Holds(j) /\ writer'[j] = writer[j]
    BY <2>1 DEF Holds, Running, Stopped, Loop, Shape
  <2> QED
    BY <2>1, <2>2, OrderKept
<1>2. CASE StartLoops
  <2>1. /\ UNCHANGED received
        /\ writer' = [writer EXCEPT ![rec.on] = Loop("select", NoMsg, NoConn)]
        /\ UNCHANGED crowded /\ rec.st = "spawn" /\ rec'.st = "release"
        /\ ~crowded => \A i \in Conns : ~Running(writer[i])
    BY <1>2 DEF StartLoops, net, seen, Shape, OrderInv, OneWriter
  <2>2. \A j \in Conns : j # rec.on => writer'[j] = writer[j]
    BY <2>1 DEF Shape
  <2>3. OneWriter'
    BY <2>1, <2>2 DEF OneWriter, Running
  <2>4. \A j \in Conns : Holds(j)' => Holds(j) /\ writer'[j] = writer[j]
    BY <2>1 DEF Holds, Loop, Shape
  <2>5. HeldIsNewest'
    BY <2>1, <2>4 DEF OrderInv, HeldIsNewest
  <2>6. ArrivedInOrder' /\ ReplayFirst'
    BY <2>1 DEF OrderInv, ArrivedInOrder, ReplayFirst
  <2> QED
    BY <2>3, <2>5, <2>6 DEF OrderInv
<1>3. CASE \/ Record \/ CacheStart \/ StartMission \/ EndMission \/ Close
           \/ (\E t \in Calls : TimeOut(t) \/ TakeAck(t))
           \/ (\E i \in Conns : Break(i) \/ Read(i))
           \/ SkipReconnect \/ BeginReconnect \/ DialFails
           \/ ReplayFails \/ Release \/ UNCHANGED vars
  <2>1. UNCHANGED <<received, writer, crowded>>
    BY <1>3 DEF Record, CacheStart, StartMission, EndMission, Close, TimeOut, TakeAck,
        Break, Read, ReaderLoad, ReaderGet, ReaderFail, SkipReconnect, BeginReconnect,
        DialFails, ReplayFails, Release, vars, net, loops, seen
  <2>2. rec' = rec \/ rec'.st \notin {"replay", "spawn"}
    BY <1>3 DEF Record, CacheStart, StartMission, EndMission, Close, TimeOut, TakeAck,
        Break, Read, ReaderLoad, ReaderGet, ReaderFail, SkipReconnect, BeginReconnect,
        DialFails, ReplayFails, NextTry, Release, NoRec, vars, Shape
  <2> QED
    BY <2>1, <2>2, OrderKept DEF Holds
<1>4. CASE DialSucceeds
  <2>1. PICK n \in Conns : Install(n)
    BY <1>4 DEF DialSucceeds
  <2>2. /\ UNCHANGED <<received, writer>> /\ rec'.on = n
        /\ ~crowded' => ~crowded /\ \A i \in Conns : ~Running(writer[i])
    BY <1>4, <2>1 DEF DialSucceeds, Install, Shape
  <2>3. received[n] = <<>>
    BY <2>1 DEF Install, DeliveryInv, Dialled
  <2>4. OneWriter'
    BY <2>2, <2>3 DEF OneWriter
  <2>5. HeldIsNewest'
    BY <2>2 DEF HeldIsNewest, Holds, Running
  <2>6. ArrivedInOrder' /\ ReplayFirst'
    BY <2>2 DEF OrderInv, ArrivedInOrder, ReplayFirst
  <2> QED
    BY <2>4, <2>5, <2>6 DEF OrderInv
<1> QED
    BY <1>1, <1>2, <1>3, <1>4, TakeOrder, WriteOrder, ReplayOrder DEF Next, Write, Reconnect

\* Nothing overtakes the queue, even with two write loops; and unless one was still
\* running when a reconnect installed its connection, the server receives a
\* replayed start first and the messages in the order of the calls of send, across
\* all connections that replaced one another (sendCh, writeLoop, reconnect).
THEOREM OrderOfSendIsKept == Spec => []SendOrder
<1>1. IInv /\ DeliveryInv /\ OrderInv /\ [Next]_vars => OrderInv'
    BY OrderStep DEF IInv
<1>2. DeliveryInv /\ OrderInv => SendOrder
  <2> SUFFICES ASSUME DeliveryInv, OrderInv PROVE SendOrder
    OBVIOUS
  <2> USE DEF DeliveryInv, Numbered, OrderInv
  <2>1. ASSUME NEW i \in Conns, NEW m \in DOMAIN received[i]
        PROVE  received[i][m] \in Msg /\ received[i][m].id \in Nat /\ m \in Nat
    <3>1. received[i][m] \in Msg /\ m \in Nat
      OBVIOUS
    <3> QED
      BY <3>1 DEF Msg, Replay
  <2>2. ASSUME NEW i \in Conns, NEW m \in DOMAIN received[i], NEW a \in DOMAIN sendCh
        PROVE  received[i][m].id < sendCh[a].id
    <3>1. CASE received[i][m].id # 0
      BY <3>1 DEF ReceivedNumbers
    <3>2. CASE received[i][m].id = 0
      BY <3>2 DEF QueueNumbers
    <3> QED
      BY <3>1, <3>2
  <2>3. ASSUME ~crowded, NEW i \in Conns, NEW j \in Conns,
               NEW m \in DOMAIN received[i], NEW n \in DOMAIN received[j],
               i < j \/ (i = j /\ m < n)
        PROVE  IF received[j][n] = Replay THEN i < j
               ELSE received[i][m].id < received[j][n].id
    <3>1. CASE received[j][n] = Replay
      <4>1. n = 1 /\ m \in DOMAIN received[i] /\ received[i] \in Seq(Msg)
        BY <2>3, <3>1 DEF ReplayFirst, Replay
      <4>2. ~(m < n)
        BY <4>1
      <4> QED
        BY <2>3, <3>1, <4>2
    <3>2. CASE received[j][n] # Replay
      <4>1. received[j][n].id # 0
        BY <2>1, <3>2, MessageNumbers
      <4>2. CASE received[i][m].id # 0
        BY <2>3, <3>2, <4>1, <4>2 DEF ArrivedInOrder
      <4>3. CASE received[i][m].id = 0
        BY <2>1, <3>2, <4>1, <4>3
      <4> QED
        BY <4>2, <4>3
    <3> QED
      BY <3>1, <3>2
  <2> QED
    BY <2>2, <2>3 DEF SendOrder
<1> QED
    BY <1>1, <1>2, InitOrder, AlwaysDelivered, PTL DEF Spec

-----------------------------------------------------------------------------
(* What an acknowledgement means *)

Waits(t) == api[t].st = "waiting"

\* Has the message that the call of kind t waits for been received?
Arrived(t) ==
    \E i \in Conns : \E n \in DOMAIN received[i] :
        received[i][n] = [id |-> api[t].id, type |-> t]

AckTypes ==
    /\ api \in [Calls -> [st : {"idle", "cached", "waiting"}, id : Nat]]
    /\ \A t \in Calls : Waits(t) => api[t].id # 0
    /\ acks \in [Conns -> Seq(Calls)]
    /\ ackCh \in Seq(Calls)
    /\ \A i \in Conns : reader[i].st = "read" => reader[i].on \in Conns

\* As long as nobody gave up and nothing was replayed, a message on its way to
\* the server is the one its call waits for.
Awaited ==
    \A t \in Calls \ surplus :
        /\ \A a \in DOMAIN sendCh : sendCh[a].type = t =>
              Waits(t) /\ sendCh[a].id = api[t].id
        /\ \A i \in Conns : Holds(i) /\ writer[i].msg.type = t =>
              Waits(t) /\ writer[i].msg.id = api[t].id

\* An acknowledgement on its way back is that of the message waited for.
Acked ==
    \A t \in Calls \ surplus :
        /\ \A a \in DOMAIN ackCh : ackCh[a] = t => Waits(t) /\ Arrived(t)
        /\ \A i \in Conns : \A n \in DOMAIN acks[i] :
              acks[i][n] = t => Waits(t) /\ Arrived(t)

\* There is one of each kind.
OneAck ==
    \A t \in Calls \ surplus :
        /\ \A a, b \in DOMAIN ackCh : ackCh[a] = t /\ ackCh[b] = t => a = b
        /\ \A i, j \in Conns : \A m \in DOMAIN acks[i], n \in DOMAIN acks[j] :
              acks[i][m] = t /\ acks[j][n] = t => i = j /\ m = n
        /\ \A a \in DOMAIN ackCh, i \in Conns : \A n \in DOMAIN acks[i] :
              ~(ackCh[a] = t /\ acks[i][n] = t)

AckInv == Awaited /\ Acked /\ OneAck

\* Nobody waits at the start.
LEMMA InitAck == Init => AckTypes /\ AckInv
    BY DEF Init, AckTypes, Waits, NoCall, Call, AckInv, Awaited, Acked, OneAck, Holds,
           NoLoop, Loop

\* A call starts, is sent or returns.
LEMMA CallTypes ==
    ASSUME AckTypes, NEW t \in Calls, NEW s \in {"idle", "cached", "waiting"}, NEW n \in Nat,
           s = "waiting" => n # 0, api' = [api EXCEPT ![t] = Call(s, n)]
    PROVE  /\ api' \in [Calls -> [st : {"idle", "cached", "waiting"}, id : Nat]]
           /\ \A u \in Calls : Waits(u)' => api'[u].id # 0
<1>1. /\ Call(s, n) \in [st : {"idle", "cached", "waiting"}, id : Nat]
      /\ Call(s, n).st = s /\ Call(s, n).id = n
    BY DEF Call
<1>2. api'[t] = Call(s, n) /\ \A u \in Calls : u # t => api'[u] = api[u]
    BY DEF AckTypes
<1> QED
    BY <1>1, <1>2 DEF AckTypes, Waits

\* Every step keeps the types of the calls and of the acknowledgements.
LEMMA AckTypesStep ==
    ASSUME Shape, Installed, Numbered, AckTypes, [Next]_vars
    PROVE  AckTypes'
<1> USE DEF AckTypes
<1> DEFINE Nets  == acks' \in [Conns -> Seq(Calls)] /\ ackCh' \in Seq(Calls)
           Apis  == /\ api' \in [Calls -> [st : {"idle", "cached", "waiting"}, id : Nat]]
                    /\ \A t \in Calls : Waits(t)' => api'[t].id # 0
           Reads == \A i \in Conns : reader'[i].st = "read" => reader'[i].on \in Conns
<1>1. ASSUME UNCHANGED api
      PROVE  Apis
    BY <1>1 DEF Waits
<1>2. ASSUME NEW i \in Conns, NEW how, Down(i, how)
      PROVE  acks' \in [Conns -> Seq(Calls)]
    BY <1>2 DEF Down
<1>3. ASSUME NEW c \in Conns, NEW m \in Msg, Written(c, m)
      PROVE  acks' \in [Conns -> Seq(Calls)]
  <2>1. CASE m.type \in Calls /\ acks' = [acks EXCEPT ![c] = Append(@, m.type)]
    BY <2>1
  <2> QED
    BY <1>3, <2>1 DEF Written
<1>4. CASE \/ Record \/ SkipReconnect \/ DialFails \/ Release \/ UNCHANGED vars
  <2>1. UNCHANGED <<api, acks, ackCh, reader>>
    BY <1>4 DEF Record, SkipReconnect, DialFails, Release, vars, calls, loops, net
  <2> QED
    BY <1>1, <2>1
<1>5. CASE CacheStart \/ StartMission \/ EndMission
  <2>1. UNCHANGED <<acks, ackCh, reader>>
    BY <1>5 DEF CacheStart, StartMission, EndMission, loops, net
  <2>2. Apis
    <3>1. sent \in Nat
      BY WsAssumption DEF Shape
    <3>2. CASE CacheStart
      BY <3>2, CallTypes DEF CacheStart, Calls
    <3>3. CASE StartMission \/ EndMission
      <4>1. sent' \in Nat /\ sent' # 0
        BY <3>1, <3>3 DEF StartMission, EndMission, Send
      <4> QED
        BY <3>3, <4>1, CallTypes DEF StartMission, EndMission, Calls
    <3> QED
      BY <1>5, <3>2, <3>3
  <2> QED
    BY <2>1, <2>2
<1>6. ASSUME NEW t \in Calls, TimeOut(t) \/ TakeAck(t)
      PROVE  AckTypes'
  <2>1. UNCHANGED <<acks, reader>> /\ ackCh' \in Seq(Calls)
    <3>1. UNCHANGED <<acks, reader>>
      BY <1>6 DEF TimeOut, TakeAck, loops, net
    <3>2. UNCHANGED ackCh \/ (ackCh # <<>> /\ ackCh' = Tail(ackCh))
      BY <1>6 DEF TimeOut, TakeAck
    <3>3. \A s \in Seq(Calls) : s # <<>> => Tail(s) \in Seq(Calls)
      OBVIOUS
    <3>4. ackCh' \in Seq(Calls)
      BY <3>2, <3>3
    <3> QED
      BY <3>1, <3>4
  <2>2. api' = [api EXCEPT ![t] = NoCall] \/ UNCHANGED api
    BY <1>6 DEF TimeOut, TakeAck, Return
  <2>3. Apis
    BY <1>1, <2>2, CallTypes DEF NoCall
  <2> QED
    BY <2>1, <2>3
<1>7. CASE Close \/ BeginReconnect
  <2>1. UNCHANGED <<api, ackCh, reader>>
    BY <1>7 DEF Close, BeginReconnect, calls, loops
  <2>2. acks' \in [Conns -> Seq(Calls)]
    BY <1>2, <1>7 DEF Close, BeginReconnect, CloseConn, Shape, MaybeConn
  <2> QED
    BY <1>1, <2>1, <2>2
<1>8. ASSUME NEW i \in Conns, Break(i) \/ Write(i)
      PROVE  AckTypes'
  <2>1. UNCHANGED <<api, ackCh, reader>>
    BY <1>8 DEF Break, Write, WriterTake, WriterStop, WriterWrite, WriterFail, calls, loops
  <2>2. acks' \in [Conns -> Seq(Calls)]
    <3>1. CASE Break(i)
      BY <1>2, <3>1 DEF Break
    <3>2. CASE WriterWrite(i)
      <4>1. writer[i].on \in Conns /\ writer[i].msg \in Msg
        BY <3>2 DEF WriterWrite, Numbered, HeldNumbers, Holds
      <4> QED
        BY <1>3, <3>2, <4>1 DEF WriterWrite
    <3>3. CASE WriterTake(i) \/ WriterStop(i) \/ WriterFail(i)
      BY <3>3 DEF WriterTake, WriterStop, WriterFail, net
    <3> QED
      BY <1>8, <3>1, <3>2, <3>3 DEF Write
  <2> QED
    BY <1>1, <2>1, <2>2
<1>9. ASSUME NEW i \in Conns, Read(i)
      PROVE  AckTypes'
  <2>1. UNCHANGED api
    BY <1>9 DEF Read, ReaderLoad, ReaderGet, ReaderFail, calls
  <2>2. Reads
    <3>1. CASE ReaderLoad(i)
      BY <3>1 DEF ReaderLoad, Loop, Stopped, Shape, MaybeConn
    <3>2. CASE ReaderGet(i)
      <4>1. reader' = [reader EXCEPT ![i] = Loop("load", NoMsg, NoConn)]
        BY <3>2 DEF ReaderGet
      <4> QED
        BY <4>1 DEF Loop, Shape
    <3>3. CASE ReaderFail(i)
      BY <3>3 DEF ReaderFail, Loop, Stopped, Shape
    <3> QED
      BY <1>9, <3>1, <3>2, <3>3 DEF Read
  <2>3. Nets
    <3>1. CASE ReaderGet(i)
      <4>1. reader[i].on \in Conns
        BY <3>1 DEF ReaderGet
      <4>2. acks[reader[i].on] \in Seq(Calls) /\ acks[reader[i].on] # <<>>
        BY <3>1, <4>1 DEF ReaderGet
      <4>3. /\ Head(acks[reader[i].on]) \in Calls
            /\ Tail(acks[reader[i].on]) \in Seq(Calls)
        BY <4>2
      <4> QED
        BY <3>1, <4>1, <4>3 DEF ReaderGet
    <3>2. CASE ReaderLoad(i) \/ ReaderFail(i)
      BY <3>2 DEF ReaderLoad, ReaderFail, net, calls
    <3> QED
      BY <1>9, <3>1, <3>2 DEF Read
  <2> QED
    BY <1>1, <2>1, <2>2, <2>3
<1>10. CASE ReplayStart \/ ReplayFails
  <2>1. UNCHANGED <<api, ackCh, reader>> /\ rec.on \in Conns
    BY <1>10 DEF ReplayStart, ReplayFails, Installed, calls, loops
  <2>2. acks' \in [Conns -> Seq(Calls)]
    BY <1>2, <1>3, <1>10, <2>1, MessageNumbers DEF ReplayStart, ReplayFails
  <2> QED
    BY <1>1, <2>1, <2>2
<1>11. CASE DialSucceeds \/ StartLoops
  <2>1. UNCHANGED <<api, acks, ackCh>>
    BY <1>11 DEF DialSucceeds, Install, StartLoops, calls, net
  <2>2. Reads
    <3>1. CASE DialSucceeds
      BY <3>1 DEF DialSucceeds, Install
    <3>2. CASE StartLoops
      BY <3>2 DEF StartLoops, Loop, Shape
    <3> QED
      BY <1>11, <3>1, <3>2
  <2> QED
    BY <1>1, <2>1, <2>2
<1> QED
    BY <1>4, <1>5, <1>6, <1>7, <1>8, <1>9, <1>10, <1>11 DEF Next, Reconnect

\* What has been received stays so.
Grows == \A i \in Conns : \A n \in DOMAIN received[i] :
             n \in DOMAIN received'[i] /\ received'[i][n] = received[i][n]

\* Of the messages of awaited calls, the queue and the write loops hold none that
\* was not in the queue or with the same loop before.
NoneEnters ==
    /\ \A a \in DOMAIN sendCh' :
          sendCh'[a].type \in Calls => \E b \in DOMAIN sendCh : sendCh'[a] = sendCh[b]
    /\ \A i \in Conns : Holds(i)' =>
          \/ Holds(i) /\ writer'[i].msg = writer[i].msg
          \/ \E b \in DOMAIN sendCh : writer'[i].msg = sendCh[b]

\* The calls of kind t that wait go on waiting for their message.
StillWaits(t) == Waits(t) => Waits(t)' /\ api'[t].id = api[t].id

\* What has arrived stays so.
LEMMA ArrivedStays ==
    ASSUME Grows, NEW t \in Calls, Arrived(t), api'[t].id = api[t].id
    PROVE  Arrived(t)'
<1>1. PICK i \in Conns : \E n \in DOMAIN received[i] :
          received[i][n] = [id |-> api[t].id, type |-> t]
    BY DEF Arrived
<1>2. PICK n \in DOMAIN received[i] : received[i][n] = [id |-> api[t].id, type |-> t]
    BY <1>1
<1>3. n \in DOMAIN received'[i] /\ received'[i][n] = [id |-> api'[t].id, type |-> t]
    BY <1>2 DEF Grows
<1> QED
    BY <1>3 DEF Arrived

\* A step that puts no awaited message on its way, and ends no wait, keeps Awaited.
LEMMA AwaitedKept ==
    ASSUME Awaited, NoneEnters, surplus \subseteq surplus',
           \A t \in Calls \ surplus' : StillWaits(t)
    PROVE  Awaited'
<1> SUFFICES ASSUME NEW t \in Calls \ surplus'
             PROVE  /\ \A a \in DOMAIN sendCh' : sendCh'[a].type = t =>
                          Waits(t)' /\ sendCh'[a].id = api'[t].id
                    /\ \A i \in Conns : Holds(i)' /\ writer'[i].msg.type = t =>
                          Waits(t)' /\ writer'[i].msg.id = api'[t].id
    BY DEF Awaited
<1>1. /\ \A b \in DOMAIN sendCh : sendCh[b].type = t => Waits(t) /\ sendCh[b].id = api[t].id
      /\ \A i \in Conns : Holds(i) /\ writer[i].msg.type = t =>
            Waits(t) /\ writer[i].msg.id = api[t].id
    BY DEF Awaited
<1>2. StillWaits(t)
    OBVIOUS
<1> QED
    BY <1>1, <1>2 DEF StillWaits, NoneEnters

\* No acknowledgement is sent or received.
LEMMA AckKept ==
    ASSUME AckInv, Grows, NoneEnters, surplus \subseteq surplus',
           \A t \in Calls \ surplus' : StillWaits(t),
           ackCh' = ackCh, \A i \in Conns : acks'[i] \in {acks[i], <<>>}
    PROVE  AckInv'
<1> USE DEF AckInv
<1>1. \A i \in Conns : \A n \in DOMAIN acks'[i] : n \in DOMAIN acks[i] /\ acks'[i][n] = acks[i][n]
    OBVIOUS
<1>2. Acked'
  <2> SUFFICES ASSUME NEW t \in Calls \ surplus'
               PROVE  /\ \A a \in DOMAIN ackCh : ackCh[a] = t => Waits(t)' /\ Arrived(t)'
                      /\ \A i \in Conns : \A n \in DOMAIN acks'[i] :
                            acks'[i][n] = t => Waits(t)' /\ Arrived(t)'
    BY DEF Acked
  <2>1. Waits(t) /\ Arrived(t) => Waits(t)' /\ Arrived(t)'
    BY ArrivedStays DEF StillWaits
  <2> QED
    BY <1>1, <2>1 DEF Acked
<1>3. OneAck'
    BY <1>1 DEF OneAck
<1> QED
    BY <1>2, <1>3, AwaitedKept

\* A call of kind t sends its message: before it, nothing of its kind is under way.
LEMMA CallAck ==
    ASSUME Shape, AckTypes, AckInv, NEW t \in Calls, ~Waits(t), Send(t),
           api' = [api EXCEPT ![t] = Call("waiting", sent')],
           UNCHANGED <<writer, received, acks, ackCh, surplus>>
    PROVE  AckInv'
<1> USE DEF AckInv
<1>1. \A u \in Calls : u # t => api'[u] = api[u]
    BY DEF AckTypes
<1>2. api'[t].st = "waiting" /\ api'[t].id = sent'
    BY DEF AckTypes, Call
<1>3. \A a \in DOMAIN sendCh' :
          \/ a \in DOMAIN sendCh /\ sendCh'[a] = sendCh[a]
          \/ sendCh'[a] = [id |-> sent', type |-> t]
    BY DEF Send, Shape
<1>4. Awaited'
  <2> SUFFICES ASSUME NEW u \in Calls \ surplus
               PROVE  /\ \A a \in DOMAIN sendCh' : sendCh'[a].type = u =>
                            Waits(u)' /\ sendCh'[a].id = api'[u].id
                      /\ \A i \in Conns : Holds(i) /\ writer[i].msg.type = u =>
                            Waits(u)' /\ writer[i].msg.id = api'[u].id
    BY DEF Awaited, Holds
  <2>1. CASE u = t
    BY <1>2, <1>3, <2>1 DEF Awaited, Waits
  <2>2. CASE u # t
    BY <1>1, <1>3, <2>2 DEF Awaited, Waits
  <2> QED
    BY <2>1, <2>2
<1>5. Acked'
  <2> SUFFICES ASSUME NEW u \in Calls \ surplus
               PROVE  /\ \A a \in DOMAIN ackCh : ackCh[a] = u => Waits(u)' /\ Arrived(u)'
                      /\ \A i \in Conns : \A n \in DOMAIN acks[i] :
                            acks[i][n] = u => Waits(u)' /\ Arrived(u)'
    BY DEF Acked
  <2>1. CASE u = t
    BY <2>1 DEF Acked
  <2>2. CASE u # t
    <3>1. Waits(u) /\ Arrived(u) => Waits(u)' /\ Arrived(u)'
      BY <1>1, <2>2, ArrivedStays DEF Waits, Grows
    <3> QED
      BY <3>1 DEF Acked
  <2> QED
    BY <2>1, <2>2
<1>6. OneAck'
    BY DEF OneAck
<1> QED
    BY <1>4, <1>5, <1>6

\* A caller takes the oldest acknowledgement.  If it is of its kind its message
\* has been received, is no longer under way, and no other one follows.
LEMMA TakeAckStep ==
    ASSUME Shape, Numbered, AckTypes, AckInv, NEW t \in Calls, TakeAck(t)
    PROVE  AckInv'
<1> USE DEF AckInv
<1>1. /\ ackCh # <<>> /\ ackCh' = Tail(ackCh) /\ Waits(t)
      /\ UNCHANGED <<sendCh, writer, received, acks, surplus>>
    BY DEF TakeAck, Waits, queue, loops, net
<1>2. /\ 1 \in DOMAIN ackCh /\ Head(ackCh) = ackCh[1]
      /\ \A a \in DOMAIN ackCh' :
            a + 1 \in DOMAIN ackCh /\ ackCh'[a] = ackCh[a + 1] /\ a \in Nat \ {0}
  <2>1. ackCh \in Seq(Calls)
    BY DEF AckTypes
  <2> QED
    BY <1>1, <2>1
<1>3. OneAck'
  <2>1. ASSUME NEW u \in Calls \ surplus, NEW a \in DOMAIN ackCh', NEW b \in DOMAIN ackCh',
               ackCh'[a] = u, ackCh'[b] = u
        PROVE  a = b
    <3>1. a + 1 = b + 1
      BY <1>2, <2>1 DEF OneAck
    <3> QED
      BY <1>2, <3>1
  <2>2. ASSUME NEW u \in Calls \ surplus, NEW a \in DOMAIN ackCh', NEW i \in Conns,
               NEW n \in DOMAIN acks[i], ackCh'[a] = u, acks[i][n] = u
        PROVE  FALSE
    BY <1>2, <2>2 DEF OneAck
  <2>3. \A u \in Calls \ surplus : \A i, j \in Conns :
            \A m \in DOMAIN acks[i], n \in DOMAIN acks[j] :
                acks[i][m] = u /\ acks[j][n] = u => i = j /\ m = n
    BY DEF OneAck
  <2> QED
    BY <1>1, <2>1, <2>2, <2>3 DEF OneAck
<1>4. \A u \in Calls \ surplus : \A a \in DOMAIN ackCh' :
          ackCh'[a] = u => Waits(u) /\ Arrived(u) /\ ackCh[1] # u
  <2> SUFFICES ASSUME NEW u \in Calls \ surplus, NEW a \in DOMAIN ackCh', ackCh'[a] = u
               PROVE  Waits(u) /\ Arrived(u) /\ ackCh[1] # u
    OBVIOUS
  <2>1. a + 1 # 1 /\ a + 1 \in DOMAIN ackCh /\ ackCh[a + 1] = u
    BY <1>2
  <2> QED
    BY <1>2, <2>1 DEF Acked, OneAck
<1>5. CASE Head(ackCh) # t
  <2>1. UNCHANGED api
    BY <1>5 DEF TakeAck
  <2>2. Awaited'
    BY <1>1, <2>1 DEF Awaited, Waits, Holds
  <2>3. Acked'
    BY <1>1, <1>4, <2>1 DEF Acked, Waits, Arrived
  <2> QED
    BY <1>3, <2>2, <2>3
<1>6. CASE Head(ackCh) = t
  <2>1. \A u \in Calls : u # t => api'[u] = api[u]
    BY <1>6 DEF TakeAck, Return, AckTypes
  <2>2. \A u \in Calls : u # t => (Waits(u)' <=> Waits(u)) /\ (Arrived(u)' <=> Arrived(u))
    BY <1>1, <2>1 DEF Waits, Arrived
  <2>3. ASSUME t \notin surplus
        PROVE  /\ \A a \in DOMAIN sendCh : sendCh[a].type # t
               /\ \A i \in Conns : Holds(i) => writer[i].msg.type # t
    <3>1. Arrived(t)
      BY <1>2, <1>6, <2>3 DEF Acked
    <3>2. PICK i \in Conns : \E n \in DOMAIN received[i] :
              received[i][n] = [id |-> api[t].id, type |-> t]
      BY <3>1 DEF Arrived
    <3>3. PICK n \in DOMAIN received[i] : received[i][n] = [id |-> api[t].id, type |-> t]
      BY <3>2
    <3>4. received[i][n].id = api[t].id /\ api[t].id # 0 /\ api[t].id \in Nat
      BY <1>1, <3>3 DEF AckTypes
    <3>5. /\ \A a \in DOMAIN sendCh : api[t].id < sendCh[a].id
          /\ \A j \in Conns : Holds(j) => api[t].id # writer[j].msg.id
      BY <3>4 DEF Numbered, ReceivedNumbers
    <3> QED
      BY <2>3, <3>4, <3>5 DEF Awaited
  <2>4. Awaited'
    BY <1>1, <2>1, <2>2, <2>3 DEF Awaited, Holds
  <2>5. \A i \in Conns : \A n \in DOMAIN acks[i] : t \in Calls \ surplus => acks[i][n] # t
    BY <1>2, <1>6 DEF OneAck
  <2>6. Acked'
    <3> SUFFICES ASSUME NEW u \in Calls \ surplus
                 PROVE  /\ \A a \in DOMAIN ackCh' : ackCh'[a] = u => Waits(u)' /\ Arrived(u)'
                        /\ \A i \in Conns : \A n \in DOMAIN acks[i] :
                              acks[i][n] = u => Waits(u)' /\ Arrived(u)'
      BY <1>1 DEF Acked
    <3>1. CASE u = t
      BY <1>2, <1>4, <1>6, <2>5, <3>1
    <3>2. CASE u # t
      BY <1>4, <2>2, <3>2 DEF Acked
    <3> QED
      BY <3>1, <3>2
  <2> QED
    BY <1>3, <2>4, <2>6
<1> QED
    BY <1>5, <1>6

\* The server acknowledges a message: the first of its kind, if the kind counts.
LEMMA AckEnters ==
    ASSUME AckTypes, AckInv, Grows, NoneEnters, surplus \subseteq surplus',
           UNCHANGED <<api, ackCh>>, NEW c \in Conns, NEW t \in Calls,
           acks' = [acks EXCEPT ![c] = Append(@, t)],
           t \notin surplus' => Waits(t) /\ ~Arrived(t) /\ Arrived(t)'
    PROVE  AckInv'
<1> USE DEF AckInv
<1> DEFINE last == Len(acks[c]) + 1
<1>1. /\ \A i \in Conns : i # c => acks'[i] = acks[i]
      /\ \A n \in DOMAIN acks'[c] :
            \/ n = last /\ acks'[c][n] = t
            \/ n \in DOMAIN acks[c] /\ acks'[c][n] = acks[c][n]
  <2>1. acks[c] \in Seq(Calls) /\ acks'[c] = Append(acks[c], t)
    BY DEF AckTypes
  <2> QED
    BY <2>1 DEF AckTypes
<1> HIDE DEF last
<1>2. ASSUME NEW i \in Conns, NEW n \in DOMAIN acks'[i]
      PROVE  \/ i = c /\ n = last /\ acks'[i][n] = t
             \/ n \in DOMAIN acks[i] /\ acks'[i][n] = acks[i][n]
    BY <1>1
<1>3. t \notin surplus' => /\ \A a \in DOMAIN ackCh : ackCh[a] # t
                           /\ \A i \in Conns : \A n \in DOMAIN acks[i] : acks[i][n] # t
    BY DEF Acked
<1>4. \A u \in Calls \ surplus' : StillWaits(u)
    BY DEF StillWaits, Waits
<1>5. Acked'
  <2> SUFFICES ASSUME NEW u \in Calls \ surplus'
               PROVE  /\ \A a \in DOMAIN ackCh : ackCh[a] = u => Waits(u)' /\ Arrived(u)'
                      /\ \A i \in Conns : \A n \in DOMAIN acks'[i] :
                            acks'[i][n] = u => Waits(u)' /\ Arrived(u)'
    BY DEF Acked
  <2>1. Waits(u)' <=> Waits(u)
    BY DEF Waits
  <2>2. Arrived(u) => Arrived(u)'
    BY ArrivedStays
  <2> QED
    BY <1>2, <2>1, <2>2 DEF Acked
<1>6. OneAck'
  <2> SUFFICES ASSUME NEW u \in Calls \ surplus'
               PROVE  /\ \A a, b \in DOMAIN ackCh : ackCh[a] = u /\ ackCh[b] = u => a = b
                      /\ \A i, j \in Conns : \A m \in DOMAIN acks'[i], n \in DOMAIN acks'[j] :
                            acks'[i][m] = u /\ acks'[j][n] = u => i = j /\ m = n
                      /\ \A a \in DOMAIN ackCh, i \in Conns : \A n \in DOMAIN acks'[i] :
                            ~(ackCh[a] = u /\ acks'[i][n] = u)
    BY DEF OneAck
  <2> QED
    BY <1>2, <1>3 DEF OneAck
<1> QED
    BY <1>4, <1>5, <1>6, AwaitedKept

\* A message that is written is acknowledged to the call that waits for it.
LEMMA WriteAck ==
    ASSUME Shape, Numbered, AckTypes, AckInv, NEW i \in Conns, WriterWrite(i)
    PROVE  AckInv'
<1>0. /\ Holds(i) /\ Written(writer[i].on, writer[i].msg)
      /\ writer' = [writer EXCEPT ![i] = Loop("select", NoMsg, NoConn)]
      /\ UNCHANGED <<sendCh, api, ackCh, surplus>>
    BY DEF WriterWrite, Holds, queue, calls
<1>a. /\ writer[i].on \in Conns /\ writer[i].msg \in Msg
      /\ writer[i].msg.id \in 1..sent /\ writer[i].msg.id # 0
    BY <1>0 DEF Numbered, HeldNumbers
<1>b. PICK c \in Conns : c = writer[i].on
    BY <1>a
<1>c. PICK x \in Msg : x = writer[i].msg
    BY <1>a
<1>1. /\ Holds(i) /\ Written(c, x)
      /\ writer' = [writer EXCEPT ![i] = Loop("select", NoMsg, NoConn)]
      /\ UNCHANGED <<sendCh, api, ackCh, surplus>>
    BY <1>0, <1>b, <1>c
<1>2. c \in Conns /\ x \in Msg /\ x.id \in 1..sent /\ x.id # 0
    BY <1>a, <1>c
<1>3. NoneEnters
  <2>1. \A j \in Conns : Holds(j)' => Holds(j) /\ writer'[j] = writer[j]
    BY <1>1 DEF Shape, Holds, Loop
  <2> QED
    BY <1>1, <2>1 DEF NoneEnters
<1>4. \A t \in Calls : StillWaits(t)
    BY <1>1 DEF StillWaits, Waits
<1>5. received \in [Conns -> Seq(Msg)]
    BY DEF Numbered
<1>6. CASE UNCHANGED received /\ UNCHANGED acks
    BY <1>1, <1>3, <1>4, <1>6, AckKept DEF Grows
<1>7. CASE received' = [received EXCEPT ![c] = Append(@, x)]
  <2>1. Grows
    BY <1>2, <1>5, <1>7, Arrives DEF Grows
  <2>2. CASE UNCHANGED acks
    BY <1>1, <1>3, <1>4, <2>1, <2>2, AckKept
  <2>3. CASE x.type \in Calls /\ acks' = [acks EXCEPT ![c] = Append(@, x.type)]
    <3>1. PICK t \in Calls : t = x.type
      BY <2>3
    <3>2. acks' = [acks EXCEPT ![c] = Append(@, t)]
      BY <2>3, <3>1
    <3>3. ASSUME t \notin surplus'
          PROVE  Waits(t) /\ ~Arrived(t) /\ Arrived(t)'
      <4>1. Waits(t) /\ x.id = api[t].id
        BY <1>1, <1>c, <3>1, <3>3 DEF AckInv, Awaited
      <4>2. x = [id |-> api'[t].id, type |-> t]
        BY <1>1, <1>2, <3>1, <4>1 DEF Msg, Replay
      <4>3. \A j \in Conns : \A n \in DOMAIN received[j] : received[j][n].id # x.id
        BY <1>1, <1>2, <1>c DEF Numbered, ReceivedNumbers
      <4>4. ~Arrived(t)
        BY <4>1, <4>3 DEF Arrived
      <4>5. /\ Len(received[c]) + 1 \in DOMAIN received'[c]
            /\ received'[c][Len(received[c]) + 1] = x
        BY <1>2, <1>5, <1>7, Arrives
      <4>6. received'[c][Len(received[c]) + 1] = [id |-> api'[t].id, type |-> t]
        BY <4>2, <4>5
      <4>7. Arrived(t)'
        BY <1>2, <4>5, <4>6 DEF Arrived
      <4> QED
        BY <4>1, <4>4, <4>7
    <3> QED
      BY <1>1, <1>2, <1>3, <2>1, <3>1, <3>2, <3>3, AckEnters
  <2> QED
    BY <1>1, <1>7, <2>2, <2>3 DEF Written
<1> QED
    BY <1>1, <1>6, <1>7 DEF Written

\* A replayed start may be acknowledged once more than it is waited for.
LEMMA ReplayAck ==
    ASSUME Shape, Installed, Numbered, AckTypes, AckInv, ReplayStart
    PROVE  AckInv'
<1> DEFINE c == rec.on
<1>1. /\ Written(c, Replay) /\ c \in Conns
      /\ UNCHANGED <<sendCh, writer, api, ackCh>>
      /\ surplus' = surplus \union {"start_mission"}
    BY DEF ReplayStart, Installed, queue, loops
<1>2. NoneEnters
    BY <1>1 DEF NoneEnters, Holds
<1>3. \A t \in Calls : StillWaits(t)
    BY <1>1 DEF StillWaits, Waits
<1> HIDE DEF c
<1>4. received \in [Conns -> Seq(Msg)] /\ Replay.type = "start_mission"
    BY DEF Numbered, Replay
<1>5. CASE UNCHANGED received /\ UNCHANGED acks
    BY <1>1, <1>2, <1>3, <1>5, AckKept DEF Grows
<1>6. CASE /\ received' = [received EXCEPT ![c] = Append(@, Replay)]
           /\ acks' = [acks EXCEPT ![c] = Append(@, "start_mission")]
  <2>1. Grows
    BY <1>1, <1>4, <1>6, Arrives, MessageNumbers DEF Grows
  <2>2. "start_mission" \in Calls /\ surplus \subseteq surplus' /\ "start_mission" \in surplus'
    BY <1>1 DEF Calls
  <2> QED
    BY <1>1, <1>2, <1>6, <2>1, <2>2, AckEnters
<1> QED
    BY <1>1, <1>4, <1>5, <1>6 DEF Written, Calls

\* A read loop passes an acknowledgement on, or drops it.
LEMMA ReadAck ==
    ASSUME Shape, AckTypes, AckInv, NEW r \in Conns, ReaderGet(r)
    PROVE  AckInv'
<1> USE DEF AckInv
<1> DEFINE c == reader[r].on
           h == Head(acks[c])
<1>1. /\ c \in Conns /\ acks[c] # <<>>
      /\ acks' = [acks EXCEPT ![c] = Tail(@)]
      /\ ackCh' = IF Len(ackCh) < AckChSize THEN Append(ackCh, h) ELSE ackCh
      /\ UNCHANGED <<sendCh, writer, received, api, surplus>>
    BY DEF ReaderGet, AckTypes, queue
<1> HIDE DEF c
<1>2. /\ 1 \in DOMAIN acks[c] /\ h = acks[c][1]
      /\ \A n \in DOMAIN acks'[c] :
            n + 1 \in DOMAIN acks[c] /\ acks'[c][n] = acks[c][n + 1] /\ n \in Nat \ {0}
      /\ \A i \in Conns : i # c => acks'[i] = acks[i]
  <2>1. acks[c] \in Seq(Calls) /\ acks'[c] = Tail(acks[c])
    BY <1>1 DEF AckTypes
  <2> QED
    BY <1>1, <2>1 DEF AckTypes
<1> HIDE DEF h
<1> DEFINE last == Len(ackCh) + 1
<1>3. \A a \in DOMAIN ackCh' :
          \/ a \in DOMAIN ackCh /\ ackCh'[a] = ackCh[a]
          \/ a = last /\ ackCh'[a] = h
  <2>1. ackCh \in Seq(Calls)
    BY DEF AckTypes
  <2>2. CASE UNCHANGED ackCh
    BY <2>2
  <2>3. CASE ackCh' = Append(ackCh, h)
    BY <2>1, <2>3
  <2> QED
    BY <1>1, <2>2, <2>3
<1> HIDE DEF last
\* Where an acknowledgement of the network was before the step.
<1> DEFINE old(i, n) == IF i = c THEN n + 1 ELSE n
<1>4. ASSUME NEW i \in Conns, NEW n \in DOMAIN acks'[i]
      PROVE  /\ old(i, n) \in DOMAIN acks[i] /\ acks'[i][n] = acks[i][old(i, n)]
             /\ i = c => old(i, n) # 1 /\ n \in Nat
    BY <1>2
<1>5. ASSUME NEW i \in Conns, NEW m \in DOMAIN acks'[i], NEW n \in DOMAIN acks'[i],
             old(i, m) = old(i, n)
      PROVE  m = n
    BY <1>4, <1>5
<1> HIDE DEF old
<1>6. \A t \in Calls : (Waits(t)' <=> Waits(t)) /\ (Arrived(t)' <=> Arrived(t))
    BY <1>1 DEF Waits, Arrived
<1>7. Awaited'
    BY <1>1, <1>6 DEF Awaited, Holds
<1>8. Acked'
  <2> SUFFICES ASSUME NEW t \in Calls \ surplus
               PROVE  /\ \A a \in DOMAIN ackCh' : ackCh'[a] = t => Waits(t) /\ Arrived(t)
                      /\ \A i \in Conns : \A n \in DOMAIN acks'[i] :
                            acks'[i][n] = t => Waits(t) /\ Arrived(t)
    BY <1>1, <1>6 DEF Acked
  <2>1. h = t => Waits(t) /\ Arrived(t)
    BY <1>1, <1>2 DEF Acked
  <2>2. \A a \in DOMAIN ackCh' : ackCh'[a] = t => Waits(t) /\ Arrived(t)
    BY <1>3, <2>1 DEF Acked
  <2>3. \A i \in Conns : \A n \in DOMAIN acks'[i] : acks'[i][n] = t => Waits(t) /\ Arrived(t)
    BY <1>4 DEF Acked
  <2> QED
    BY <2>2, <2>3
<1>9. OneAck'
  <2> SUFFICES ASSUME NEW t \in Calls \ surplus
               PROVE  /\ \A a, b \in DOMAIN ackCh' : ackCh'[a] = t /\ ackCh'[b] = t => a = b
                      /\ \A i, j \in Conns : \A m \in DOMAIN acks'[i], n \in DOMAIN acks'[j] :
                            acks'[i][m] = t /\ acks'[j][n] = t => i = j /\ m = n
                      /\ \A a \in DOMAIN ackCh', i \in Conns : \A n \in DOMAIN acks'[i] :
                            ~(ackCh'[a] = t /\ acks'[i][n] = t)
    BY <1>1 DEF OneAck
  <2>1. h = t => /\ \A a \in DOMAIN ackCh : ackCh[a] # t
                 /\ \A i \in Conns : \A n \in DOMAIN acks[i] : acks[i][n] = t => i = c /\ n = 1
    <3> SUFFICES ASSUME c \in Conns, 1 \in DOMAIN acks[c], acks[c][1] = t
                 PROVE  /\ \A a \in DOMAIN ackCh : ackCh[a] # t
                        /\ \A i \in Conns : \A n \in DOMAIN acks[i] :
                              acks[i][n] = t => i = c /\ n = 1
      BY <1>1, <1>2
    <3>1. \A a \in DOMAIN ackCh : ackCh[a] # t
      BY DEF OneAck
    <3>2. \A i \in Conns : \A n \in DOMAIN acks[i] : acks[i][n] = t => i = c /\ n = 1
      BY DEF OneAck
    <3> QED
      BY <3>1, <3>2
  <2>2. \A a, b \in DOMAIN ackCh' : ackCh'[a] = t /\ ackCh'[b] = t => a = b
    BY <1>3, <2>1 DEF OneAck
  <2>3. ASSUME NEW i \in Conns, NEW j \in Conns, NEW m \in DOMAIN acks'[i],
               NEW n \in DOMAIN acks'[j], acks'[i][m] = t, acks'[j][n] = t
        PROVE  i = j /\ m = n
    <3>1. i = j /\ old(i, m) = old(j, n)
      BY <1>4, <2>3 DEF OneAck
    <3> QED
      BY <1>5, <3>1
  <2>4. ASSUME NEW a \in DOMAIN ackCh', NEW i \in Conns, NEW n \in DOMAIN acks'[i],
               ackCh'[a] = t, acks'[i][n] = t
        PROVE  FALSE
    BY <1>3, <1>4, <2>1, <2>4 DEF OneAck
  <2> QED
    BY <2>2, <2>3, <2>4
<1> QED
    BY <1>7, <1>8, <1>9

\* Every step keeps what is known of messages and acknowledgements on their way.
LEMMA AckStep ==
    ASSUME Shape, Installed, Numbered, AckTypes, AckInv, [Next]_vars
    PROVE  AckInv'
<1>1. CASE Record
  <2>1. NoneEnters
    <3>1. \A a \in DOMAIN sendCh' :
              \/ a \in DOMAIN sendCh /\ sendCh'[a] = sendCh[a]
              \/ sendCh'[a] = [id |-> sent', type |-> "record"]
      BY <1>1 DEF Record, Send, Shape
    <3>2. UNCHANGED writer
      BY <1>1 DEF Record, loops
    <3> QED
      BY <3>1, <3>2 DEF NoneEnters, Calls, Holds
  <2> QED
    BY <1>1, <2>1, AckKept DEF Record, net, calls, Grows, StillWaits, Waits
<1>2. CASE CacheStart
  <2>1. \A t \in Calls : StillWaits(t)
    BY <1>2 DEF CacheStart, StillWaits, Waits, NoCall, Call, AckTypes
  <2>2. NoneEnters /\ Grows
    BY <1>2 DEF CacheStart, NoneEnters, Grows, Holds, queue, loops, net
  <2> QED
    BY <1>2, <2>1, <2>2, AckKept DEF CacheStart, net
<1>3. CASE StartMission
    BY <1>3, CallAck DEF StartMission, Waits, Calls, loops, net
<1>4. CASE EndMission
    BY <1>4, CallAck DEF EndMission, Waits, Calls, NoCall, Call, loops, net
<1>5. ASSUME NEW t \in Calls, TimeOut(t)
      PROVE  AckInv'
  <2>1. \A u \in Calls \ surplus' : StillWaits(u)
    BY <1>5 DEF TimeOut, Return, StillWaits, Waits, AckTypes
  <2>2. NoneEnters /\ Grows
    BY <1>5 DEF TimeOut, NoneEnters, Grows, Holds, queue, loops, net
  <2> QED
    BY <1>5, <2>1, <2>2, AckKept DEF TimeOut, net
<1>6. ASSUME \/ Close \/ (\E i \in Conns : Break(i)) \/ BeginReconnect \/ ReplayFails
             \/ (\E i \in Conns : ReaderLoad(i) \/ ReaderFail(i))
             \/ SkipReconnect \/ DialFails \/ DialSucceeds \/ Release \/ UNCHANGED vars
      PROVE  AckInv'
  <2>1. UNCHANGED <<sendCh, writer, received, api, ackCh, surplus>>
    BY <1>6 DEF Close, Break, BeginReconnect, ReplayFails, ReaderLoad, ReaderFail,
        SkipReconnect, DialFails, DialSucceeds, Install, Release, vars, queue, loops, net,
        calls
  <2>2. \A i \in Conns : acks'[i] \in {acks[i], <<>>}
    <3>1. \A i, how : Down(i, how) => \A j \in Conns : acks'[j] \in {acks[j], <<>>}
      BY DEF Down, AckTypes
    <3> QED
      BY <1>6, <3>1 DEF Close, CloseConn, Break, BeginReconnect, ReplayFails, ReaderLoad,
         ReaderFail, SkipReconnect, DialFails, DialSucceeds, Install, Release, vars, net
  <2>3. NoneEnters /\ Grows
    BY <2>1 DEF NoneEnters, Grows, Holds
  <2> QED
    BY <2>1, <2>2, <2>3, AckKept DEF StillWaits, Waits
<1>7. ASSUME NEW i \in Conns, WriterTake(i) \/ WriterStop(i) \/ WriterFail(i)
      PROVE  AckInv'
  <2>1. UNCHANGED <<received, acks, api, ackCh, surplus>>
    BY <1>7 DEF WriterTake, WriterStop, WriterFail, net, calls
  <2>2. NoneEnters
    <3>1. CASE WriterTake(i)
      <4>1. /\ sendCh # <<>> /\ sendCh' = Tail(sendCh)
            /\ writer' = writer
                  \/ writer' = [writer EXCEPT ![i] = Loop("write", Head(sendCh), conn)]
        BY <3>1 DEF WriterTake
      <4>2. /\ 1 \in DOMAIN sendCh /\ Head(sendCh) = sendCh[1]
            /\ \A a \in DOMAIN sendCh' : a + 1 \in DOMAIN sendCh /\ sendCh'[a] = sendCh[a + 1]
        BY <4>1 DEF Shape
      <4>3. \A j \in Conns : writer'[j] = writer[j] \/ writer'[j].msg = sendCh[1]
        BY <4>1, <4>2 DEF Shape, Loop
      <4> QED
        BY <4>2, <4>3 DEF NoneEnters, Holds
    <3>2. CASE WriterStop(i) \/ WriterFail(i)
      <4>1. UNCHANGED sendCh /\ writer' = [writer EXCEPT ![i] = Stopped]
        BY <3>2 DEF WriterStop, WriterFail, queue
      <4>2. \A j \in Conns : Holds(j)' => writer'[j] = writer[j]
        BY <4>1 DEF Holds, Stopped, Loop, Shape
      <4> QED
        BY <4>1, <4>2 DEF NoneEnters, Holds
    <3> QED
      BY <1>7, <3>1, <3>2
  <2> QED
    BY <2>1, <2>2, AckKept DEF Grows, StillWaits, Waits
<1>8. CASE StartLoops
  <2>1. /\ UNCHANGED <<sendCh, received, acks, api, ackCh, surplus>>
        /\ writer' = [writer EXCEPT ![rec.on] = Loop("select", NoMsg, NoConn)]
    BY <1>8 DEF StartLoops, queue, net, calls
  <2>2. \A j \in Conns : Holds(j)' => writer'[j] = writer[j]
    BY <2>1 DEF Holds, Loop, Shape
  <2>3. NoneEnters
    BY <2>1, <2>2 DEF NoneEnters, Holds
  <2> QED
    BY <2>1, <2>3, AckKept DEF Grows, StillWaits, Waits
<1> QED
    BY <1>1, <1>2, <1>3, <1>4, <1>5, <1>6, <1>7, <1>8, TakeAckStep, WriteAck, ReadAck,
       ReplayAck DEF Next, Write, Read, Reconnect

\* StartMission and EndMission return without an error only when the server has
\* received the message they sent, unless a call of the kind gave up before or a
\* start was replayed (sendAndWait, readLoop; an acknowledgement names a kind).
THEOREM AcksAreTrue == Spec => AckMeansReceived
<1> DEFINE Sure == \A t \in Calls :
               (api[t].st = "waiting" /\ api'[t] = NoCall /\ surplus' = surplus
                   /\ t \notin surplus) =>
                      \E i \in Conns : \E n \in DOMAIN received[i] :
                          received[i][n] = [id |-> api[t].id, type |-> t]
<1>1. ASSUME AckTypes, AckInv, Next
      PROVE  Sure
  <2> SUFFICES ASSUME NEW t \in Calls, Waits(t), api'[t] = NoCall, surplus' = surplus,
                      t \notin surplus
               PROVE  Arrived(t)
    BY DEF Waits, Arrived
  <2>1. api'[t] # api[t]
    BY DEF Waits, NoCall, Call
  <2>2. ASSUME NEW u \in Calls, TakeAck(u)
        PROVE  Arrived(t)
    <3>1. Head(ackCh) = u /\ api' = [api EXCEPT ![u] = NoCall]
      BY <2>1, <2>2 DEF TakeAck, Return
    <3>2. u = t
      BY <2>1, <3>1 DEF AckTypes
    <3>3. 1 \in DOMAIN ackCh /\ Head(ackCh) = ackCh[1]
      BY <2>2 DEF TakeAck, AckTypes
    <3>4. ackCh[1] = t
      BY <3>1, <3>2, <3>3
    <3> QED
      BY <1>1, <3>3, <3>4 DEF AckInv, Acked
  <2>3. ASSUME NEW u \in Calls, TimeOut(u)
        PROVE  FALSE
    BY <2>1, <2>3 DEF TimeOut, Return, AckTypes
  <2>4. ASSUME CacheStart \/ StartMission \/ EndMission
        PROVE  FALSE
    <3>1. CASE CacheStart
      <4>1. /\ api["start_mission"].st = "idle"
            /\ \A u \in Calls : u # "start_mission" => api'[u] = api[u]
        BY <1>1, <3>1 DEF CacheStart, AckTypes, NoCall, Call
      <4> QED
        BY <2>1, <4>1 DEF Waits
    <3>2. CASE StartMission \/ EndMission
      <4>1. PICK u \in Calls : /\ api[u].st # "waiting"
                               /\ \A v \in Calls : v # u => api'[v] = api[v]
        BY <1>1, <3>2 DEF StartMission, EndMission, AckTypes, Calls, NoCall, Call
      <4> QED
        BY <2>1, <4>1 DEF Waits
    <3> QED
      BY <2>4, <3>1, <3>2
  <2>5. ASSUME \/ Record \/ Close \/ Reconnect
               \/ \E i \in Conns : Break(i) \/ Write(i) \/ Read(i)
        PROVE  FALSE
    BY <2>1, <2>5 DEF Record, Close, Reconnect, Break, Write, Read, WriterTake, WriterStop,
        WriterWrite, WriterFail, ReaderLoad, ReaderGet, ReaderFail, SkipReconnect,
        BeginReconnect, DialFails, DialSucceeds, Install, ReplayStart, ReplayFails, StartLoops,
        Release, calls
  <2> QED
    BY <1>1, <2>2, <2>3, <2>4, <2>5 DEF Next
<1>2. AckTypes /\ AckInv /\ [Next]_vars => [Sure]_vars
    BY <1>1
<1>3. /\ IInv /\ DeliveryInv /\ AckTypes /\ AckInv /\ [Next]_vars
         => AckTypes' /\ AckInv'
    BY AckTypesStep, AckStep DEF IInv, DeliveryInv
<1> HIDE DEF Sure
<1>4. Spec => [][Sure]_vars
    BY <1>2, <1>3, InitAck, AlwaysDelivered, PTL DEF Spec
<1> QED
    BY <1>4 DEF AckMeansReceived, Sure
=============================================================================
