---------------------------- MODULE WsConnection ----------------------------
(***************************************************************************)
(* The WebSocket backend (internal/storage/websocket): a queue of          *)
(* messages, a write loop that drains it, a read loop, and a reconnect     *)
(* that replaces the connection after an error and starts both loops anew. *)
(*                                                                         *)
(* Connections are numbered in the order they are dialled; the loops that  *)
(* a dial starts have the number of its connection.  Messages are numbered *)
(* in the order of the calls of send; the replay of a start_mission has    *)
(* number 0.  The network may break a connection at any time; what is      *)
(* written to a broken one may be lost without an error.                   *)
(*                                                                         *)
(* The server acknowledges the messages that StartMission and EndMission   *)
(* wait for, replayed ones included, on the connection it received them    *)
(* by, in their order and as late as it likes.  An acknowledgement names a *)
(* kind of message, not a message.  What else the server sends changes     *)
(* nothing; it is left out, as are payloads, marker IDs, back-off times    *)
(* and log lines.                                                          *)
(***************************************************************************)
EXTENDS Integers, Sequences, FiniteSets

CONSTANTS
    SendChSize,             \* size of sendCh
    AckChSize,              \* size of ackCh
    MaxReconnect,           \* maxReconnect: attempts of one reconnect
    MaxConns,               \* bound: connections that can be established
    MaxMsgs                 \* bound: calls of send

Conns  == 1..MaxConns
NoConn == 0
Calls  == {"start_mission", "end_mission"}   \* the messages that are awaited
Types  == Calls \union {"record"}
NoMsg  == [id |-> 0, type |-> "none"]
Replay == [id |-> 0, type |-> "start_mission"]
Msg    == [id : 1..MaxMsgs, type : Types] \union {Replay}

ASSUME WsAssumption ==
    /\ SendChSize \in Nat \ {0}
    /\ AckChSize \in Nat \ {0}
    /\ MaxReconnect \in Nat \ {0}
    /\ MaxConns \in Nat \ {0}
    /\ MaxMsgs \in Nat

VARIABLES
    conn,       \* connection.conn
    closed,     \* connection.closed; done is closed in the same step
    sendCh,     \* messages for the write loop
    cached,     \* is there a cachedStartMsg?
    writer,     \* the write loop each connection started
    reader,     \* the read loop each connection started
    triggers,   \* goroutines "go c.reconnect()" that have not run yet
    rec,        \* the reconnect that holds the reconnecting flag
    link,       \* state of each connection
    api,        \* progress of StartMission and EndMission
    ackCh,      \* acknowledgements for them, by kind
    sent,       \* number of calls of send
    received,   \* history: what the server received, per connection
    acks,       \* acknowledgements on their way to the read loop, per connection
    crowded,    \* history: was a write loop running when a reconnect
                \* installed its connection?
    surplus,    \* history: kinds of which more may be acknowledged than waited for
    missed      \* history: was the failure of the installed connection skipped
                \* while the reconnect that installed it held the flag?

vars == <<conn, closed, sendCh, cached, writer, reader, triggers, rec, link,
          api, ackCh, sent, received, acks, crowded, surplus, missed>>

loops  == <<writer, reader>>
client == <<conn, closed, cached>>
queue  == <<sendCh, sent>>
net    == <<link, received, acks>>
calls  == <<api, ackCh, surplus>>
seen   == <<crowded, missed>>

Loop(st, m, on) == [st |-> st, msg |-> m, on |-> on]
NoLoop  == Loop("none", NoMsg, NoConn)
Stopped == Loop("ended", NoMsg, NoConn)
Running(l) == l.st \notin {"none", "ended"}
NoRec == [st |-> "idle", tries |-> 0, on |-> NoConn]
Call(st, id) == [st |-> st, id |-> id]
NoCall == Call("idle", 0)

-----------------------------------------------------------------------------
\* Init has dialled the first connection.
Init ==
    /\ conn     = 1
    /\ closed   = FALSE
    /\ sendCh   = <<>>
    /\ cached   = FALSE
    /\ writer   = [i \in Conns |-> IF i = 1 THEN Loop("select", NoMsg, NoConn)
                                            ELSE NoLoop]
    /\ reader   = [i \in Conns |-> IF i = 1 THEN Loop("load", NoMsg, NoConn)
                                            ELSE NoLoop]
    /\ triggers = 0
    /\ rec      = NoRec
    /\ link     = [i \in Conns |-> IF i = 1 THEN "up" ELSE "unused"]
    /\ api      = [t \in Calls |-> NoCall]
    /\ ackCh    = <<>>
    /\ sent     = 0
    /\ received = [i \in Conns |-> <<>>]
    /\ acks     = [i \in Conns |-> <<>>]
    /\ crowded  = FALSE
    /\ surplus  = {}
    /\ missed   = FALSE

-----------------------------------------------------------------------------
(* The callers *)

\* send: a full channel drops the message.
Send(t) ==
    /\ sent < MaxMsgs
    /\ sent' = sent + 1
    /\ sendCh' = IF Len(sendCh) < SendChSize
                 THEN Append(sendCh, [id |-> sent', type |-> t]) ELSE sendCh

\* The record methods: sendEnvelope.
Record ==
    /\ Send("record")
    /\ UNCHANGED <<client, loops, triggers, rec, net, calls, seen>>

\* StartMission caches the message before it sends it.  Bound: only while there
\* is a number left for it.
CacheStart ==
    /\ sent < MaxMsgs
    /\ api["start_mission"] = NoCall
    /\ api' = [api EXCEPT !["start_mission"] = Call("cached", 0)]
    /\ cached' = TRUE
    /\ UNCHANGED <<conn, closed, queue, loops, triggers, rec, net, ackCh,
                   surplus, seen>>

StartMission ==
    /\ api["start_mission"].st = "cached"
    /\ Send("start_mission")
    /\ api' = [api EXCEPT !["start_mission"] = Call("waiting", sent')]
    /\ UNCHANGED <<client, loops, triggers, rec, net, ackCh, surplus, seen>>

EndMission ==
    /\ api["end_mission"] = NoCall
    /\ Send("end_mission")
    /\ api' = [api EXCEPT !["end_mission"] = Call("waiting", sent')]
    /\ UNCHANGED <<client, loops, triggers, rec, net, ackCh, surplus, seen>>

\* sendAndWait returns; EndMission then clears the cached message.
Return(t) ==
    /\ api[t].st = "waiting"
    /\ api' = [api EXCEPT ![t] = NoCall]
    /\ cached' = (cached /\ t # "end_mission")

\* The timer, or done.
TimeOut(t) ==
    /\ Return(t)
    /\ surplus' = surplus \union {t}
    /\ UNCHANGED <<conn, closed, queue, loops, triggers, rec, net, ackCh, seen>>

\* (As it would be if the kind were not looked at.)
TakeAnyAck(t) ==
    /\ ackCh # <<>>
    /\ ackCh' = Tail(ackCh)
    /\ Return(t)
    /\ UNCHANGED <<conn, closed, queue, loops, triggers, rec, net, surplus, seen>>

\* An acknowledgement of the other kind is thrown away.
TakeAck(t) ==
    /\ api[t].st = "waiting"
    /\ ackCh # <<>>
    /\ ackCh' = Tail(ackCh)
    /\ IF Head(ackCh) = t THEN Return(t) ELSE UNCHANGED <<api, cached>>
    /\ UNCHANGED <<conn, closed, queue, loops, triggers, rec, net, surplus, seen>>

\* A connection fails or is closed; acknowledgements on their way are lost.
Down(i, how) ==
    /\ link' = [link EXCEPT ![i] = how]
    /\ acks' = [acks EXCEPT ![i] = <<>>]

CloseConn == IF conn = NoConn THEN UNCHANGED <<link, acks>> ELSE Down(conn, "closed")

Close ==
    /\ ~closed
    /\ closed' = TRUE
    /\ conn' = NoConn
    /\ CloseConn
    /\ UNCHANGED <<cached, queue, loops, triggers, rec, received, calls, seen>>

-----------------------------------------------------------------------------
(* The network *)

\* What becomes of a message written to connection i without an error.
Written(i, m) ==
    \/ /\ link[i] = "up"
       /\ received' = [received EXCEPT ![i] = Append(@, m)]
       /\ acks' = IF m.type \in Calls
                  THEN [acks EXCEPT ![i] = Append(@, m.type)] ELSE acks
    \/ link[i] = "broken" /\ UNCHANGED <<received, acks>>

Break(i) ==
    /\ link[i] = "up"
    /\ Down(i, "broken")
    /\ UNCHANGED <<client, queue, loops, triggers, rec, received, calls, seen>>

-----------------------------------------------------------------------------
(* The loops *)

\* go c.reconnect(), and the loop returns.
Trigger == triggers' = triggers + 1

\* (As it would be if a message left the queue only after it was written.)
WriterPeek(i) ==
    /\ writer[i].st = "select"
    /\ sendCh # <<>>
    /\ writer' = IF conn = NoConn THEN writer
                 ELSE [writer EXCEPT ![i] = Loop("write", Head(sendCh), conn)]
    /\ UNCHANGED <<client, queue, reader, triggers, rec, net, calls, seen>>

\* The select of writeLoop picks a message, also when done is closed.  Without
\* a connection the message is dropped.
WriterTake(i) ==
    /\ writer[i].st = "select"
    /\ sendCh # <<>>
    /\ sendCh' = Tail(sendCh)
    /\ writer' = IF conn = NoConn THEN writer
                 ELSE [writer EXCEPT ![i] = Loop("write", Head(sendCh), conn)]
    /\ UNCHANGED <<client, sent, reader, triggers, rec, net, calls, seen>>

\* (As it would be if the loop only looked for a connection.)
WriterStopUnlessConnected(i) ==
    /\ writer[i].st = "select"
    /\ closed /\ conn = NoConn
    /\ writer' = [writer EXCEPT ![i] = Stopped]
    /\ UNCHANGED <<client, queue, reader, triggers, rec, net, calls, seen>>

WriterStop(i) ==
    /\ writer[i].st = "select"
    /\ closed
    /\ writer' = [writer EXCEPT ![i] = Stopped]
    /\ UNCHANGED <<client, queue, reader, triggers, rec, net, calls, seen>>

WriterWrite(i) ==
    /\ writer[i].st = "write"
    /\ Written(writer[i].on, writer[i].msg)
    /\ writer' = [writer EXCEPT ![i] = Loop("select", NoMsg, NoConn)]
    /\ UNCHANGED <<client, queue, reader, triggers, rec, link, calls, seen>>

WriterFail(i) ==
    /\ writer[i].st = "write"
    /\ link[writer[i].on] # "up"
    /\ writer' = [writer EXCEPT ![i] = Stopped]
    /\ Trigger
    /\ UNCHANGED <<client, queue, reader, rec, net, calls, seen>>

ReaderLoad(i) ==
    /\ reader[i].st = "load"
    /\ reader' = [reader EXCEPT ![i] =
           IF conn = NoConn THEN Stopped ELSE Loop("read", NoMsg, conn)]
    /\ UNCHANGED <<client, queue, writer, triggers, rec, net, calls, seen>>

\* The next acknowledgement; a full channel drops it.
ReaderGet(i) ==
    LET c == reader[i].on IN
    /\ reader[i].st = "read"
    /\ acks[c] # <<>>
    /\ acks' = [acks EXCEPT ![c] = Tail(@)]
    /\ ackCh' = IF Len(ackCh) < AckChSize THEN Append(ackCh, Head(acks[c])) ELSE ackCh
    /\ reader' = [reader EXCEPT ![i] = Loop("load", NoMsg, NoConn)]
    /\ UNCHANGED <<client, queue, writer, triggers, rec, link, received, api,
                   surplus, seen>>

\* (As it would be if the reconnection were left to the write loop.)
ReaderStops(i) ==
    /\ reader[i].st = "read"
    /\ link[reader[i].on] # "up"
    /\ reader' = [reader EXCEPT ![i] = Stopped]
    /\ UNCHANGED <<client, queue, writer, triggers, rec, net, calls, seen>>

ReaderFail(i) ==
    /\ reader[i].st = "read"
    /\ link[reader[i].on] # "up"
    /\ reader' = [reader EXCEPT ![i] = Stopped]
    /\ IF closed THEN UNCHANGED triggers ELSE Trigger
    /\ UNCHANGED <<client, queue, writer, rec, net, calls, seen>>

-----------------------------------------------------------------------------
(* reconnect *)

InstalledBroken == conn # NoConn /\ link[conn] = "broken"

\* The compare-and-swap fails: another reconnect holds the flag.
SkipReconnect ==
    /\ triggers > 0
    /\ rec.st # "idle"
    /\ triggers' = triggers - 1
    /\ missed' = (missed \/ (rec.st = "release" /\ InstalledBroken))
    /\ UNCHANGED <<client, queue, loops, rec, net, calls, crowded>>

\* It succeeds: the connection is closed, unless close has been called.
BeginReconnect ==
    /\ triggers > 0
    /\ rec.st = "idle"
    /\ triggers' = triggers - 1
    /\ IF closed
       THEN UNCHANGED <<rec, conn, link, acks>>
       ELSE /\ rec' = [st |-> "dial", tries |-> 1, on |-> NoConn]
            /\ conn' = NoConn
            /\ CloseConn
    /\ UNCHANGED <<closed, cached, queue, loops, received, calls, seen>>

\* The next attempt, if there is one left and done is not closed.  It sleeps
\* and dials.
NextTry == rec' = IF rec.tries < MaxReconnect /\ ~closed
                  THEN [st |-> "dial", tries |-> rec.tries + 1, on |-> NoConn]
                  ELSE [rec EXCEPT !.st = "release"]

DialFails ==
    /\ rec.st = "dial"
    /\ NextTry
    /\ UNCHANGED <<client, queue, loops, triggers, net, calls, seen>>

\* Connection n, the next one, is dialled and installed.
Install(n) ==
    /\ rec.st = "dial"
    /\ link[n] = "unused"
    /\ \A k \in 1..(n - 1) : link[k] # "unused"
    /\ link' = [link EXCEPT ![n] = "up"]
    /\ conn' = n
    /\ rec' = [rec EXCEPT !.st = IF cached THEN "replay" ELSE "spawn", !.on = n]
    /\ crowded' = (crowded \/ \E i \in Conns : Running(writer[i]))
    /\ missed' = FALSE
    /\ UNCHANGED <<closed, cached, queue, reader, triggers, received, acks, calls>>

\* (As it would be if the write loop were started before the replay.)
DialStartsWriter ==
    \E n \in Conns :
        /\ Install(n)
        /\ writer' = [writer EXCEPT ![n] = Loop("select", NoMsg, NoConn)]

\* Nothing looks at closed again.
DialSucceeds == (\E n \in Conns : Install(n)) /\ UNCHANGED writer

ReplayStart ==
    /\ rec.st = "replay"
    /\ Written(rec.on, Replay)
    /\ rec' = [rec EXCEPT !.st = "spawn"]
    /\ surplus' = surplus \union {"start_mission"}
    /\ UNCHANGED <<client, queue, loops, triggers, link, api, ackCh, seen>>

\* The connection is closed but stays installed until the next attempt.
ReplayFails ==
    /\ rec.st = "replay"
    /\ link[rec.on] # "up"
    /\ Down(rec.on, "closed")
    /\ NextTry
    /\ UNCHANGED <<client, queue, loops, triggers, received, calls, seen>>

\* (As it would be if only the loop that reports errors were started anew.)
StartReader ==
    /\ rec.st = "spawn"
    /\ reader' = [reader EXCEPT ![rec.on] = Loop("load", NoMsg, NoConn)]
    /\ rec' = [rec EXCEPT !.st = "release"]
    /\ UNCHANGED <<client, queue, writer, triggers, net, calls, seen>>

\* Both loops are started; earlier ones may still be running.
StartLoops ==
    /\ rec.st = "spawn"
    /\ writer' = [writer EXCEPT ![rec.on] = Loop("select", NoMsg, NoConn)]
    /\ reader' = [reader EXCEPT ![rec.on] = Loop("load", NoMsg, NoConn)]
    /\ rec' = [rec EXCEPT !.st = "release"]
    /\ UNCHANGED <<client, queue, triggers, net, calls, seen>>

\* The deferred reconnecting.Store(false).
Release ==
    /\ rec.st = "release"
    /\ rec' = NoRec
    /\ UNCHANGED <<client, queue, loops, triggers, net, calls, seen>>

-----------------------------------------------------------------------------
Reconnect ==
    \/ SkipReconnect \/ BeginReconnect \/ DialFails \/ DialSucceeds
    \/ ReplayStart \/ ReplayFails \/ StartLoops \/ Release

Write(i) == \/ WriterTake(i) \/ WriterStop(i) \/ WriterWrite(i) \/ WriterFail(i)

Read(i) == ReaderLoad(i) \/ ReaderGet(i) \/ ReaderFail(i)

Next ==
    \/ Record \/ CacheStart \/ StartMission \/ EndMission \/ Close
    \/ \E t \in Calls : TimeOut(t) \/ TakeAck(t)
    \/ \E i \in Conns : Break(i) \/ Write(i) \/ Read(i)
    \/ Reconnect

Spec == Init /\ [][Next]_vars

\* The Go scheduler runs every goroutine that is not blocked, dials end and
\* timers expire.  Nothing makes the server send or the network fail.
WsFairness ==
    /\ \A i \in Conns : /\ WF_vars(Write(i))
                        /\ WF_vars(ReaderLoad(i) \/ ReaderFail(i))
    /\ \A t \in Calls : WF_vars(TimeOut(t))
    /\ WF_vars(Reconnect)

WsFairSpec == Spec /\ WsFairness

-----------------------------------------------------------------------------
\* No message is sent twice, whatever fails and however often the connection
\* is replaced (a failed write is not retried); only start_mission is replayed,
\* once per connection.
AtMostOnce ==
    \A i, j \in Conns :
        \A m \in DOMAIN received[i], n \in DOMAIN received[j] :
            (received[i][m] = received[j][n] /\ <<i, m>> # <<j, n>>) =>
                received[i][m] = Replay /\ i # j

\* Nothing overtakes the queue: what the server has received was sent before
\* everything still queued, also when two write loops take from it.  And unless a
\* write loop was still running when a reconnect installed its connection, the
\* server receives a replayed start before anything else of that connection, and
\* the messages in the order of the calls of send, also across connections.
SendOrder ==
    /\ \A i \in Conns : \A m \in DOMAIN received[i], a \in DOMAIN sendCh :
          received[i][m].id < sendCh[a].id
    /\ ~crowded => \A i, j \in Conns :
          \A m \in DOMAIN received[i], n \in DOMAIN received[j] :
              (i < j \/ (i = j /\ m < n)) =>
                  IF received[j][n] = Replay THEN i < j
                  ELSE received[i][m].id < received[j][n].id

\* A loop that runs and reads or writes, if it does, on the installed connection.
Serves(l) == Running(l) /\ (l.st \in {"read", "write"} => l.on = conn)

\* A working connection that is installed is served by the two loops that were
\* started for it, whatever becomes of older loops and late reconnects, unless
\* its reconnect is still about to start them (reconnect, the errors of both
\* loops).
ConnectionIsServed ==
    (conn # NoConn /\ link[conn] = "up" /\ rec.st \notin {"replay", "spawn"}
        /\ ~closed) =>
            Serves(writer[conn]) /\ Serves(reader[conn])

\* StartMission and EndMission return without an error only when the server has
\* received their message, whatever was lost, replaced or dropped on the way:
\* as long as no earlier call of the kind has given up and no message of it was
\* replayed.  Then an acknowledgement nobody waited for may be in ackCh, and it
\* answers the next call.
AckMeansReceived ==
    [][\A t \in Calls :
          (api[t].st = "waiting" /\ api'[t] = NoCall /\ surplus' = surplus
              /\ t \notin surplus) =>
                 \E i \in Conns : \E n \in DOMAIN received[i] :
                     received[i][n] = [id |-> api[t].id, type |-> t]]_vars

\* Somebody will notice that the installed connection has broken, although
\* nobody may send anything: a read loop, the reconnect that has the flag or one
\* that waits to be run.  Unless its own failure was skipped because the
\* reconnect that installed it still held the flag.
BreakIsNoticed ==
    (InstalledBroken /\ ~closed /\ ~missed) =>
        \/ triggers > 0
        \/ rec.st # "idle"
        \/ \E i \in Conns : Running(reader[i])

\* After close every write loop, reconnect and waiting caller ends ("close shuts
\* down all goroutines", connection.go:261).  The read loop of a connection that
\* a reconnect installed after close is not among them: only the server ends it.
CloseEnds ==
    closed ~> /\ \A i \in Conns : ~Running(writer[i])
              /\ triggers = 0
              /\ rec.st = "idle"
              /\ \A t \in Calls : api[t].st # "waiting"

-----------------------------------------------------------------------------
(* A statement of a comment that the code does not keep *)

\* "Only one writeLoop runs at a time; it returns on error or shutdown"
\* (connection.go:92): but an error of readLoop starts a reconnect too.
OneWriteLoop == Cardinality({i \in Conns : Running(writer[i])}) <= 1
=============================================================================
