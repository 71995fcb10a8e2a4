-------------------------- MODULE DispatcherProofs --------------------------
(***************************************************************************)
(* Proofs about Dispatcher, for any number of commands, registrations,     *)
(* callers and events and for any channel sizes.                           *)
(*                                                                         *)
(* A goroutine that receives from a full channel puts the event of a       *)
(* parked caller into it, so even the types depend on who is parked:       *)
(* TypeOK is inductive together with Parked.                               *)
(***************************************************************************)
EXTENDS Dispatcher, TLAPS, SequenceTheorems

\* The callers in the wait queue of a channel are blocked in a send on that
\* channel, and none waits twice.
Parked ==
    \A r \in Regs : \A i \in 1..Len(sendq[r]) :
        /\ call[sendq[r][i]].st = "sending"
        /\ call[sendq[r][i]].reg = r
        /\ \A j \in 1..Len(sendq[r]) : sendq[r][i] = sendq[r][j] => i = j

TInv == TypeOK /\ Parked

-----------------------------------------------------------------------------
\* An event appended to a concatenation goes to its last part.
LEMMA AppendLast ==
    ASSUME NEW d \in Seq(Events), NEW b \in Seq(Events), NEW e \in Events
    PROVE  Append(d \o b, e) = d \o Append(b, e)
    OBVIOUS

\* Sequences of events are concatenated in any grouping.
LEMMA ConcatEvents ==
    ASSUME NEW x \in Seq(Events), NEW y \in Seq(Events), NEW z \in Seq(Events)
    PROVE  (x \o y) \o z = x \o (y \o z)
    OBVIOUS

\* The event after a first part of a sequence.
LEMMA MiddleEvent ==
    ASSUME NEW h \in Seq(Events), NEW b \in Seq(Events), NEW e \in Events
    PROVE  /\ Len(h) < Len(h \o <<e>> \o b)
           /\ (h \o <<e>> \o b)[Len(h) + 1] = e
           /\ h \o <<e>> = Append(h, e)
<1> DEFINE d == h \o <<e>>
<1>1. d \in Seq(Events) /\ Len(d) = Len(h) + 1 /\ d[Len(h) + 1] = e
    OBVIOUS
<1>2. d = Append(h, e) /\ Len(h) \in Nat
    OBVIOUS
<1> HIDE DEF d
<1>3. Len(h) < Len(d \o b) /\ (d \o b)[Len(h) + 1] = e
    BY <1>1, <1>2
<1> QED
    BY <1>2, <1>3 DEF d

\* The head of the last part moves to the middle, and t comes after the rest.
Moved(h, b, t) == (h \o <<>> \o b) \o t = h \o <<Head(b)>> \o (Tail(b) \o t)

LEMMA HeadMoves ==
    ASSUME NEW h \in Seq(Events), NEW b \in Seq(Events), b # <<>>,
           NEW t \in Seq(Events)
    PROVE  Moved(h, b, t)
<1> DEFINE x == <<Head(b)>>
           y == Tail(b)
           d == h \o x
<1>1. h \o <<>> = h
    OBVIOUS
<1>2. x \in Seq(Events) /\ y \in Seq(Events) /\ b = x \o y
    OBVIOUS
<1>3. d \in Seq(Events)
    BY <1>2
<1> HIDE DEF x, y
<1>4. h \o (x \o y) = d \o y
    BY <1>2
<1> HIDE DEF d
<1>5. (d \o y) \o t = d \o (y \o t)
    BY <1>2, <1>3, ConcatEvents
<1>6. (h \o b) \o t = d \o (y \o t)
    BY <1>2, <1>4, <1>5
<1> QED
    BY <1>1, <1>6 DEF d, x, y, Moved

\* A caller that is not idle holds an event for a registration (Dispatch).
LEMMA BusyCall ==
    ASSUME TypeOK, NEW c \in Callers, call[c].st # "idle"
    PROVE  /\ call[c] \in [st : BusyStates, reg : Regs, ev : Events]
           /\ call[c].reg \in Regs
           /\ call[c].ev \in Events
    BY DEF TypeOK, CallTypes, Idle

\* A goroutine has at most one event in hand (safeHandle).
LEMMA InHandSeq ==
    ASSUME TypeOK, NEW r \in Regs
    PROVE  /\ inHand[r] \in Seq(Events)
           /\ inHand[r] # <<>> => \E e \in Events : inHand[r] = <<e>>
<1>1. inHand[r] = <<>> \/ \E e \in Events : inHand[r] = <<e>>
    BY DEF TypeOK
<1>2. CASE inHand[r] = <<>>
    BY <1>2
<1>3. CASE \E e \in Events : inHand[r] = <<e>>
  <2>1. PICK e \in Events : inHand[r] = <<e>>
    BY <1>3
  <2>2. <<e>> \in Seq(Events)
    OBVIOUS
  <2> QED
    BY <2>1, <2>2
<1> QED
    BY <1>1, <1>2, <1>3

\* The initial state has the right types, and nobody is parked.
LEMMA InitTInv == Init => TInv
<1> SUFFICES ASSUME Init PROVE TInv
    OBVIOUS
<1> USE DispatcherAssumption DEF Init
<1>1. TypeOK
  <2>1. /\ buffer \in [Regs -> Seq(Events)] /\ accepted \in [Regs -> Seq(Events)]
        /\ handled \in [Regs -> Seq(Events)] /\ sendq \in [Regs -> Seq(Callers)]
    OBVIOUS
  <2>2. inHand \in [Regs -> {<<>>} \union {<<e>> : e \in Events}]
    OBVIOUS
  <2>3. call \in [Callers -> CallTypes]
    BY DEF CallTypes
  <2>4. issued \in [Callers -> 0..MaxEvents]
    OBVIOUS
  <2> QED
    BY <2>1, <2>2, <2>3, <2>4 DEF TypeOK
<1>2. Parked
    BY DEF Parked
<1> QED
    BY <1>1, <1>2 DEF TInv

\* The oldest parked caller of a channel is sending an event to it.
LEMMA ParkedCaller ==
    ASSUME TypeOK, Parked, NEW r \in Regs, sendq[r] # <<>>
    PROVE  /\ Head(sendq[r]) \in Callers
           /\ call[Head(sendq[r])].st = "sending"
           /\ call[Head(sendq[r])].reg = r
           /\ call[Head(sendq[r])].ev \in Events
<1>1. sendq[r] \in Seq(Callers)
    BY DEF TypeOK
<1>2. Len(sendq[r]) \in Nat /\ 1 \in 1..Len(sendq[r]) /\ Head(sendq[r]) = sendq[r][1]
    BY <1>1
<1>3. /\ Head(sendq[r]) \in Callers
      /\ call[Head(sendq[r])].st = "sending"
      /\ call[Head(sendq[r])].reg = r
    BY <1>1, <1>2 DEF Parked
<1> QED
    BY <1>3, BusyCall

\* A step that leaves the callers and the wait queues alone keeps Parked.
LEMMA ParkedUnchanged ==
    ASSUME Parked, UNCHANGED <<sendq, call>>
    PROVE  Parked'
    BY DEF Parked

\* A caller that is not parked may change its call (Dispatch).
LEMMA ParkedOthers ==
    ASSUME TypeOK, Parked, NEW c \in Callers, NEW x, call[c].st # "sending",
           call' = [call EXCEPT ![c] = x], sendq' = sendq
    PROVE  Parked'
<1>1. \A r \in Regs : \A i \in 1..Len(sendq[r]) :
          sendq[r][i] \in Callers /\ sendq[r][i] # c
    BY DEF Parked, TypeOK
<1>2. \A r \in Regs : \A i \in 1..Len(sendq[r]) :
          call'[sendq[r][i]] = call[sendq[r][i]]
    BY <1>1 DEF TypeOK
<1> QED
    BY <1>2 DEF Parked

\* Register makes the handler.
LEMMA MakeHandlerTInv ==
    ASSUME TypeOK, Parked, NEW r \in Regs, MakeHandler(r)
    PROVE  TypeOK' /\ Parked'
<1> USE DispatcherAssumption
<1>1. CmdOf[r] \in Commands
    OBVIOUS
<1>2. buffers' \in [Commands -> Regs \union {NoReg}]
    BY <1>1 DEF MakeHandler, TypeOK
<1>3. consumer' \in [Regs -> {"none", "waiting", "ready"}]
    BY DEF MakeHandler, TypeOK
<1>4. reg' \in [Regs -> {"unused", "made", "installed"}]
    BY DEF MakeHandler, TypeOK
<1>5. TypeOK'
    BY <1>2, <1>3, <1>4 DEF MakeHandler, TypeOK
<1> QED
    BY <1>5, ParkedUnchanged DEF MakeHandler

\* Dispatch looks the handler up.
LEMMA LookupTInv ==
    ASSUME TypeOK, Parked, NEW c \in Callers, NEW cmd \in Commands, Lookup(c, cmd)
    PROVE  TypeOK' /\ Parked'
<1> USE DispatcherAssumption
<1> DEFINE e == <<c, issued[c] + 1>>
<1>1. issued[c] \in 0..MaxEvents /\ issued[c] < MaxEvents
    BY DEF Lookup, TypeOK
<1>2. e \in Events
    BY <1>1 DEF Events, Numbers
<1>3. issued' \in [Callers -> 0..MaxEvents]
    BY <1>1 DEF Lookup, TypeOK
<1>4. CASE handlers[cmd] = NoReg
  <2>1. call' = call /\ unknown' = unknown \union {e}
    BY <1>4 DEF Lookup
  <2>2. unknown' \subseteq Events
    BY <1>2, <2>1 DEF TypeOK
  <2>3. TypeOK'
    BY <1>3, <2>1, <2>2 DEF Lookup, TypeOK
  <2> QED
    BY <2>1, <2>3, ParkedUnchanged DEF Lookup
<1>5. CASE handlers[cmd] # NoReg
  <2>1. handlers[cmd] \in Regs
    BY <1>5 DEF TypeOK
  <2>2. Busy("lookedup", handlers[cmd], e) \in CallTypes
    BY <1>2, <2>1 DEF Busy, CallTypes, BusyStates
  <2>3. call' = [call EXCEPT ![c] = Busy("lookedup", handlers[cmd], e)]
    BY <1>5 DEF Lookup
  <2>4. call' \in [Callers -> CallTypes]
    BY <2>2, <2>3 DEF TypeOK
  <2>5. unknown' = unknown
    BY <1>5 DEF Lookup
  <2>6. TypeOK'
    BY <1>3, <2>4, <2>5 DEF Lookup, TypeOK
  <2>7. call[c].st # "sending" /\ sendq' = sendq
    BY DEF Lookup, Idle
  <2> QED
    BY <2>3, <2>6, <2>7, ParkedOthers
<1> QED
    BY <1>4, <1>5

\* The rest of Dispatch, in the caller.
LEMMA CallStepTInv ==
    ASSUME TypeOK, Parked, NEW c \in Callers, CallStep(c)
    PROVE  TypeOK' /\ Parked'
<1> DEFINE r == call[c].reg
           e == call[c].ev
<1>1. call[c].st \in BusyStates
    BY DEF CallStep, Enqueue, Drop, Park, EnterSync, LeaveSync, BusyStates
<1>2. /\ r \in Regs
      /\ e \in Events
      /\ call[c] = Busy(call[c].st, r, e)
    BY <1>1, BusyCall DEF BusyStates, Busy
<1>3. \A st \in BusyStates : Busy(st, r, e) \in CallTypes
    BY <1>2 DEF Busy, CallTypes
<1>4. \A st : [call EXCEPT ![c].st = st] = [call EXCEPT ![c] = Busy(st, r, e)]
  <2> TAKE st
  <2>1. [call[c] EXCEPT !.st = st] = Busy(st, r, e)
    BY <1>2 DEF Busy
  <2> QED
    BY <2>1
<1>5. Idle \in CallTypes
    BY DEF CallTypes
<1> HIDE DEF r, e
<1>6. CASE Enqueue(c)
  <2>1. /\ buffer' \in [Regs -> Seq(Events)]
        /\ accepted' \in [Regs -> Seq(Events)]
    BY <1>2, <1>6 DEF Enqueue, TypeOK, r, e
  <2>2. call' = [call EXCEPT ![c] = Idle] /\ call' \in [Callers -> CallTypes]
    BY <1>5, <1>6 DEF Enqueue, TypeOK
  <2>3. TypeOK'
    BY <1>6, <2>1, <2>2 DEF Enqueue, TypeOK
  <2>4. call[c].st # "sending" /\ sendq' = sendq
    BY <1>6 DEF Enqueue
  <2> QED
    BY <2>2, <2>3, <2>4, ParkedOthers
<1>7. CASE Drop(c)
  <2>1. dropped' \subseteq Events
    BY <1>2, <1>7 DEF Drop, TypeOK, e
  <2>2. call' = [call EXCEPT ![c] = Idle] /\ call' \in [Callers -> CallTypes]
    BY <1>5, <1>7 DEF Drop, TypeOK
  <2>3. TypeOK'
    BY <1>7, <2>1, <2>2 DEF Drop, TypeOK
  <2>4. call[c].st # "sending" /\ sendq' = sendq
    BY <1>7 DEF Drop
  <2> QED
    BY <2>2, <2>3, <2>4, ParkedOthers
<1>8. CASE Park(c)
  <2>1. sendq' = [sendq EXCEPT ![r] = Append(@, c)] /\ sendq[r] \in Seq(Callers)
    BY <1>2, <1>8 DEF Park, TypeOK, r
  <2>2. sendq' \in [Regs -> Seq(Callers)]
    <3>1. Append(sendq[r], c) \in Seq(Callers)
      BY <2>1
    <3> QED
      BY <1>2, <2>1, <3>1 DEF TypeOK
  <2>3. call' = [call EXCEPT ![c] = Busy("sending", r, e)]
    BY <1>4, <1>8 DEF Park
  <2>4. call' \in [Callers -> CallTypes]
    BY <1>3, <2>3 DEF TypeOK, BusyStates
  <2>5. TypeOK'
    BY <1>8, <2>2, <2>4 DEF Park, TypeOK
  <2>6. call[c].st = "lookedup"
    BY <1>8 DEF Park
  <2>7. \A q \in Regs : \A i \in 1..Len(sendq[q]) :
            /\ sendq[q][i] \in Callers /\ sendq[q][i] # c
            /\ call'[sendq[q][i]] = call[sendq[q][i]]
    BY <2>3, <2>6 DEF Parked, TypeOK
  <2>8. call'[c].st = "sending" /\ call'[c].reg = r
    BY <2>3 DEF TypeOK, Busy
  <2>9. ASSUME NEW q \in Regs, q # r PROVE sendq'[q] = sendq[q]
    BY <2>1, <2>9 DEF TypeOK
  <2>10. /\ Len(sendq'[r]) = Len(sendq[r]) + 1
         /\ sendq'[r][Len(sendq[r]) + 1] = c
         /\ \A i \in 1..Len(sendq[r]) : sendq'[r][i] = sendq[r][i]
    BY <1>2, <2>1 DEF TypeOK
  <2>11. ASSUME NEW q \in Regs, NEW i \in 1..Len(sendq'[q])
         PROVE  /\ call'[sendq'[q][i]].st = "sending"
                /\ call'[sendq'[q][i]].reg = q
                /\ \A j \in 1..Len(sendq'[q]) :
                       sendq'[q][i] = sendq'[q][j] => i = j
    <3>1. CASE q # r
      BY <2>7, <2>9, <3>1 DEF Parked
    <3>2. CASE q = r
      <4>1. Len(sendq[r]) \in Nat
        BY <2>1
      <4>2. CASE i = Len(sendq[r]) + 1
        <5>1. sendq'[q][i] = c
          BY <2>10, <3>2, <4>2
        <5>2. ASSUME NEW j \in 1..Len(sendq'[r]), j # i
              PROVE  sendq'[r][j] # c
          <6>1. j \in 1..Len(sendq[r])
            BY <2>10, <4>1, <4>2, <5>2
          <6> QED
            BY <1>2, <2>7, <2>10, <6>1
        <5> QED
          BY <2>8, <3>2, <5>1, <5>2
      <4>3. CASE i # Len(sendq[r]) + 1
        <5>1. i \in 1..Len(sendq[r]) /\ sendq'[r][i] = sendq[r][i]
          BY <2>10, <3>2, <4>1, <4>3
        <5>2. sendq[r][i] # c /\ call'[sendq[r][i]] = call[sendq[r][i]]
          BY <1>2, <2>7, <5>1
        <5>3. call[sendq[r][i]].st = "sending" /\ call[sendq[r][i]].reg = r
          BY <1>2, <5>1 DEF Parked
        <5>4. ASSUME NEW j \in 1..Len(sendq'[r]), sendq'[r][i] = sendq'[r][j]
              PROVE  i = j
          <6>1. j # Len(sendq[r]) + 1
            BY <2>10, <5>1, <5>2, <5>4
          <6>2. j \in 1..Len(sendq[r]) /\ sendq[r][i] = sendq[r][j]
            BY <2>10, <4>1, <5>1, <5>4, <6>1
          <6> QED
            BY <1>2, <5>1, <6>2 DEF Parked
        <5> QED
          BY <3>2, <5>1, <5>2, <5>3, <5>4
      <4> QED
        BY <4>2, <4>3
    <3> QED
      BY <3>1, <3>2
  <2> QED
    BY <2>5, <2>11 DEF Parked
<1>9. CASE EnterSync(c)
  <2>1. call' = [call EXCEPT ![c] = Busy("handling", r, e)]
    BY <1>4, <1>9 DEF EnterSync
  <2>2. call' \in [Callers -> CallTypes]
    BY <1>3, <2>1 DEF TypeOK, BusyStates
  <2>3. TypeOK'
    BY <1>9, <2>2 DEF EnterSync, TypeOK
  <2>4. call[c].st # "sending" /\ sendq' = sendq
    BY <1>9 DEF EnterSync
  <2> QED
    BY <2>1, <2>3, <2>4, ParkedOthers
<1>10. CASE LeaveSync(c)
  <2>1. handled' \in [Regs -> Seq(Events)]
    BY <1>2, <1>10 DEF LeaveSync, TypeOK, r, e
  <2>2. call' = [call EXCEPT ![c] = Idle] /\ call' \in [Callers -> CallTypes]
    BY <1>5, <1>10 DEF LeaveSync, TypeOK
  <2>3. TypeOK'
    BY <1>10, <2>1, <2>2 DEF LeaveSync, TypeOK
  <2>4. call[c].st # "sending" /\ sendq' = sendq
    BY <1>10 DEF LeaveSync
  <2> QED
    BY <2>2, <2>3, <2>4, ParkedOthers
<1> QED
    BY <1>6, <1>7, <1>8, <1>9, <1>10 DEF CallStep

\* A goroutine receives an event, and the oldest parked caller gets rid of
\* its own (the loop of withBuffer).
LEMMA TakeTInv ==
    ASSUME TypeOK, Parked, NEW r \in Regs, Take(r)
    PROVE  TypeOK' /\ Parked'
<1>1. /\ buffer[r] \in Seq(Events)
      /\ buffer[r] # <<>>
      /\ Head(buffer[r]) \in Events
      /\ Tail(buffer[r]) \in Seq(Events)
    BY DEF Take, TypeOK
<1>2. inHand' \in [Regs -> {<<>>} \union {<<e>> : e \in Events}]
    BY <1>1 DEF Take, TypeOK
<1>3. CASE sendq[r] = <<>>
  <2>1. UNCHANGED <<sendq, call, accepted>>
    BY <1>3 DEF Take
  <2>2. buffer' = [buffer EXCEPT ![r] = Tail(buffer[r]) \o <<>>]
    BY <1>3 DEF Take, AfterReceive
  <2>3. Tail(buffer[r]) \o <<>> \in Seq(Events)
    BY <1>1
  <2>4. buffer' \in [Regs -> Seq(Events)]
    BY <2>2, <2>3 DEF TypeOK
  <2>5. TypeOK'
    BY <1>2, <2>1, <2>4 DEF Take, TypeOK
  <2> QED
    BY <2>1, <2>5, ParkedUnchanged
<1>4. CASE sendq[r] # <<>>
  <2> DEFINE c == Head(sendq[r])
             e == call[c].ev
  <2>1. /\ sendq[r] \in Seq(Callers) /\ Len(sendq[r]) \in Nat
        /\ 1 \in 1..Len(sendq[r]) /\ c = sendq[r][1] /\ c \in Callers
    BY <1>4 DEF TypeOK
  <2>2. call[c].st = "sending" /\ call[c].reg = r
    BY <2>1 DEF Parked
  <2>3. e \in Events
    BY <2>1, <2>2, BusyCall
  <2> HIDE DEF c, e
  <2>4. /\ buffer' = [buffer EXCEPT ![r] = Tail(buffer[r]) \o <<e>>]
        /\ accepted' = [accepted EXCEPT ![r] = Append(@, e)]
        /\ sendq' = [sendq EXCEPT ![r] = Tail(@)]
        /\ call' = [call EXCEPT ![c] = Idle]
    BY <1>4 DEF Take, AfterReceive, c, e
  <2>5. buffer' \in [Regs -> Seq(Events)] /\ accepted' \in [Regs -> Seq(Events)]
    BY <1>1, <2>3, <2>4 DEF TypeOK
  <2>6. sendq' \in [Regs -> Seq(Callers)]
    BY <1>4, <2>1, <2>4 DEF TypeOK
  <2>7. call' \in [Callers -> CallTypes]
    BY <2>4 DEF TypeOK, CallTypes
  <2>8. TypeOK'
    BY <1>2, <2>5, <2>6, <2>7 DEF Take, TypeOK
  <2>9. ASSUME NEW q \in Regs, q # r PROVE sendq'[q] = sendq[q]
    BY <2>4, <2>9 DEF TypeOK
  <2>10. /\ Len(sendq'[r]) = Len(sendq[r]) - 1
         /\ \A i \in 1..Len(sendq'[r]) : sendq'[r][i] = sendq[r][i + 1]
    BY <1>4, <2>1, <2>4 DEF TypeOK
  <2>11. ASSUME NEW q \in Regs, NEW i \in 1..Len(sendq'[q])
         PROVE  /\ call'[sendq'[q][i]].st = "sending"
                /\ call'[sendq'[q][i]].reg = q
                /\ \A j \in 1..Len(sendq'[q]) :
                       sendq'[q][i] = sendq'[q][j] => i = j
    <3>1. CASE q # r
      <4>1. i \in 1..Len(sendq[q]) /\ sendq[q][i] \in Callers
        BY <2>9, <3>1 DEF TypeOK
      <4>2. sendq[q][i] # c
        BY <2>2, <3>1, <4>1 DEF Parked
      <4>3. call'[sendq[q][i]] = call[sendq[q][i]]
        BY <2>4, <4>1, <4>2 DEF TypeOK
      <4> QED
        BY <2>9, <3>1, <4>1, <4>3 DEF Parked
    <3>2. CASE q = r
      <4>1. i + 1 \in 1..Len(sendq[r]) /\ sendq'[r][i] = sendq[r][i + 1]
        BY <2>1, <2>10, <3>2
      <4>2. sendq[r][i + 1] # c /\ sendq[r][i + 1] \in Callers
        BY <2>1, <4>1 DEF Parked
      <4>3. call'[sendq[r][i + 1]] = call[sendq[r][i + 1]]
        BY <2>4, <4>2 DEF TypeOK
      <4>4. /\ call'[sendq'[r][i]].st = "sending"
            /\ call'[sendq'[r][i]].reg = r
        BY <4>1, <4>3 DEF Parked
      <4>5. ASSUME NEW j \in 1..Len(sendq'[r]), sendq'[r][i] = sendq'[r][j]
            PROVE  i = j
        <5>1. j + 1 \in 1..Len(sendq[r]) /\ sendq'[r][j] = sendq[r][j + 1]
          BY <2>1, <2>10
        <5>2. sendq[r][i + 1] = sendq[r][j + 1]
          BY <2>10, <4>1, <4>5, <5>1
        <5>3. i + 1 = j + 1
          BY <4>1, <5>1, <5>2 DEF Parked
        <5> QED
          BY <2>1, <2>10, <3>2, <5>3
      <4> QED
        BY <3>2, <4>4, <4>5
    <3> QED
      BY <3>1, <3>2
  <2> QED
    BY <2>8, <2>11 DEF Parked
<1> QED
    BY <1>3, <1>4

\* Every step of the dispatcher keeps the types and the wait queues (all
\* handlers of Register and Dispatch, and the goroutines of withBuffer).
LEMMA StepTInv == TInv /\ [Next]_vars => TInv'
<1> SUFFICES ASSUME TypeOK, Parked, [Next]_vars PROVE TypeOK' /\ Parked'
    BY DEF TInv
<1> USE DispatcherAssumption
<1>1. ASSUME NEW r \in Regs, MakeHandler(r) PROVE TypeOK' /\ Parked'
    BY <1>1, MakeHandlerTInv
<1>2. ASSUME NEW r \in Regs, InstallHandler(r) PROVE TypeOK' /\ Parked'
  <2>1. TypeOK'
    BY <1>2 DEF InstallHandler, TypeOK
  <2> QED
    BY <1>2, <2>1, ParkedUnchanged DEF InstallHandler
<1>3. ASSUME NEW c \in Callers, NEW cmd \in Commands, Lookup(c, cmd)
      PROVE  TypeOK' /\ Parked'
    BY <1>3, LookupTInv
<1>4. ASSUME NEW c \in Callers, CallStep(c) PROVE TypeOK' /\ Parked'
    BY <1>4, CallStepTInv
<1>5. ASSUME NEW r \in Regs, PassGate(r) PROVE TypeOK' /\ Parked'
  <2>1. TypeOK'
    BY <1>5 DEF PassGate, TypeOK
  <2> QED
    BY <1>5, <2>1, ParkedUnchanged DEF PassGate
<1>6. ASSUME NEW r \in Regs, Take(r) PROVE TypeOK' /\ Parked'
    BY <1>6, TakeTInv
<1>7. ASSUME NEW r \in Regs, Finish(r) PROVE TypeOK' /\ Parked'
  <2>1. inHand[r] \in Seq(Events) /\ handled[r] \in Seq(Events)
    BY InHandSeq DEF TypeOK
  <2>2. handled[r] \o inHand[r] \in Seq(Events)
    BY <2>1
  <2>3. /\ handled' \in [Regs -> Seq(Events)]
        /\ inHand' \in [Regs -> {<<>>} \union {<<e>> : e \in Events}]
    BY <1>7, <2>2 DEF Finish, TypeOK
  <2>4. TypeOK'
    BY <1>7, <2>3 DEF Finish, TypeOK
  <2> QED
    BY <1>7, <2>4, ParkedUnchanged DEF Finish
<1>8. CASE OpenGate
  <2>1. TypeOK'
    BY <1>8 DEF OpenGate, TypeOK
  <2> QED
    BY <1>8, <2>1, ParkedUnchanged DEF OpenGate
<1>9. CASE UNCHANGED vars
  <2>1. TypeOK'
    BY <1>9 DEF vars, TypeOK
  <2> QED
    BY <1>9, <2>1, ParkedUnchanged DEF vars
<1> QED
    BY <1>1, <1>2, <1>3, <1>4, <1>5, <1>6, <1>7, <1>8, <1>9
    DEF Next, Register, Goroutine

\* The types of the dispatcher hold in every reachable state, for any number
\* of commands, registrations, callers and events.
THEOREM TypeCorrect == Spec => []TypeOK
<1>1. Spec => []TInv
    BY InitTInv, StepTInv, PTL DEF Spec
<1>2. TInv => TypeOK
    BY DEF TInv
<1> QED
    BY <1>1, <1>2, PTL

-----------------------------------------------------------------------------
\* What the safety properties rest on: who handles events synchronously, who
\* waits in a send, and which goroutines have not passed their gate.
SyncCalls ==
    \A c \in Callers :
        /\ call[c].st = "handling" => ~IsBuffered(call[c].reg)
        /\ call[c].st = "sending"  => IsBuffered(call[c].reg)

GateClosed == ~gate => \A r \in GatedRegs : consumer[r] # "ready"

Safe ==
    /\ SyncCalls
    /\ GateClosed
    /\ ExactlyOnceInOrder
    /\ CapacityRespected
    /\ NothingBeforeGate

\* Nothing has been called, sent or handled at the start.
LEMMA InitSafe == Init => Safe
<1> SUFFICES ASSUME Init PROVE Safe
    OBVIOUS
<1> USE DispatcherAssumption DEF Init
<1>1. SyncCalls
    BY DEF SyncCalls, Idle
<1>2. GateClosed
    BY DEF GateClosed
<1>3. ExactlyOnceInOrder
    BY DEF ExactlyOnceInOrder
<1>4. CapacityRespected
    BY DEF CapacityRespected
<1>5. NothingBeforeGate
    BY DEF NothingBeforeGate, Idle
<1> QED
    BY <1>1, <1>2, <1>3, <1>4, <1>5 DEF Safe

\* Which caller handles or sends what is settled when it enters the state.
LEMMA StepSyncCalls == TypeOK /\ Parked /\ SyncCalls /\ [Next]_vars => SyncCalls'
<1> SUFFICES ASSUME TypeOK, Parked, SyncCalls, [Next]_vars PROVE SyncCalls'
    OBVIOUS
<1>1. CASE UNCHANGED call
    BY <1>1 DEF SyncCalls
<1>2. ASSUME NEW c \in Callers, NEW x, call' = [call EXCEPT ![c] = x],
             x.st = "handling" => ~IsBuffered(x.reg),
             x.st = "sending" => IsBuffered(x.reg)
      PROVE  SyncCalls'
    BY <1>2 DEF SyncCalls, TypeOK
<1>3. ASSUME NEW c \in Callers, call' = [call EXCEPT ![c] = Idle]
      PROVE  SyncCalls'
    BY <1>2, <1>3 DEF Idle
<1>4. ASSUME NEW c \in Callers, NEW cmd \in Commands, Lookup(c, cmd)
      PROVE  SyncCalls'
  <2>1. CASE UNCHANGED call
    BY <1>1, <2>1
  <2>2. CASE call' = [call EXCEPT ![c] = Busy("lookedup", handlers[cmd],
                                              <<c, issued[c] + 1>>)]
    BY <1>2, <2>2 DEF Busy
  <2> QED
    BY <1>4, <2>1, <2>2 DEF Lookup
<1>5. ASSUME NEW c \in Callers, Park(c) \/ EnterSync(c) PROVE SyncCalls'
  <2> DEFINE r == call[c].reg
             e == call[c].ev
  <2>1. call[c] = Busy(call[c].st, r, e)
    BY <1>5, BusyCall DEF Park, EnterSync, Busy
  <2>2. CASE Park(c)
    <3>1. [call[c] EXCEPT !.st = "sending"] = Busy("sending", r, e)
      BY <2>1 DEF Busy
    <3>2. call' = [call EXCEPT ![c] = Busy("sending", r, e)] /\ IsBuffered(r)
      BY <2>2, <3>1 DEF Park
    <3> QED
      BY <1>2, <3>2 DEF Busy
  <2>3. CASE EnterSync(c)
    <3>1. [call[c] EXCEPT !.st = "handling"] = Busy("handling", r, e)
      BY <2>1 DEF Busy
    <3>2. call' = [call EXCEPT ![c] = Busy("handling", r, e)] /\ ~IsBuffered(r)
      BY <2>3, <3>1 DEF EnterSync
    <3> QED
      BY <1>2, <3>2 DEF Busy
  <2> QED
    BY <1>5, <2>2, <2>3
<1>6. ASSUME NEW r \in Regs, Take(r) PROVE SyncCalls'
  <2>1. CASE UNCHANGED call
    BY <1>1, <2>1
  <2>2. CASE sendq[r] # <<>>
    <3>1. sendq[r] \in Seq(Callers)
      BY DEF TypeOK
    <3>2. Head(sendq[r]) \in Callers
      BY <2>2, <3>1
    <3>3. call' = [call EXCEPT ![Head(sendq[r])] = Idle]
      BY <1>6, <2>2 DEF Take
    <3> QED
      BY <1>3, <3>2, <3>3
  <2> QED
    BY <1>6, <2>1, <2>2 DEF Take
<1>7. ASSUME NEW c \in Callers, CallStep(c) PROVE SyncCalls'
    BY <1>3, <1>5, <1>7 DEF CallStep, Enqueue, Drop, LeaveSync
<1>8. ASSUME NEW r \in Regs, Register(r) PROVE SyncCalls'
    BY <1>1, <1>8 DEF Register, MakeHandler, InstallHandler
<1>9. ASSUME NEW r \in Regs, Goroutine(r) PROVE SyncCalls'
    BY <1>1, <1>6, <1>9 DEF Goroutine, PassGate, Finish
<1>10. CASE OpenGate \/ UNCHANGED vars
    BY <1>1, <1>10 DEF OpenGate, vars
<1> QED
    BY <1>4, <1>7, <1>8, <1>9, <1>10 DEF Next

\* Nothing but close(storageReady) lets a gated goroutine start its loop.
LEMMA StepGateClosed == TypeOK /\ GateClosed /\ [Next]_vars => GateClosed'
<1> SUFFICES ASSUME TypeOK, GateClosed, [Next]_vars PROVE GateClosed'
    OBVIOUS
<1> USE DispatcherAssumption
<1>1. CASE UNCHANGED <<gate, consumer>>
    BY <1>1 DEF GateClosed
<1>2. ASSUME NEW r \in Regs, MakeHandler(r) PROVE GateClosed'
    BY <1>2 DEF MakeHandler, GateClosed, TypeOK
<1>3. ASSUME NEW r \in Regs, PassGate(r) PROVE GateClosed'
    BY <1>3 DEF PassGate, GateOpenFor, GateClosed, TypeOK
<1>4. CASE OpenGate
    BY <1>4 DEF OpenGate, GateClosed
<1>5. CASE UNCHANGED vars
    BY <1>1, <1>5 DEF vars
<1>6. ASSUME NEW r \in Regs, InstallHandler(r) \/ Take(r) \/ Finish(r)
      PROVE  GateClosed'
    BY <1>1, <1>6 DEF InstallHandler, Take, Finish
<1>7. ASSUME NEW c \in Callers, CallStep(c) PROVE GateClosed'
    BY <1>1, <1>7 DEF CallStep, Enqueue, Drop, Park, EnterSync, LeaveSync
<1>8. ASSUME NEW c \in Callers, NEW cmd \in Commands, Lookup(c, cmd)
      PROVE  GateClosed'
    BY <1>1, <1>8 DEF Lookup
<1> QED
    BY <1>2, <1>3, <1>4, <1>5, <1>6, <1>7, <1>8 DEF Next, Register, Goroutine

\* Delivery stays exactly once and in order (withBuffer, safeHandle).
LEMMA StepDelivery ==
    TypeOK /\ Parked /\ SyncCalls /\ ExactlyOnceInOrder /\ [Next]_vars
        => ExactlyOnceInOrder'
<1> SUFFICES ASSUME TypeOK, Parked, SyncCalls, ExactlyOnceInOrder, [Next]_vars
             PROVE  ExactlyOnceInOrder'
    OBVIOUS
<1> USE DispatcherAssumption
<1>1. CASE UNCHANGED <<accepted, handled, inHand, buffer>>
    BY <1>1 DEF ExactlyOnceInOrder
<1>2. ASSUME NEW q \in Regs
      PROVE  /\ accepted[q] \in Seq(Events) /\ handled[q] \in Seq(Events)
             /\ inHand[q] \in Seq(Events) /\ buffer[q] \in Seq(Events)
    BY InHandSeq DEF TypeOK
<1>3. ASSUME NEW c \in Callers, Enqueue(c) PROVE ExactlyOnceInOrder'
  <2>1. PICK r \in Regs, e \in Events : call[c].reg = r /\ call[c].ev = e
    BY <1>3, BusyCall DEF Enqueue
  <2>2. /\ buffer' = [buffer EXCEPT ![r] = Append(@, e)]
        /\ accepted' = [accepted EXCEPT ![r] = Append(@, e)]
        /\ UNCHANGED <<handled, inHand>>
    BY <1>3, <2>1 DEF Enqueue
  <2>3. handled[r] \o inHand[r] \in Seq(Events) /\ buffer[r] \in Seq(Events)
    BY <1>2
  <2>4. e \in Events
    BY <2>1
  <2> DEFINE d == handled[r] \o inHand[r]
  <2>5. d \in Seq(Events)
    BY <2>3
  <2> HIDE DEF d
  <2>6. Append(d \o buffer[r], e) = d \o Append(buffer[r], e)
    BY <2>3, <2>4, <2>5, AppendLast, Zenon
  <2> QED
    BY <2>2, <2>6 DEF ExactlyOnceInOrder, TypeOK, d
<1>4. ASSUME NEW c \in Callers, LeaveSync(c) PROVE ExactlyOnceInOrder'
  <2>1. call[c].reg \in Regs /\ ~IsBuffered(call[c].reg)
    BY <1>4, BusyCall DEF LeaveSync, SyncCalls
  <2> QED
    BY <1>4, <2>1 DEF LeaveSync, ExactlyOnceInOrder, TypeOK, IsBuffered
<1>5. ASSUME NEW c \in Callers, CallStep(c) PROVE ExactlyOnceInOrder'
    BY <1>1, <1>3, <1>4, <1>5 DEF CallStep, Drop, Park, EnterSync
<1>6. ASSUME NEW r \in Regs, Take(r) PROVE ExactlyOnceInOrder'
  <2>1. /\ inHand' = [inHand EXCEPT ![r] = <<Head(buffer[r])>>]
        /\ inHand[r] = <<>> /\ buffer[r] # <<>>
        /\ handled' = handled
    BY <1>6 DEF Take
  <2>2. handled[r] \in Seq(Events) /\ buffer[r] \in Seq(Events)
    BY <1>2
  <2>3. CASE sendq[r] = <<>>
    <3>1. /\ buffer' = [buffer EXCEPT ![r] = Tail(buffer[r]) \o <<>>]
          /\ accepted' = accepted
      BY <1>6, <2>3 DEF Take, AfterReceive
    <3>2. handled[r] \o inHand[r] \o buffer[r]
            = handled[r] \o <<Head(buffer[r])>> \o (Tail(buffer[r]) \o <<>>)
      <4>1. <<>> \in Seq(Events)
        OBVIOUS
      <4>a. Moved(handled[r], buffer[r], <<>>)
        BY <2>1, <2>2, <4>1, HeadMoves
      <4>2. (handled[r] \o <<>> \o buffer[r]) \o <<>>
              = handled[r] \o <<Head(buffer[r])>> \o (Tail(buffer[r]) \o <<>>)
        BY <4>a, Zenon DEF Moved
      <4>3. handled[r] \o inHand[r] \o buffer[r] \in Seq(Events)
        BY <1>2
      <4>4. (handled[r] \o inHand[r] \o buffer[r]) \o <<>>
              = handled[r] \o inHand[r] \o buffer[r]
        BY <4>3, ConcatEmptySeq, Zenon
      <4> QED
        BY <2>1, <4>2, <4>4
    <3> QED
      BY <2>1, <3>1, <3>2 DEF ExactlyOnceInOrder, TypeOK
  <2>4. CASE sendq[r] # <<>>
    <3> DEFINE e == call[Head(sendq[r])].ev
    <3>1. /\ buffer' = [buffer EXCEPT ![r] = Tail(buffer[r]) \o <<e>>]
          /\ accepted' = [accepted EXCEPT ![r] = Append(@, e)]
      BY <1>6, <2>4 DEF Take, AfterReceive
    <3>2. e \in Events
      BY <2>4, ParkedCaller
    <3> HIDE DEF e
    <3>3. Append(handled[r] \o inHand[r] \o buffer[r], e)
            = handled[r] \o <<Head(buffer[r])>> \o (Tail(buffer[r]) \o <<e>>)
      <4>1. <<e>> \in Seq(Events)
        BY <3>2
      <4>a. Moved(handled[r], buffer[r], <<e>>)
        BY <2>1, <2>2, <4>1, HeadMoves
      <4>2. (handled[r] \o <<>> \o buffer[r]) \o <<e>>
              = handled[r] \o <<Head(buffer[r])>> \o (Tail(buffer[r]) \o <<e>>)
        BY <4>a, Zenon DEF Moved
      <4>3. handled[r] \o inHand[r] \o buffer[r] \in Seq(Events)
        BY <1>2
      <4>4. Append(handled[r] \o inHand[r] \o buffer[r], e)
              = (handled[r] \o inHand[r] \o buffer[r]) \o <<e>>
        BY <3>2, <4>3, AppendIsConcat, Zenon
      <4> QED
        BY <2>1, <4>2, <4>4
    <3> QED
      BY <2>1, <3>1, <3>3 DEF ExactlyOnceInOrder, TypeOK
  <2> QED
    BY <2>3, <2>4
<1>7. ASSUME NEW r \in Regs, Finish(r) PROVE ExactlyOnceInOrder'
  <2>1. /\ handled' = [handled EXCEPT ![r] = @ \o inHand[r]]
        /\ inHand' = [inHand EXCEPT ![r] = <<>>]
        /\ UNCHANGED <<accepted, buffer>>
    BY <1>7 DEF Finish
  <2>2. handled[r] \o inHand[r] \o buffer[r]
            = (handled[r] \o inHand[r]) \o <<>> \o buffer[r]
    BY <1>2
  <2> QED
    BY <2>1, <2>2 DEF ExactlyOnceInOrder, TypeOK
<1>8. ASSUME NEW r \in Regs, Register(r) \/ PassGate(r)
      PROVE  ExactlyOnceInOrder'
    BY <1>1, <1>8 DEF Register, MakeHandler, InstallHandler, PassGate
<1>9. ASSUME NEW c \in Callers, NEW cmd \in Commands, Lookup(c, cmd)
      PROVE  ExactlyOnceInOrder'
    BY <1>1, <1>9 DEF Lookup
<1>10. CASE OpenGate \/ UNCHANGED vars
    BY <1>1, <1>10 DEF OpenGate, vars
<1> QED
    BY <1>5, <1>6, <1>7, <1>8, <1>9, <1>10 DEF Next, Goroutine

\* A channel keeps its size, and its wait queue is empty while it has room.
LEMMA StepCapacity == TypeOK /\ CapacityRespected /\ [Next]_vars => CapacityRespected'
<1> SUFFICES ASSUME TypeOK, CapacityRespected, [Next]_vars
             PROVE  CapacityRespected'
    OBVIOUS
<1> USE DispatcherAssumption
<1>1. CASE UNCHANGED <<buffer, sendq>>
    BY <1>1 DEF CapacityRespected
<1>2. ASSUME NEW q \in Regs
      PROVE  buffer[q] \in Seq(Events) /\ Len(buffer[q]) \in Nat /\ Cap[q] \in Nat
    BY DEF TypeOK
<1>3. ASSUME NEW c \in Callers, Enqueue(c) PROVE CapacityRespected'
  <2> DEFINE r == call[c].reg
             e == call[c].ev
  <2>1. r \in Regs /\ e \in Events
    BY <1>3, BusyCall DEF Enqueue
  <2>2. /\ buffer' = [buffer EXCEPT ![r] = Append(@, e)]
        /\ sendq' = sendq
        /\ Len(buffer[r]) < Cap[r]
    BY <1>3 DEF Enqueue, HasRoom
  <2>3. Len(Append(buffer[r], e)) = Len(buffer[r]) + 1
    BY <1>2, <2>1
  <2>4. sendq[r] = <<>>
    BY <1>2, <2>1, <2>2 DEF CapacityRespected
  <2>5. /\ Len(buffer'[r]) = Len(buffer[r]) + 1
        /\ \A q \in Regs : q # r => buffer'[q] = buffer[q]
    BY <2>1, <2>2, <2>3 DEF TypeOK
  <2> HIDE DEF r, e
  <2>6. ASSUME NEW q \in Regs
        PROVE  Len(buffer'[q]) <= Cap[q] /\ (sendq'[q] # <<>> => Len(buffer'[q]) = Cap[q])
    <3>1. CASE q = r
      BY <1>2, <2>1, <2>2, <2>4, <2>5, <3>1
    <3>2. CASE q # r
      BY <2>2, <2>5, <3>2 DEF CapacityRespected
    <3> QED
      BY <3>1, <3>2
  <2> QED
    BY <2>6 DEF CapacityRespected
<1>4. ASSUME NEW c \in Callers, Park(c) PROVE CapacityRespected'
  <2> DEFINE r == call[c].reg
  <2>1. r \in Regs
    BY <1>4, BusyCall DEF Park
  <2>2. /\ sendq' = [sendq EXCEPT ![r] = Append(@, c)]
        /\ buffer' = buffer
        /\ ~(Len(buffer[r]) < Cap[r])
    BY <1>4 DEF Park, HasRoom
  <2>3. Len(buffer[r]) = Cap[r]
    BY <1>2, <2>1, <2>2 DEF CapacityRespected
  <2> QED
    BY <2>1, <2>2, <2>3 DEF CapacityRespected, TypeOK
<1>5. ASSUME NEW c \in Callers, CallStep(c) PROVE CapacityRespected'
    BY <1>1, <1>3, <1>4, <1>5 DEF CallStep, Drop, EnterSync, LeaveSync
<1>6. ASSUME NEW r \in Regs, Take(r) PROVE CapacityRespected'
  <2>1. buffer[r] # <<>> /\ Tail(buffer[r]) \in Seq(Events)
        /\ Len(Tail(buffer[r])) = Len(buffer[r]) - 1
    BY <1>2, <1>6 DEF Take
  <2>2. CASE sendq[r] = <<>>
    <3>1. /\ buffer' = [buffer EXCEPT ![r] = Tail(buffer[r]) \o <<>>]
          /\ sendq' = sendq
      BY <1>6, <2>2 DEF Take, AfterReceive
    <3>2. Len(Tail(buffer[r]) \o <<>>) = Len(buffer[r]) - 1
      BY <2>1
    <3> QED
      BY <1>2, <2>2, <3>1, <3>2 DEF CapacityRespected, TypeOK
  <2>3. CASE sendq[r] # <<>>
    <3> DEFINE e == call[Head(sendq[r])].ev
    <3>1. /\ buffer' = [buffer EXCEPT ![r] = Tail(buffer[r]) \o <<e>>]
          /\ sendq' = [sendq EXCEPT ![r] = Tail(@)]
      BY <1>6, <2>3 DEF Take, AfterReceive
    <3> HIDE DEF e
    <3>2. Len(Tail(buffer[r]) \o <<e>>) = Len(buffer[r])
      BY <1>2, <2>1
    <3>3. Len(buffer[r]) = Cap[r]
      BY <2>3 DEF CapacityRespected
    <3> QED
      BY <1>2, <3>1, <3>2, <3>3 DEF CapacityRespected, TypeOK
  <2> QED
    BY <2>2, <2>3
<1>7. ASSUME NEW r \in Regs, Register(r) \/ PassGate(r) \/ Finish(r)
      PROVE  CapacityRespected'
    BY <1>1, <1>7 DEF Register, MakeHandler, InstallHandler, PassGate, Finish
<1>8. ASSUME NEW c \in Callers, NEW cmd \in Commands, Lookup(c, cmd)
      PROVE  CapacityRespected'
    BY <1>1, <1>8 DEF Lookup
<1>9. CASE OpenGate \/ UNCHANGED vars
    BY <1>1, <1>9 DEF OpenGate, vars
<1> QED
    BY <1>5, <1>6, <1>7, <1>8, <1>9 DEF Next, Goroutine

\* No gated handler starts before the gate is open.
LEMMA StepNothing ==
    TypeOK /\ Parked /\ GateClosed /\ NothingBeforeGate /\ [Next]_vars
        => NothingBeforeGate'
<1> SUFFICES ASSUME TypeOK, Parked, GateClosed, NothingBeforeGate, [Next]_vars, ~gate'
             PROVE  /\ \A r \in GatedRegs : handled'[r] = <<>> /\ inHand'[r] = <<>>
                    /\ \A c \in Callers : call'[c].st = "handling" =>
                                              call'[c].reg \notin GatedRegs
    BY DEF NothingBeforeGate
<1> USE DispatcherAssumption
<1> DEFINE Quiet == \A r \in GatedRegs : handled'[r] = <<>> /\ inHand'[r] = <<>>
           Outside == \A c \in Callers : call'[c].st = "handling" =>
                                             call'[c].reg \notin GatedRegs
<1>1. gate' = gate \/ OpenGate
    BY DEF Next, Register, MakeHandler, InstallHandler, Lookup, CallStep,
           Enqueue, Drop, Park, EnterSync, LeaveSync, Goroutine, PassGate,
           Take, Finish, vars
<1>2. ~gate
    BY <1>1 DEF OpenGate
<1>3. Quiet
  <2>1. CASE UNCHANGED <<handled, inHand>>
    BY <1>2, <2>1 DEF NothingBeforeGate
  <2>2. ASSUME NEW c \in Callers, CallStep(c) PROVE Quiet
    <3>1. CASE LeaveSync(c)
      BY <1>2, <3>1 DEF LeaveSync, NothingBeforeGate, TypeOK
    <3> QED
      BY <2>1, <2>2, <3>1 DEF CallStep, Enqueue, Drop, Park, EnterSync
  <2>3. ASSUME NEW r \in Regs, Goroutine(r) PROVE Quiet
    <3>1. CASE Take(r)
      <4>1. r \notin GatedRegs
        BY <1>2, <3>1 DEF Take, GateClosed
      <4> QED
        BY <1>2, <3>1, <4>1 DEF Take, NothingBeforeGate, TypeOK
    <3>2. CASE Finish(r)
      <4>1. r \notin GatedRegs
        BY <1>2, <3>2 DEF Finish, NothingBeforeGate
      <4> QED
        BY <1>2, <3>2, <4>1 DEF Finish, NothingBeforeGate, TypeOK
    <3> QED
      BY <2>1, <2>3, <3>1, <3>2 DEF Goroutine, PassGate
  <2>4. ASSUME NEW r \in Regs, Register(r) PROVE Quiet
    BY <2>1, <2>4 DEF Register, MakeHandler, InstallHandler
  <2>5. ASSUME NEW c \in Callers, NEW cmd \in Commands, Lookup(c, cmd)
        PROVE  Quiet
    BY <2>1, <2>5 DEF Lookup
  <2>6. CASE OpenGate \/ UNCHANGED vars
    BY <2>1, <2>6 DEF OpenGate, vars
  <2> QED
    BY <2>2, <2>3, <2>4, <2>5, <2>6 DEF Next
<1>4. Outside
  <2>1. ASSUME NEW c \in Callers, NEW x, call' = [call EXCEPT ![c] = x],
               x.st = "handling" => x.reg \notin GatedRegs
        PROVE  Outside
    BY <1>2, <2>1 DEF NothingBeforeGate, TypeOK
  <2>2. CASE UNCHANGED call
    BY <1>2, <2>2 DEF NothingBeforeGate
  <2>3. ASSUME NEW c \in Callers, call' = [call EXCEPT ![c] = Idle]
        PROVE  Outside
    BY <2>1, <2>3 DEF Idle
  <2>4. ASSUME NEW c \in Callers, NEW cmd \in Commands, Lookup(c, cmd)
        PROVE  Outside
    BY <2>1, <2>2, <2>4 DEF Lookup, Busy
  <2>5. ASSUME NEW c \in Callers, CallStep(c) PROVE Outside
    <3>1. CASE Enqueue(c) \/ Drop(c) \/ LeaveSync(c)
      BY <2>3, <3>1 DEF Enqueue, Drop, LeaveSync
    <3>2. CASE Park(c) \/ EnterSync(c)
      <4> DEFINE r == call[c].reg
                 e == call[c].ev
      <4>1. call[c] = Busy(call[c].st, r, e)
        BY <3>2, BusyCall DEF Park, EnterSync, Busy
      <4>2. CASE Park(c)
        <5>1. [call[c] EXCEPT !.st = "sending"] = Busy("sending", r, e)
          BY <4>1 DEF Busy
        <5>2. call' = [call EXCEPT ![c] = Busy("sending", r, e)]
          BY <4>2, <5>1 DEF Park
        <5> QED
          BY <2>1, <5>2 DEF Busy
      <4>3. CASE EnterSync(c)
        <5>1. [call[c] EXCEPT !.st = "handling"] = Busy("handling", r, e)
          BY <4>1 DEF Busy
        <5>2. call' = [call EXCEPT ![c] = Busy("handling", r, e)]
          BY <4>3, <5>1 DEF EnterSync
        <5>3. r \notin GatedRegs
          BY <1>2, <4>3 DEF EnterSync, GateOpenFor
        <5> QED
          BY <2>1, <5>2, <5>3 DEF Busy
      <4> QED
        BY <3>2, <4>2, <4>3
    <3> QED
      BY <2>5, <3>1, <3>2 DEF CallStep
  <2>6. ASSUME NEW r \in Regs, Register(r) \/ PassGate(r) PROVE Outside
    BY <2>2, <2>6 DEF Register, MakeHandler, InstallHandler, PassGate
  <2>7. ASSUME NEW r \in Regs, Take(r) PROVE Outside
    <3>1. CASE sendq[r] = <<>>
      BY <2>2, <2>7, <3>1 DEF Take
    <3>2. CASE sendq[r] # <<>>
      BY <2>3, <2>7, <3>2, ParkedCaller DEF Take
    <3> QED
      BY <3>1, <3>2
  <2>8. ASSUME NEW r \in Regs, Finish(r) PROVE Outside
    BY <2>2, <2>8 DEF Finish
  <2>9. CASE OpenGate \/ UNCHANGED vars
    BY <2>2, <2>9 DEF OpenGate, vars
  <2> QED
    BY <2>4, <2>5, <2>6, <2>7, <2>8, <2>9 DEF Next, Goroutine
<1> QED
    BY <1>3, <1>4

\* Every step keeps the safety properties.
LEMMA StepSafe == TInv /\ Safe /\ [Next]_vars => Safe'
    BY StepSyncCalls, StepGateClosed, StepDelivery, StepCapacity, StepNothing
    DEF TInv, Safe

\* The safety properties hold in every reachable state.
LEMMA AlwaysSafe == Spec => [](TInv /\ Safe)
    BY InitTInv, StepTInv, InitSafe, StepSafe, PTL DEF Spec

\* What is put in a channel is handled exactly once and in the order of the
\* channel (withBuffer).
THEOREM DeliveryIsExactlyOnce == Spec => []ExactlyOnceInOrder
    BY AlwaysSafe, PTL DEF Safe

\* No channel ever holds more than its size, and nobody waits for a channel
\* that has room (Buffered, Blocking).
THEOREM CapacityIsRespected == Spec => []CapacityRespected
    BY AlwaysSafe, PTL DEF Safe

\* No gated handler starts before close(storageReady) (Gated).
THEOREM GateIsRespected == Spec => []NothingBeforeGate
    BY AlwaysSafe, PTL DEF Safe

-----------------------------------------------------------------------------
(* The order of the calls, and the refinement of OrderedDelivery.  Both rest *)
(* on every event being newer than all events of its caller that were taken  *)
(* before it.                                                                *)

\* Only a buffered registration has an event in hand.
InHandBuffered == \A r \in Regs : inHand[r] # <<>> => IsBuffered(r)

\* A busy caller holds the event of its last call.
HoldsLast ==
    \A c \in Callers : call[c].st # "idle" => call[c].ev = <<c, issued[c]>>

\* The events a registration has taken charge of, in order.
Log(r) == IF IsBuffered(r) THEN accepted[r] ELSE handled[r]

\* The first number of caller c that no registration can have taken yet.
Pending(c) == IF call[c].st = "idle" THEN issued[c] + 1 ELSE issued[c]

LogsPast ==
    \A r \in Regs : \A i \in 1..Len(Log(r)) :
        Log(r)[i][2] < Pending(Log(r)[i][1])

LogsOrdered ==
    \A r \in Regs : \A i, j \in 1..Len(Log(r)) :
        (i < j /\ Log(r)[i][1] = Log(r)[j][1]) => Log(r)[i][2] < Log(r)[j][2]

Order == InHandBuffered /\ HoldsLast /\ LogsPast /\ LogsOrdered

\* Nothing has been taken at the start.
LEMMA InitOrder == Init => Order
<1> SUFFICES ASSUME Init PROVE Order
    OBVIOUS
<1>1. \A r \in Regs : Log(r) = <<>>
    BY DEF Init, Log
<1>2. LogsPast /\ LogsOrdered
    BY <1>1 DEF LogsPast, LogsOrdered
<1>3. InHandBuffered /\ HoldsLast
    BY DEF Init, InHandBuffered, HoldsLast, Idle
<1> QED
    BY <1>2, <1>3 DEF Order

\* The loop of withBuffer receives only from a channel that exists.
LEMMA StepInHandBuffered ==
    TypeOK /\ CapacityRespected /\ InHandBuffered /\ [Next]_vars => InHandBuffered'
<1> SUFFICES ASSUME TypeOK, CapacityRespected, InHandBuffered, [Next]_vars
             PROVE  InHandBuffered'
    OBVIOUS
<1> USE DispatcherAssumption DEF IsBuffered
<1>1. CASE UNCHANGED inHand
    BY <1>1 DEF InHandBuffered
<1>2. ASSUME NEW r \in Regs, Take(r) PROVE InHandBuffered'
  <2>1. buffer[r] \in Seq(Events) /\ buffer[r] # <<>> /\ Cap[r] \in Nat
    BY <1>2 DEF Take, TypeOK
  <2>2. Len(buffer[r]) > 0 /\ Len(buffer[r]) \in Nat
    BY <2>1
  <2>3. Cap[r] > 0
    BY <2>1, <2>2 DEF CapacityRespected
  <2> QED
    BY <1>2, <2>3 DEF Take, InHandBuffered, TypeOK
<1>3. ASSUME NEW r \in Regs, Finish(r) PROVE InHandBuffered'
    BY <1>3 DEF Finish, InHandBuffered, TypeOK
<1> QED
    BY <1>1, <1>2, <1>3
    DEF Next, Register, MakeHandler, InstallHandler, Lookup, CallStep, Enqueue,
        Drop, Park, EnterSync, LeaveSync, Goroutine, PassGate, OpenGate, vars

\* A step of the dispatcher changes one call at most, and takes charge of at
\* most one event: that of a caller, which is free again (Dispatch, withBuffer).
Quiet(c) ==
    /\ issued' = issued
    /\ call'[c].st # "idle" => call[c].st # "idle" /\ call'[c].ev = call[c].ev

KeepsLogs == \A r \in Regs : Log(r)' = Log(r)

Takes(c, r) ==
    /\ call[c].st # "idle"
    /\ call' = [call EXCEPT ![c] = Idle]
    /\ issued' = issued
    /\ Log(r)' = Append(Log(r), call[c].ev)
    /\ \A q \in Regs \ {r} : Log(q)' = Log(q)

\* A step leaves the logs alone, looks a command up, or adds one event to one log.
LEMMA StepShape ==
    ASSUME TypeOK, Parked, SyncCalls, InHandBuffered, [Next]_vars
    PROVE  \/ KeepsLogs /\ \A c \in Callers : Quiet(c)
           \/ KeepsLogs /\ \E c \in Callers, cmd \in Commands : Lookup(c, cmd)
           \/ \E c \in Callers, r \in Regs : Takes(c, r)
<1> DEFINE Same == KeepsLogs /\ \A c \in Callers : Quiet(c)
           TakesOne == \E c \in Callers, r \in Regs : Takes(c, r)
<1>1. UNCHANGED <<accepted, handled>> => KeepsLogs
    BY DEF KeepsLogs, Log
<1>2. UNCHANGED <<accepted, handled, call, issued>> => Same
    BY <1>1 DEF Quiet
<1>3. ASSUME NEW c \in Callers, NEW cmd \in Commands, Lookup(c, cmd)
      PROVE  KeepsLogs
    BY <1>1, <1>3 DEF Lookup
<1>4. ASSUME NEW c \in Callers, Enqueue(c) PROVE TakesOne
  <2>1. PICK r \in Regs : call[c].reg = r /\ IsBuffered(r)
    BY <1>4, BusyCall DEF Enqueue
  <2>2. Takes(c, r)
    BY <1>4, <2>1 DEF Enqueue, Takes, Log, TypeOK
  <2> QED
    BY <2>1, <2>2
<1>5. ASSUME NEW c \in Callers, LeaveSync(c) PROVE TakesOne
  <2>1. PICK r \in Regs : call[c].reg = r /\ ~IsBuffered(r)
    BY <1>5, BusyCall DEF LeaveSync, SyncCalls
  <2>2. Takes(c, r)
    BY <1>5, <2>1 DEF LeaveSync, Takes, Log, TypeOK
  <2> QED
    BY <2>1, <2>2
<1>6. ASSUME NEW c \in Callers, Drop(c) \/ Park(c) \/ EnterSync(c) PROVE Same
  <2>1. call[c].st # "idle" /\ UNCHANGED <<accepted, handled, issued>>
    BY <1>6 DEF Drop, Park, EnterSync
  <2>2. call[c] = Busy(call[c].st, call[c].reg, call[c].ev)
    BY <2>1, BusyCall DEF Busy
  <2>3. call'[c] = Idle \/ call'[c].ev = call[c].ev
    BY <1>6, <2>2 DEF Drop, Park, EnterSync, Busy, TypeOK
  <2>4. \A d \in Callers \ {c} : call'[d] = call[d]
    BY <1>6 DEF Drop, Park, EnterSync, TypeOK
  <2> QED
    BY <1>1, <2>1, <2>3, <2>4 DEF Quiet, Idle
<1>7. ASSUME NEW r \in Regs, Take(r) PROVE Same \/ TakesOne
  <2>1. CASE sendq[r] = <<>>
    BY <1>2, <1>7, <2>1 DEF Take
  <2>2. CASE sendq[r] # <<>>
    <3>1. PICK c \in Callers : /\ c = Head(sendq[r])
                              /\ call[c].st = "sending" /\ call[c].reg = r
      BY <2>2, ParkedCaller
    <3>2. IsBuffered(r)
      BY <3>1 DEF SyncCalls
    <3>3. /\ accepted' = [accepted EXCEPT ![r] = Append(@, call[c].ev)]
          /\ call' = [call EXCEPT ![c] = Idle]
          /\ UNCHANGED <<handled, issued>>
      BY <1>7, <2>2, <3>1 DEF Take
    <3>4. Takes(c, r)
      BY <3>1, <3>2, <3>3 DEF Takes, Log, TypeOK
    <3> QED
      BY <3>1, <3>4
  <2> QED
    BY <2>1, <2>2
<1>8. ASSUME NEW r \in Regs, Finish(r) PROVE Same
  <2>1. IsBuffered(r)
    BY <1>8 DEF Finish, InHandBuffered
  <2>2. KeepsLogs
    BY <1>8, <2>1 DEF Finish, KeepsLogs, Log, IsBuffered, TypeOK
  <2> QED
    BY <1>8, <2>2 DEF Finish, Quiet
<1> QED
    BY <1>2, <1>3, <1>4, <1>5, <1>6, <1>7, <1>8
    DEF Next, Register, MakeHandler, InstallHandler, CallStep, Goroutine,
        PassGate, OpenGate, vars

\* Every step keeps the order of the calls.
LEMMA StepOrder ==
    TInv /\ Safe /\ Order /\ [Next]_vars => Order'
<1> SUFFICES ASSUME TInv, Safe, Order, [Next]_vars PROVE Order'
    OBVIOUS
<1> USE DispatcherAssumption
<1>1. /\ TypeOK /\ Parked /\ TypeOK' /\ SyncCalls
      /\ InHandBuffered /\ HoldsLast /\ LogsPast /\ LogsOrdered
    BY StepTInv DEF TInv, Safe, Order
<1>2. InHandBuffered'
    BY <1>1, StepInHandBuffered DEF Safe
<1>3. \A r \in Regs : Log(r) \in Seq(Events) /\ Log(r)' \in Seq(Events)
    BY <1>1 DEF Log, TypeOK
<1>4. \A c \in Callers : issued[c] \in Nat
    BY <1>1 DEF TypeOK
<1>5. \A e \in Events : e[1] \in Callers /\ e[2] \in Nat
    BY DEF Events, Numbers
<1>6. \A r \in Regs : \A i \in 1..Len(Log(r)) :
          Log(r)[i] \in Events /\ Log(r)[i][1] \in Callers /\ Log(r)[i][2] \in Nat
    BY <1>3, <1>5
<1>7. ASSUME NEW c \in Callers, Quiet(c) PROVE Pending(c)' >= Pending(c)
    BY <1>4, <1>7 DEF Quiet, Pending
<1>8. ASSUME KeepsLogs, \A c \in Callers : Pending(c)' >= Pending(c)
      PROVE  LogsPast' /\ LogsOrdered'
  <2>1. \A c \in Callers : Pending(c) \in Nat /\ Pending(c)' \in Nat
    BY <1>1, <1>4 DEF Pending, TypeOK
  <2>2. ASSUME NEW r \in Regs, NEW i \in 1..Len(Log(r)'), NEW e, e = Log(r)'[i]
        PROVE  e[2] < Pending(e[1])'
    <3>1. i \in 1..Len(Log(r)) /\ e = Log(r)[i]
      BY <1>8, <2>2 DEF KeepsLogs
    <3>2. e[2] < Pending(e[1]) /\ e[1] \in Callers /\ e[2] \in Nat
      BY <1>1, <1>6, <3>1 DEF LogsPast
    <3> QED
      BY <1>8, <2>1, <3>2
  <2> QED
    BY <1>1, <1>8, <2>2 DEF KeepsLogs, LogsPast, LogsOrdered
<1>9. ASSUME KeepsLogs, \A c \in Callers : Quiet(c) PROVE Order'
  <2>1. LogsPast' /\ LogsOrdered'
    BY <1>7, <1>8, <1>9
  <2>2. HoldsLast'
    BY <1>1, <1>9 DEF Quiet, HoldsLast
  <2> QED
    BY <1>2, <2>1, <2>2 DEF Order
<1>10. ASSUME KeepsLogs, NEW c \in Callers, NEW cmd \in Commands, Lookup(c, cmd)
       PROVE  Order'
  <2>1. \A d \in Callers : Pending(d)' >= Pending(d)
    BY <1>1, <1>4, <1>10 DEF Lookup, Pending, Idle, Busy, TypeOK
  <2>2. HoldsLast'
    BY <1>1, <1>10 DEF Lookup, HoldsLast, Idle, Busy, TypeOK
  <2> QED
    BY <1>2, <1>8, <1>10, <2>1, <2>2 DEF Order
<1>11. ASSUME NEW c \in Callers, NEW r \in Regs, Takes(c, r) PROVE Order'
  <2>1. PICK e \in Events : e = call[c].ev /\ e = <<c, issued[c]>>
    BY <1>1, <1>11, BusyCall DEF Takes, HoldsLast
  <2>2. \A d \in Callers : Pending(d)' = IF d = c THEN issued[c] + 1 ELSE Pending(d)
    BY <1>1, <1>11 DEF Takes, Pending, Idle, TypeOK
  <2>3. Pending(c) = issued[c]
    BY <1>11 DEF Takes, Pending
  <2>4. HoldsLast'
    BY <1>1, <1>11 DEF Takes, HoldsLast, Idle, TypeOK
  <2>5. ASSUME NEW q \in Regs, NEW i \in 1..Len(Log(q)')
        PROVE  \/ i \in 1..Len(Log(q)) /\ Log(q)'[i] = Log(q)[i]
               \/ q = r /\ i = Len(Log(q)) + 1 /\ Log(q)'[i] = e
    BY <1>3, <1>11, <2>1 DEF Takes
  <2>6. LogsPast'
    <3>1. ASSUME NEW q \in Regs, NEW i \in 1..Len(Log(q)'), NEW x, x = Log(q)'[i]
          PROVE  x[2] < Pending(x[1])'
      <4>1. CASE x = e
        BY <1>4, <2>1, <2>2, <4>1
      <4>2. CASE x # e
        <5>1. x[2] < Pending(x[1]) /\ x[1] \in Callers /\ x[2] \in Nat
          BY <1>1, <1>6, <2>5, <3>1, <4>2 DEF LogsPast
        <5> QED
          BY <1>4, <2>2, <2>3, <5>1
      <4> QED
        BY <4>1, <4>2
    <3> QED
      BY <3>1 DEF LogsPast
  <2>7. LogsOrdered'
    <3>1. ASSUME NEW q \in Regs, NEW i \in 1..Len(Log(q)'), NEW j \in 1..Len(Log(q)'),
                 i < j, Log(q)'[i][1] = Log(q)'[j][1]
          PROVE  Log(q)'[i][2] < Log(q)'[j][2]
      <4>1. i \in 1..Len(Log(q)) /\ Log(q)'[i] = Log(q)[i]
        <5>1. Len(Log(q)) \in Nat
          BY <1>3
        <5> QED
          BY <2>5, <3>1, <5>1
      <4>2. CASE j \in 1..Len(Log(q)) /\ Log(q)'[j] = Log(q)[j]
        BY <1>1, <3>1, <4>1, <4>2 DEF LogsOrdered
      <4>3. CASE Log(q)'[j] = e
        <5>1. Log(q)[i][2] < Pending(Log(q)[i][1])
          BY <1>1, <4>1 DEF LogsPast
        <5> QED
          BY <2>1, <2>3, <3>1, <4>1, <4>3, <5>1
      <4> QED
        BY <2>5, <4>2, <4>3
    <3> QED
      BY <3>1 DEF LogsOrdered
  <2> QED
    BY <1>2, <2>4, <2>6, <2>7 DEF Order
<1> QED
    BY <1>1, <1>9, <1>10, <1>11, StepShape

\* The order of the calls is kept in every reachable state.
LEMMA AlwaysOrdered == Spec => [](TInv /\ Safe /\ Order)
    BY InitTInv, StepTInv, InitSafe, StepSafe, InitOrder, StepOrder, PTL DEF Spec

\* What a registration has handled is the beginning of what it has taken charge
\* of: its goroutine handles what its channel accepted, in order (withBuffer).
LEMMA HandledIsTaken ==
    ASSUME TypeOK, ExactlyOnceInOrder, NEW r \in Regs, NEW i \in DOMAIN handled[r]
    PROVE  i \in 1..Len(Log(r)) /\ Log(r)[i] = handled[r][i]
<1>1. /\ handled[r] \in Seq(Events) /\ inHand[r] \in Seq(Events)
      /\ buffer[r] \in Seq(Events) /\ accepted[r] \in Seq(Events)
    BY InHandSeq DEF TypeOK
<1>2. CASE IsBuffered(r)
  <2> DEFINE rest == inHand[r] \o buffer[r]
  <2>1. rest \in Seq(Events) /\ accepted[r] = handled[r] \o rest
    <3>1. accepted[r] = (handled[r] \o inHand[r]) \o buffer[r]
      BY <1>2 DEF ExactlyOnceInOrder
    <3>2. (handled[r] \o inHand[r]) \o buffer[r]
            = handled[r] \o (inHand[r] \o buffer[r])
      <4> HIDE DEF rest
      <4> QED
        BY <1>1, ConcatEvents
    <3> QED
      BY <1>1, <3>1, <3>2
  <2> HIDE DEF rest
  <2> QED
    BY <1>1, <1>2, <2>1 DEF Log
<1>3. CASE ~IsBuffered(r)
  BY <1>1, <1>3 DEF Log
<1> QED
  BY <1>2, <1>3

\* The events of one caller are handled by a registration in the order of the
\* calls: what a goroutine has handled is the beginning of what its channel
\* accepted (withBuffer), and a caller handles its own events one by one.
THEOREM CallOrderIsKept == Spec => []CallOrder
<1>1. TInv /\ Safe /\ Order => CallOrder
    BY HandledIsTaken DEF TInv, Safe, CallOrder, Order, LogsOrdered
<1> QED
    BY <1>1, AlwaysOrdered, PTL

-----------------------------------------------------------------------------
\* The buffered registrations implement OrderedDelivery: a send that succeeds
\* takes an item no stream has taken before, and the end of safeHandle handles
\* the next item of its stream, after the gate.
THEOREM Refinement == Spec => ImplementsOrderedDelivery
<1>1. Init => Delivery!OInit
    BY DEF Init, Delivery!OInit, BufferedRegs
<1>2. ASSUME TInv, Safe, Order, [Next]_vars
      PROVE  [Delivery!ONext]_(Delivery!ovars)
  <2> DEFINE Same == UNCHANGED <<accepted, handled, gate>>
  <2>1. Same => UNCHANGED Delivery!ovars
    BY DEF Delivery!ovars
  <2>2. ASSUME NEW r \in BufferedRegs, NEW e \in Events,
               \E c \in Callers : e = <<c, issued[c]>> /\ call[c].st # "idle",
               accepted' = [accepted EXCEPT ![r] = Append(@, e)],
               UNCHANGED <<handled, gate>>
        PROVE  Delivery!TakeItem(r, e)
    <3>1. ASSUME NEW t \in BufferedRegs
          PROVE  e \notin Delivery!Range(accepted[t])
      <4>1. PICK c \in Callers : e = <<c, issued[c]>> /\ call[c].st # "idle"
        BY <2>2
      <4>2. /\ t \in Regs /\ Log(t) = accepted[t] /\ accepted[t] \in Seq(Events)
            /\ issued[c] \in Nat
        BY <1>2, DispatcherAssumption DEF BufferedRegs, Log, TInv, TypeOK
      <4>3. ASSUME NEW i \in DOMAIN accepted[t], accepted[t][i] = e PROVE FALSE
        <5>1. e[2] < Pending(e[1])
          BY <1>2, <4>2, <4>3 DEF Order, LogsPast
        <5> QED
          BY <4>1, <4>2, <5>1 DEF Pending
      <4> QED
        BY <4>3 DEF Delivery!Range
    <3>2. [q \in BufferedRegs |-> accepted[q]]'
            = [[q \in BufferedRegs |-> accepted[q]] EXCEPT ![r] = Append(@, e)]
      BY <1>2, <2>2 DEF BufferedRegs, TInv, TypeOK
    <3> QED
      BY <2>2, <3>1, <3>2 DEF Delivery!TakeItem
  <2>3. ASSUME NEW c \in Callers, CallStep(c) PROVE Delivery!ONext \/ Same
               \/ UNCHANGED Delivery!ovars
    <3>1. CASE Enqueue(c)
      <4>1. PICK r \in Regs, e \in Events : r = call[c].reg /\ e = call[c].ev
        BY <1>2, <3>1, BusyCall DEF Enqueue, TInv
      <4>2. r \in BufferedRegs /\ e = <<c, issued[c]>>
        BY <1>2, <3>1, <4>1 DEF Enqueue, BufferedRegs, Order, HoldsLast
      <4>3. Delivery!TakeItem(r, e)
        BY <2>2, <3>1, <4>1, <4>2 DEF Enqueue
      <4> QED
        BY <4>1, <4>2, <4>3 DEF Delivery!ONext
    <3>2. CASE LeaveSync(c)
      <4>1. PICK r \in Regs : r = call[c].reg /\ ~IsBuffered(r)
        BY <1>2, <3>2, BusyCall DEF LeaveSync, TInv, Safe, SyncCalls
      <4>2. [q \in BufferedRegs |-> handled[q]]' = [q \in BufferedRegs |-> handled[q]]
        BY <1>2, <3>2, <4>1 DEF LeaveSync, BufferedRegs, TInv, TypeOK
      <4> QED
        BY <3>2, <4>2 DEF LeaveSync, Delivery!ovars
    <3> QED
      BY <2>3, <3>1, <3>2 DEF CallStep, Drop, Park, EnterSync
  <2>4. ASSUME NEW r \in Regs, Take(r) PROVE Delivery!ONext \/ Same
    <3>1. CASE sendq[r] = <<>>
      BY <2>4, <3>1 DEF Take
    <3>2. CASE sendq[r] # <<>>
      <4>1. PICK c \in Callers, e \in Events :
                /\ c = Head(sendq[r]) /\ e = call[c].ev
                /\ call[c].st = "sending" /\ call[c].reg = r
        BY <1>2, <3>2, ParkedCaller DEF TInv
      <4>2. r \in BufferedRegs /\ e = <<c, issued[c]>>
        BY <1>2, <4>1 DEF BufferedRegs, Order, HoldsLast, Safe, SyncCalls
      <4>3. /\ accepted' = [accepted EXCEPT ![r] = Append(@, e)]
            /\ UNCHANGED <<handled, gate>>
        BY <2>4, <3>2, <4>1 DEF Take
      <4>4. Delivery!TakeItem(r, e)
        BY <2>2, <4>1, <4>2, <4>3
      <4> QED
        BY <4>1, <4>2, <4>4 DEF Delivery!ONext
    <3> QED
      BY <3>1, <3>2
  <2>5. ASSUME NEW r \in Regs, Finish(r) PROVE Delivery!ONext
    <3>1. /\ r \in BufferedRegs
          /\ r \in GatedRegs => gate
      BY <1>2, <2>5 DEF Finish, BufferedRegs, Order, InHandBuffered, Safe,
                        NothingBeforeGate
    <3>2. PICK e \in Events : inHand[r] = <<e>>
      BY <1>2, <2>5, InHandSeq DEF Finish, TInv
    <3>3. /\ handled[r] \in Seq(Events) /\ buffer[r] \in Seq(Events)
          /\ accepted[r] = handled[r] \o <<e>> \o buffer[r]
      BY <1>2, <3>1, <3>2 DEF TInv, TypeOK, Safe, ExactlyOnceInOrder, BufferedRegs
    <3>4. /\ Len(handled[r]) < Len(accepted[r])
          /\ accepted[r][Len(handled[r]) + 1] = e
          /\ handled[r] \o <<e>> = Append(handled[r], e)
      <4>1. e \in Events /\ handled[r] \in Seq(Events) /\ buffer[r] \in Seq(Events)
        BY <3>2, <3>3
      <4>2. /\ Len(handled[r]) < Len(handled[r] \o <<e>> \o buffer[r])
            /\ (handled[r] \o <<e>> \o buffer[r])[Len(handled[r]) + 1] = e
            /\ handled[r] \o <<e>> = Append(handled[r], e)
        BY <4>1, MiddleEvent, Zenon
      <4> QED
        BY <3>3, <4>2
    <3>5. [q \in BufferedRegs |-> handled[q]]'
            = [[q \in BufferedRegs |-> handled[q]]
                  EXCEPT ![r] = Append(@, accepted[r][Len(@) + 1])]
      BY <1>2, <2>5, <3>1, <3>2, <3>4 DEF Finish, BufferedRegs, TInv, TypeOK
    <3>6. Delivery!Handle(r)
      BY <2>5, <3>1, <3>4, <3>5 DEF Finish, Delivery!Handle
    <3> QED
      BY <3>1, <3>6 DEF Delivery!ONext
  <2>6. CASE OpenGate
    BY <2>6 DEF OpenGate, Delivery!ONext, Delivery!Open
  <2>7. ASSUME NEW r \in Regs, Register(r) \/ PassGate(r) PROVE Same
    BY <2>7 DEF Register, MakeHandler, InstallHandler, PassGate
  <2>8. ASSUME NEW c \in Callers, NEW cmd \in Commands, Lookup(c, cmd)
        PROVE  Same
    BY <2>8 DEF Lookup
  <2> QED
    BY <1>2, <2>1, <2>3, <2>4, <2>5, <2>6, <2>7, <2>8 DEF Next, Goroutine, vars
<1> QED
    BY <1>1, <1>2, AlwaysOrdered, PTL DEF Spec, ImplementsOrderedDelivery,
       Delivery!OSpec

-----------------------------------------------------------------------------
(* The fates of the calls.  LogsPast and the refusals are about events of     *)
(* calls that have ended; Fates says that each of those has ended in one way. *)

\* Registration r has taken charge of event e.
Took(r, e) == \E i \in 1..Len(Log(r)) : Log(r)[i] = e

\* Refusals answer calls that have been made, each for one reason.
Refusals ==
    /\ \A e \in dropped \union unknown : e[2] < Pending(e[1])
    /\ \A e \in dropped : e \notin unknown

\* No event is taken and refused, or taken by two registrations.
TakenOnce ==
    \A r \in Regs, e \in Events : Took(r, e) =>
        /\ e \notin dropped \union unknown
        /\ \A q \in Regs : Took(q, e) => q = r

\* Every call that has ended was taken or refused.
Settled ==
    \A e \in Events : e[2] < Pending(e[1]) =>
        e \in dropped \union unknown \/ \E r \in Regs : Took(r, e)

\* Only channels accept events.
AcceptedBuffered == \A r \in Regs : ~IsBuffered(r) => accepted[r] = <<>>

Fates == Refusals /\ TakenOnce /\ Settled /\ AcceptedBuffered

\* Nothing has been called at the start.
LEMMA InitFates == Init => Fates
<1> SUFFICES ASSUME Init PROVE Fates
    OBVIOUS
<1>1. \A r \in Regs, e \in Events : ~Took(r, e)
    BY DEF Init, Took, Log
<1>2. \A e \in Events : ~(e[2] < Pending(e[1]))
    BY DEF Init, Events, Numbers, Pending, Idle
<1> QED
    BY <1>1, <1>2 DEF Init, Fates, Refusals, TakenOnce, Settled, AcceptedBuffered

\* A step leaves all fates open or decides that of one event, the one its
\* caller holds or has just been refused (Dispatch, withBuffer).
Undecided ==
    /\ KeepsLogs
    /\ \A c \in Callers : Pending(c)' = Pending(c)
    /\ UNCHANGED <<dropped, unknown>>

Decides(c, e) ==
    /\ e = <<c, Pending(c)>>
    /\ \A d \in Callers : Pending(d)' = IF d = c THEN Pending(c) + 1 ELSE Pending(d)
    /\ \/ /\ \E r \in Regs : /\ Log(r)' = Append(Log(r), e)
                             /\ \A q \in Regs \ {r} : Log(q)' = Log(q)
          /\ UNCHANGED <<dropped, unknown>>
       \/ KeepsLogs /\ dropped' = dropped \union {e} /\ UNCHANGED unknown
       \/ KeepsLogs /\ unknown' = unknown \union {e} /\ UNCHANGED dropped

\* A step decides the fate of no event or of one.
LEMMA FateShape ==
    ASSUME TInv, Safe, Order, [Next]_vars
    PROVE  Undecided \/ \E c \in Callers, e \in Events : Decides(c, e)
<1> DEFINE DecidesOne == \E c \in Callers, e \in Events : Decides(c, e)
<1> USE DispatcherAssumption
<1>1. TypeOK /\ Parked /\ SyncCalls /\ InHandBuffered /\ HoldsLast
    BY DEF TInv, Safe, Order
<1>2. UNCHANGED <<accepted, handled>> => KeepsLogs
    BY DEF KeepsLogs, Log
<1>3. UNCHANGED <<accepted, handled, call, issued, dropped, unknown>> => Undecided
    BY <1>2 DEF Undecided, Pending
<1>4. \A c \in Callers : issued[c] \in Nat
    BY <1>1 DEF TypeOK
<1>5. ASSUME NEW c \in Callers, call[c].st # "idle",
             call' = [call EXCEPT ![c] = Idle], UNCHANGED issued
      PROVE  /\ call[c].ev \in Events /\ call[c].ev = <<c, Pending(c)>>
             /\ \A d \in Callers :
                    Pending(d)' = IF d = c THEN Pending(c) + 1 ELSE Pending(d)
    BY <1>1, <1>4, <1>5, BusyCall DEF HoldsLast, Pending, Idle, TypeOK
<1>6. ASSUME NEW c \in Callers, NEW r \in Regs, Takes(c, r), UNCHANGED <<dropped, unknown>>
      PROVE  DecidesOne
    BY <1>5, <1>6 DEF Takes, Decides
<1>7. ASSUME NEW c \in Callers, NEW cmd \in Commands, Lookup(c, cmd)
      PROVE  Undecided \/ DecidesOne
  <2> DEFINE e == <<c, issued[c] + 1>>
  <2>1. e \in Events /\ Pending(c) = issued[c] + 1
    BY <1>1, <1>7 DEF Lookup, Events, Numbers, Pending, Idle, TypeOK
  <2>2. CASE handlers[cmd] = NoReg
    <3>1. \A d \in Callers : Pending(d)' = IF d = c THEN Pending(c) + 1 ELSE Pending(d)
      BY <1>1, <1>4, <1>7, <2>1, <2>2 DEF Lookup, Pending, Idle, TypeOK
    <3>2. Decides(c, e)
      BY <1>2, <1>7, <2>1, <2>2, <3>1 DEF Lookup, Decides
    <3> QED
      BY <2>1, <3>2
  <2>3. CASE handlers[cmd] # NoReg
    <3>1. \A d \in Callers : Pending(d)' = Pending(d)
      BY <1>1, <1>4, <1>7, <2>1, <2>3 DEF Lookup, Pending, Busy, Idle, TypeOK
    <3> QED
      BY <1>2, <1>7, <2>3, <3>1 DEF Lookup, Undecided
  <2> QED
    BY <2>2, <2>3
<1>8. ASSUME NEW c \in Callers, Enqueue(c) PROVE DecidesOne
  <2>1. PICK r \in Regs : call[c].reg = r /\ IsBuffered(r)
    BY <1>1, <1>8, BusyCall DEF Enqueue
  <2>2. Takes(c, r)
    BY <1>1, <1>8, <2>1 DEF Enqueue, Takes, Log, TypeOK
  <2> QED
    BY <1>6, <1>8, <2>2 DEF Enqueue
<1>9. ASSUME NEW c \in Callers, LeaveSync(c) PROVE DecidesOne
  <2>1. PICK r \in Regs : call[c].reg = r /\ ~IsBuffered(r)
    BY <1>1, <1>9, BusyCall DEF LeaveSync, SyncCalls
  <2>2. Takes(c, r)
    BY <1>1, <1>9, <2>1 DEF LeaveSync, Takes, Log, TypeOK
  <2> QED
    BY <1>6, <1>9, <2>2 DEF LeaveSync
<1>10. ASSUME NEW c \in Callers, Drop(c) PROVE DecidesOne
  <2>1. Decides(c, call[c].ev)
    BY <1>2, <1>5, <1>10 DEF Drop, Decides
  <2> QED
    BY <1>5, <1>10, <2>1 DEF Drop
<1>11. ASSUME NEW c \in Callers, Park(c) \/ EnterSync(c) PROVE Undecided
  <2>1. \A d \in Callers : call'[d].st = "idle" <=> call[d].st = "idle"
    <3>1. call[c].st = "lookedup" /\ call[c] = Busy(call[c].st, call[c].reg, call[c].ev)
      BY <1>1, <1>11, BusyCall DEF Park, EnterSync, Busy
    <3>2. call'[c].st \in {"sending", "handling"}
      BY <1>1, <1>11, <3>1 DEF Park, EnterSync, Busy, TypeOK
    <3>3. \A d \in Callers \ {c} : call'[d] = call[d]
      BY <1>1, <1>11 DEF Park, EnterSync, TypeOK
    <3> QED
      BY <3>1, <3>2, <3>3
  <2>2. UNCHANGED <<accepted, handled, issued, dropped, unknown>>
    BY <1>11 DEF Park, EnterSync
  <2> QED
    BY <1>2, <2>1, <2>2 DEF Undecided, Pending
<1>12. ASSUME NEW r \in Regs, Take(r) PROVE Undecided \/ DecidesOne
  <2>1. CASE sendq[r] = <<>>
    BY <1>3, <1>12, <2>1 DEF Take
  <2>2. CASE sendq[r] # <<>>
    <3>1. PICK c \in Callers : /\ c = Head(sendq[r])
                              /\ call[c].st = "sending" /\ call[c].reg = r
      BY <1>1, <2>2, ParkedCaller
    <3>2. IsBuffered(r)
      BY <1>1, <3>1 DEF SyncCalls
    <3>3. /\ accepted' = [accepted EXCEPT ![r] = Append(@, call[c].ev)]
          /\ call' = [call EXCEPT ![c] = Idle]
          /\ UNCHANGED <<handled, issued, dropped, unknown>>
      BY <1>12, <2>2, <3>1 DEF Take
    <3>4. Takes(c, r)
      BY <1>1, <3>1, <3>2, <3>3 DEF Takes, Log, TypeOK
    <3> QED
      BY <1>6, <3>3, <3>4
  <2> QED
    BY <2>1, <2>2
<1>13. ASSUME NEW r \in Regs, Finish(r) PROVE Undecided
  <2>1. IsBuffered(r)
    BY <1>1, <1>13 DEF Finish, InHandBuffered
  <2>2. KeepsLogs
    BY <1>1, <1>13, <2>1 DEF Finish, KeepsLogs, Log, IsBuffered, TypeOK
  <2> QED
    BY <1>13, <2>2 DEF Finish, Undecided, Pending
<1> QED
    BY <1>3, <1>7, <1>8, <1>9, <1>10, <1>11, <1>12, <1>13
    DEF Next, Register, MakeHandler, InstallHandler, CallStep, Goroutine,
        PassGate, OpenGate, vars

\* A send to a channel is the only step that accepts an event.
LEMMA StepAccepted ==
    TInv /\ Safe /\ AcceptedBuffered /\ [Next]_vars => AcceptedBuffered'
<1> SUFFICES ASSUME TInv, Safe, AcceptedBuffered, [Next]_vars PROVE AcceptedBuffered'
    OBVIOUS
<1>1. CASE UNCHANGED accepted
    BY <1>1 DEF AcceptedBuffered, IsBuffered
<1>2. ASSUME NEW c \in Callers, Enqueue(c) PROVE AcceptedBuffered'
    BY <1>2 DEF Enqueue, AcceptedBuffered, IsBuffered, TInv, TypeOK
<1>3. ASSUME NEW r \in Regs, Take(r) PROVE AcceptedBuffered'
  <2>1. CASE sendq[r] # <<>>
    <3>1. IsBuffered(r)
      BY <2>1, ParkedCaller DEF TInv, Safe, SyncCalls
    <3> QED
      BY <1>3, <3>1 DEF Take, AcceptedBuffered, IsBuffered, TInv, TypeOK
  <2> QED
    BY <1>1, <1>3, <2>1 DEF Take
<1> QED
    BY <1>1, <1>2, <1>3
    DEF Next, Register, MakeHandler, InstallHandler, Lookup, CallStep, Drop, Park,
        EnterSync, LeaveSync, Goroutine, PassGate, Finish, OpenGate, vars

\* Every step keeps one fate for each event that has one.
LEMMA StepFates == TInv /\ Safe /\ Order /\ Fates /\ [Next]_vars => Fates'
<1> SUFFICES ASSUME TInv, Safe, Order, Fates, [Next]_vars PROVE Fates'
    OBVIOUS
<1> USE DispatcherAssumption
<1>1. AcceptedBuffered'
    BY StepAccepted DEF Fates
<1>2. \A r \in Regs : Log(r) \in Seq(Events)
    BY DEF Log, TInv, TypeOK
<1>3. \A c \in Callers : Pending(c) \in Nat
    BY DEF Pending, TInv, TypeOK
<1>4. \A e \in Events : e[1] \in Callers /\ e[2] \in Nat /\ e = <<e[1], e[2]>>
    BY DEF Events, Numbers
<1>5. \A r \in Regs, e \in Events : Took(r, e) => e[2] < Pending(e[1])
    BY DEF Took, Order, LogsPast
<1>6. Refusals /\ TakenOnce /\ Settled /\ dropped \subseteq Events /\ unknown \subseteq Events
    BY DEF Fates, TInv, TypeOK
<1>7. KeepsLogs => \A r \in Regs, e \in Events : Took(r, e)' <=> Took(r, e)
    BY DEF KeepsLogs, Took
<1>8. CASE Undecided
    BY <1>1, <1>4, <1>6, <1>7, <1>8 DEF Undecided, Fates, Refusals, TakenOnce, Settled
<1>9. ASSUME NEW c \in Callers, NEW e \in Events, Decides(c, e) PROVE Fates'
  <2>1. e \notin dropped \union unknown /\ \A r \in Regs : ~Took(r, e)
    BY <1>3, <1>4, <1>5, <1>6, <1>9 DEF Decides, Refusals
  <2>2. \A x \in Events : x[2] < Pending(x[1])' <=> x[2] < Pending(x[1]) \/ x = e
    BY <1>3, <1>4, <1>9 DEF Decides
  <2>3. CASE KeepsLogs /\ dropped' = dropped \union {e} /\ UNCHANGED unknown
    BY <1>1, <1>6, <1>7, <2>1, <2>2, <2>3 DEF Fates, Refusals, TakenOnce, Settled
  <2>4. CASE KeepsLogs /\ unknown' = unknown \union {e} /\ UNCHANGED dropped
    BY <1>1, <1>6, <1>7, <2>1, <2>2, <2>4 DEF Fates, Refusals, TakenOnce, Settled
  <2>5. ASSUME NEW r \in Regs, Log(r)' = Append(Log(r), e),
               \A q \in Regs \ {r} : Log(q)' = Log(q), UNCHANGED <<dropped, unknown>>
        PROVE  Fates'
    <3>1. \A x \in Events : Took(r, x)' <=> Took(r, x) \/ x = e
      BY <1>2, <2>5 DEF Took
    <3>2. \A q \in Regs \ {r} : \A x \in Events : Took(q, x)' <=> Took(q, x)
      BY <2>5 DEF Took
    <3> QED
      BY <1>1, <1>6, <2>1, <2>2, <2>5, <3>1, <3>2 DEF Fates, Refusals, TakenOnce, Settled
  <2> QED
    BY <1>9, <2>3, <2>4, <2>5 DEF Decides
<1> QED
    BY <1>8, <1>9, FateShape

\* Where an event is: with its caller while the call lasts, and with whoever
\* took or refused it afterwards.
LEMMA FateOf ==
    ASSUME TInv, Safe, Order, Fates, NEW e \in Events
    PROVE  /\ \A c \in Callers : (call[c] # Idle /\ call[c].ev = e)
                 <=> c = e[1] /\ e[2] = Pending(c) /\ e[2] <= issued[c]
           /\ \A r \in Regs : e \in Range(accepted[r]) \union Range(handled[r])
                 <=> Took(r, e)
<1> USE DispatcherAssumption
<1>1. e[1] \in Callers /\ e[2] \in Nat /\ e = <<e[1], e[2]>>
    BY DEF Events, Numbers
<1>2. ASSUME NEW c \in Callers
      PROVE  (call[c] # Idle /\ call[c].ev = e)
                 <=> c = e[1] /\ e[2] = Pending(c) /\ e[2] <= issued[c]
  <2>1. issued[c] \in Nat /\ (call[c] # Idle <=> call[c].st # "idle")
    <3>1. TypeOK
      BY DEF TInv
    <3>2. call[c] \in CallTypes /\ issued[c] \in Nat
      BY <3>1 DEF TypeOK
    <3>3. call[c] = Idle \/ call[c].st \in BusyStates
      BY <3>2 DEF CallTypes
    <3> QED
      BY <3>2, <3>3 DEF Idle, BusyStates
  <2>2. call[c].st # "idle" => call[c].ev = <<c, issued[c]>>
    BY DEF Order, HoldsLast
  <2> QED
    BY <1>1, <2>1, <2>2 DEF Pending
<1>3. ASSUME NEW r \in Regs
      PROVE  e \in Range(accepted[r]) \union Range(handled[r]) <=> Took(r, e)
  <2>1. /\ handled[r] \in Seq(Events) /\ DOMAIN handled[r] = 1..Len(handled[r])
        /\ accepted[r] \in Seq(Events) /\ DOMAIN accepted[r] = 1..Len(accepted[r])
    BY DEF TInv, TypeOK
  <2>2. e \in Range(handled[r]) => Took(r, e)
    BY HandledIsTaken DEF Range, Took, TInv, Safe
  <2>3. CASE IsBuffered(r)
    BY <2>1, <2>2, <2>3 DEF Range, Took, Log
  <2>4. CASE ~IsBuffered(r)
    <3>1. Range(accepted[r]) = {}
      BY <2>4 DEF Fates, AcceptedBuffered, Range
    <3> QED
      BY <2>1, <2>2, <2>4, <3>1 DEF Range, Took, Log
  <2> QED
    BY <2>3, <2>4
<1> QED
    BY <1>2, <1>3

\* Every call of Dispatch has exactly one fate, also while handlers are being
\* replaced: its caller still holds the event, one registration has taken it, or
\* the caller got one error (Dispatch, withBuffer).
THEOREM FateIsUnique == Spec => []OneFate
<1>1. ASSUME TInv, Safe, Order, Fates PROVE OneFate
  <2> SUFFICES ASSUME NEW c \in Callers, NEW n \in Numbers, NEW e, e = <<c, n>>
               PROVE  IF n <= issued[c] THEN \E x \in Whereabouts(e) : Whereabouts(e) = {x}
                                        ELSE Whereabouts(e) = {}
    BY DEF OneFate
  <2>1. e \in Events /\ e[1] = c /\ e[2] = n /\ n \in Nat /\ issued[c] \in Nat
    BY <1>1 DEF Events, Numbers, TInv, TypeOK
  <2>2. \A d \in Callers : (call[d] # Idle /\ call[d].ev = e)
            <=> d = c /\ n = Pending(c) /\ n <= issued[c]
    BY <1>1, <2>1, FateOf
  <2>3. \A r \in Regs : e \in Range(accepted[r]) \union Range(handled[r]) <=> Took(r, e)
    BY <1>1, <2>1, FateOf
  <2>4. \A r \in Regs : Took(r, e) => n < Pending(c)
    BY <1>1, <2>1 DEF Took, Order, LogsPast
  <2>5. e \in dropped \union unknown => n < Pending(c)
    BY <1>1, <2>1 DEF Fates, Refusals
  <2>6. n <= issued[c] <=> n < Pending(c) \/ (n = Pending(c) /\ n <= issued[c])
    BY <2>1 DEF Pending
  <2>7. Whereabouts(e) =
            {<<"call", d>> : d \in {x \in Callers : x = c /\ n = Pending(c) /\ n <= issued[c]}}
            \union {<<"reg", r>> : r \in {x \in Regs : Took(x, e)}}
            \union {<<"dropped", NoReg>> : x \in {e} \intersect dropped}
            \union {<<"unknown", NoReg>> : x \in {e} \intersect unknown}
    BY <2>2, <2>3, Zenon DEF Whereabouts
  <2>8. CASE ~(n <= issued[c])
    BY <2>4, <2>5, <2>6, <2>7, <2>8
  <2>9. CASE n = Pending(c) /\ n <= issued[c]
    <3>1. Whereabouts(e) = {<<"call", c>>}
      BY <2>1, <2>4, <2>5, <2>7, <2>9
    <3> QED
      BY <2>9, <3>1
  <2>10. CASE n < Pending(c)
    <3>1. ~(n = Pending(c)) /\ n <= issued[c]
      BY <2>1, <2>6, <2>10 DEF Pending
    <3>2. /\ e \in dropped \/ e \in unknown \/ \E r \in Regs : Took(r, e)
          /\ ~(e \in dropped /\ e \in unknown)
          /\ \A r \in Regs : Took(r, e) =>
                /\ e \notin dropped /\ e \notin unknown
                /\ \A q \in Regs : Took(q, e) => q = r
      BY <1>1, <2>1, <2>10 DEF Fates, Refusals, TakenOnce, Settled
    <3>3. CASE e \in dropped
      <4>1. Whereabouts(e) = {<<"dropped", NoReg>>}
        BY <2>7, <3>1, <3>2, <3>3
      <4> QED
        BY <3>1, <4>1
    <3>4. CASE e \in unknown
      <4>1. Whereabouts(e) = {<<"unknown", NoReg>>}
        BY <2>7, <3>1, <3>2, <3>4
      <4> QED
        BY <3>1, <4>1
    <3>5. ASSUME NEW r \in Regs, Took(r, e)
          PROVE  \E x \in Whereabouts(e) : Whereabouts(e) = {x}
      <4>1. Whereabouts(e) = {<<"reg", r>>}
        BY <2>7, <3>1, <3>2, <3>5
      <4> QED
        BY <4>1
    <3> QED
      BY <3>1, <3>2, <3>3, <3>4, <3>5
  <2> QED
    BY <2>6, <2>8, <2>9, <2>10
<1>2. Spec => [](TInv /\ Safe /\ Order /\ Fates)
    BY InitTInv, StepTInv, InitSafe, StepSafe, InitOrder, StepOrder, InitFates,
       StepFates, PTL DEF Spec
<1> QED
    BY <1>1, <1>2, PTL
=============================================================================
