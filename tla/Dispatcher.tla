----------------------------- MODULE Dispatcher -----------------------------
(***************************************************************************)
(* The command dispatcher of the recorder (internal/dispatcher).           *)
(*                                                                         *)
(* Callers (the ArmA game thread, and any goroutine that replays commands) *)
(* call Dispatch.  A registration binds a handler to a command.  It is     *)
(* either synchronous (Cap[r] = 0: the handler runs in the caller) or      *)
(* buffered (a Go channel of capacity Cap[r] drained by one goroutine).  A *)
(* buffered registration drops the event when the channel is full, unless  *)
(* it is blocking; a gated one does nothing before the storage gate opens. *)
(* Registering a command again installs another handler; the goroutine of  *)
(* the earlier registration keeps draining its own channel.                *)
(*                                                                         *)
(* The metrics, the log lines and the handler's result value are left out. *)
(***************************************************************************)
EXTENDS Integers, Sequences, Functions

CONSTANTS
    Commands,      \* command names
    Regs,          \* calls of Register, each used at most once
    Callers,       \* goroutines that call Dispatch
    MaxEvents,     \* bound: calls of Dispatch per caller
    CmdOf,         \* CmdOf[r]: the command r registers
    Cap,           \* Cap[r]: Buffered(n), 0 for a synchronous registration
    BlockingRegs,  \* registrations with Blocking()
    GatedRegs,     \* registrations with Gated(ready)
    NoReg          \* "no handler"

Numbers == 1..MaxEvents
Events  == Callers \X Numbers       \* <<caller, sequence number of the call>>

ASSUME DispatcherAssumption ==
    /\ CmdOf \in [Regs -> Commands]
    /\ Cap \in [Regs -> Nat]
    /\ MaxEvents \in Nat
    /\ BlockingRegs \subseteq Regs
    /\ GatedRegs \subseteq Regs
    /\ NoReg \notin Regs

VARIABLES
    handlers,   \* Dispatcher.handlers: the registration installed per command
    buffers,    \* Dispatcher.buffers: the channel the queue gauge observes
    reg,        \* progress of each call of Register
    gate,       \* is the ready channel closed?
    buffer,     \* contents of each registration's channel
    sendq,      \* callers parked on a full channel, oldest first
    consumer,   \* state of each registration's goroutine
    inHand,     \* the event the goroutine is handling: <<>> or <<e>>
    call,       \* what each caller is doing
    issued,     \* calls of Dispatch made so far, per caller
    accepted,   \* history: events put in the channel, in order
    handled,    \* history: events whose handler returned, in order
    dropped,    \* history: events answered "queue full"
    unknown     \* history: events answered "unknown command"

vars == <<handlers, buffers, reg, gate, buffer, sendq, consumer, inHand,
          call, issued, accepted, handled, dropped, unknown>>

IsBuffered(r) == Cap[r] > 0

\* A receive from the ready channel returns at once: there is none, or it has
\* been closed.
GateIgnored(r) == TRUE
GateOpenFor(r) == r \in GatedRegs => gate

\* A send on the channel succeeds at once.
HasRoom(r) == Len(buffer[r]) < Cap[r]

\* The channel after a receive that lets the parked sender's events in.
AfterReceive(r, in) == Tail(buffer[r]) \o in

Idle == [st |-> "idle"]
Busy(st, r, e) == [st |-> st, reg |-> r, ev |-> e]
BusyStates == {"lookedup", "sending", "handling"}

-----------------------------------------------------------------------------
Init ==
    /\ handlers = [c \in Commands |-> NoReg]
    /\ buffers  = [c \in Commands |-> NoReg]
    /\ reg      = [r \in Regs |-> "unused"]
    /\ gate     = FALSE
    /\ buffer   = [r \in Regs |-> <<>>]
    /\ sendq    = [r \in Regs |-> <<>>]
    /\ consumer = [r \in Regs |-> "none"]
    /\ inHand   = [r \in Regs |-> <<>>]
    /\ call     = [c \in Callers |-> Idle]
    /\ issued   = [c \in Callers |-> 0]
    /\ accepted = [r \in Regs |-> <<>>]
    /\ handled  = [r \in Regs |-> <<>>]
    /\ dropped  = {}
    /\ unknown  = {}

-----------------------------------------------------------------------------
(* Register *)

\* withBuffer: the channel is made and published to the gauge under d.mu, and
\* the goroutine is started, before the handler itself is installed.
MakeHandler(r) ==
    /\ reg[r] = "unused"
    /\ reg' = [reg EXCEPT ![r] = "made"]
    /\ IF IsBuffered(r)
       THEN /\ buffers'  = [buffers EXCEPT ![CmdOf[r]] = r]
            /\ consumer' = [consumer EXCEPT ![r] =
                                IF r \in GatedRegs THEN "waiting" ELSE "ready"]
       ELSE UNCHANGED <<buffers, consumer>>
    /\ UNCHANGED <<handlers, gate, buffer, sendq, inHand, call, issued,
                   accepted, handled, dropped, unknown>>

\* The end of Register: d.handlers[command] = handler, under d.mu.
InstallHandler(r) ==
    /\ reg[r] = "made"
    /\ reg' = [reg EXCEPT ![r] = "installed"]
    /\ handlers' = [handlers EXCEPT ![CmdOf[r]] = r]
    /\ UNCHANGED <<buffers, gate, buffer, sendq, consumer, inHand, call,
                   issued, accepted, handled, dropped, unknown>>

-----------------------------------------------------------------------------
(* Dispatch *)

\* Dispatch looks the handler up under d.mu.RLock and releases the lock
\* before it calls it: a Register may come in between.
Lookup(c, cmd) ==
    /\ call[c] = Idle
    /\ issued[c] < MaxEvents
    /\ issued' = [issued EXCEPT ![c] = @ + 1]
    /\ LET e == <<c, issued[c] + 1>>
       IN  IF handlers[cmd] = NoReg
           THEN /\ unknown' = unknown \union {e}
                /\ UNCHANGED call
           ELSE /\ call' = [call EXCEPT ![c] =
                               Busy("lookedup", handlers[cmd], e)]
                /\ UNCHANGED unknown
    /\ UNCHANGED <<handlers, buffers, reg, gate, buffer, sendq, consumer,
                   inHand, accepted, handled, dropped>>

\* The channel send succeeds: the reply is "queued".
Enqueue(c) ==
    /\ call[c].st = "lookedup"
    /\ LET r == call[c].reg
       IN  /\ IsBuffered(r)
           /\ HasRoom(r)
           /\ buffer'   = [buffer EXCEPT ![r] = Append(@, call[c].ev)]
           /\ accepted' = [accepted EXCEPT ![r] = Append(@, call[c].ev)]
    /\ call' = [call EXCEPT ![c] = Idle]
    /\ UNCHANGED <<handlers, buffers, reg, gate, sendq, consumer, inHand,
                   issued, handled, dropped, unknown>>

\* (As it would be if a full channel gave up its oldest event for the new one.)
DropOldest(c) ==
    /\ call[c].st = "lookedup"
    /\ LET r == call[c].reg
       IN  /\ IsBuffered(r) /\ r \notin BlockingRegs /\ ~HasRoom(r)
           /\ dropped'  = dropped \union {Head(buffer[r])}
           /\ buffer'   = [buffer EXCEPT ![r] = Append(Tail(@), call[c].ev)]
           /\ accepted' = [accepted EXCEPT ![r] = Append(@, call[c].ev)]
    /\ call' = [call EXCEPT ![c] = Idle]
    /\ UNCHANGED <<handlers, buffers, reg, gate, sendq, consumer, inHand,
                   issued, handled, unknown>>

\* (As it would be if the refusal were not reported.)
DropSilently(c) ==
    /\ call[c].st = "lookedup"
    /\ IsBuffered(call[c].reg) /\ ~HasRoom(call[c].reg)
    /\ call[c].reg \notin BlockingRegs
    /\ call' = [call EXCEPT ![c] = Idle]
    /\ UNCHANGED <<handlers, buffers, reg, gate, buffer, sendq, consumer,
                   inHand, issued, accepted, handled, dropped, unknown>>

\* The default branch of the non-blocking send: "queue full".
Drop(c) ==
    /\ call[c].st = "lookedup"
    /\ LET r == call[c].reg
       IN  /\ IsBuffered(r)
           /\ r \notin BlockingRegs
           /\ ~HasRoom(r)
    /\ dropped' = dropped \union {call[c].ev}
    /\ call' = [call EXCEPT ![c] = Idle]
    /\ UNCHANGED <<handlers, buffers, reg, gate, buffer, sendq, consumer,
                   inHand, issued, accepted, handled, unknown>>

\* A blocking send on a full channel parks the caller.
Park(c) ==
    /\ call[c].st = "lookedup"
    /\ LET r == call[c].reg
       IN  /\ IsBuffered(r)
           /\ r \in BlockingRegs
           /\ ~HasRoom(r)
           /\ sendq' = [sendq EXCEPT ![r] = Append(@, c)]
    /\ call' = [call EXCEPT ![c].st = "sending"]
    /\ UNCHANGED <<handlers, buffers, reg, gate, buffer, consumer, inHand,
                   issued, accepted, handled, dropped, unknown>>

\* A synchronous handler starts in the caller; withGate makes it wait first.
EnterSync(c) ==
    /\ call[c].st = "lookedup"
    /\ ~IsBuffered(call[c].reg)
    /\ GateOpenFor(call[c].reg)
    /\ call' = [call EXCEPT ![c].st = "handling"]
    /\ UNCHANGED <<handlers, buffers, reg, gate, buffer, sendq, consumer,
                   inHand, issued, accepted, handled, dropped, unknown>>

\* The synchronous handler returns (a result, an error, or a panic that
\* RVExtensionArgs recovers).
LeaveSync(c) ==
    /\ call[c].st = "handling"
    /\ handled' = [handled EXCEPT ![call[c].reg] = Append(@, call[c].ev)]
    /\ call' = [call EXCEPT ![c] = Idle]
    /\ UNCHANGED <<handlers, buffers, reg, gate, buffer, sendq, consumer,
                   inHand, issued, accepted, dropped, unknown>>

-----------------------------------------------------------------------------
(* The goroutine of a buffered registration *)

\* (As it would be if the goroutine of a replaced handler did not start.)
PassGateIfCurrent(r) ==
    /\ consumer[r] = "waiting" /\ GateOpenFor(r)
    /\ handlers[CmdOf[r]] = r
    /\ consumer' = [consumer EXCEPT ![r] = "ready"]
    /\ UNCHANGED <<handlers, buffers, reg, gate, buffer, sendq, inHand, call,
                   issued, accepted, handled, dropped, unknown>>

\* <-cfg.readyChan returns once the gate is open.
PassGate(r) ==
    /\ consumer[r] = "waiting"
    /\ GateOpenFor(r)
    /\ consumer' = [consumer EXCEPT ![r] = "ready"]
    /\ UNCHANGED <<handlers, buffers, reg, gate, buffer, sendq, inHand, call,
                   issued, accepted, handled, dropped, unknown>>

\* (As it would be if every event were handled in a goroutine of its own.)
TakeConcurrently(r) ==
    /\ consumer[r] = "ready" /\ buffer[r] # <<>>
    /\ inHand' = [inHand EXCEPT ![r] = Append(@, Head(buffer[r]))]
    /\ buffer' = [buffer EXCEPT ![r] = Tail(@)]
    /\ UNCHANGED <<handlers, buffers, reg, gate, sendq, consumer, call, issued,
                   accepted, handled, dropped, unknown>>

\* One iteration of "for e := range buffer".  A receive from a full channel
\* moves the oldest parked sender's event to the tail in the same step.
Take(r) ==
    /\ consumer[r] = "ready"
    /\ inHand[r] = <<>>
    /\ buffer[r] # <<>>
    /\ inHand' = [inHand EXCEPT ![r] = <<Head(buffer[r])>>]
    /\ IF sendq[r] = <<>>
       THEN /\ buffer' = [buffer EXCEPT ![r] = AfterReceive(r, <<>>)]
            /\ UNCHANGED <<sendq, call, accepted>>
       ELSE LET c == Head(sendq[r])
                e == call[c].ev
            IN  /\ buffer'   = [buffer EXCEPT ![r] = AfterReceive(r, <<e>>)]
                /\ accepted' = [accepted EXCEPT ![r] = Append(@, e)]
                /\ sendq'    = [sendq EXCEPT ![r] = Tail(@)]
                /\ call'     = [call EXCEPT ![c] = Idle]
    /\ UNCHANGED <<handlers, buffers, reg, gate, consumer, issued, handled,
                   dropped, unknown>>

\* (As it would be if a failed event were put back for another attempt.)
FinishRequeues(r) ==
    /\ inHand[r] # <<>>
    /\ inHand' = [inHand EXCEPT ![r] = <<>>]
    /\ \/ /\ handled' = [handled EXCEPT ![r] = @ \o inHand[r]]
          /\ UNCHANGED buffer
       \/ /\ HasRoom(r)
          /\ buffer' = [buffer EXCEPT ![r] = @ \o inHand[r]]
          /\ UNCHANGED handled
    /\ UNCHANGED <<handlers, buffers, reg, gate, sendq, consumer,
                   call, issued, accepted, dropped, unknown>>

\* (As it would be if the recovery were around the loop, not around each event.)
FinishEndsLoop(r) ==
    /\ inHand[r] # <<>>
    /\ handled'  = [handled EXCEPT ![r] = @ \o inHand[r]]
    /\ inHand'   = [inHand EXCEPT ![r] = <<>>]
    /\ consumer' \in {consumer, [consumer EXCEPT ![r] = "none"]}
    /\ UNCHANGED <<handlers, buffers, reg, gate, buffer, sendq, call, issued,
                   accepted, dropped, unknown>>

\* safeHandle ends: the handler returned, failed, or panicked and was
\* recovered.  In all three cases the goroutine goes on with the next event.
Finish(r) ==
    /\ inHand[r] # <<>>
    /\ handled' = [handled EXCEPT ![r] = @ \o inHand[r]]
    /\ inHand'  = [inHand EXCEPT ![r] = <<>>]
    /\ UNCHANGED <<handlers, buffers, reg, gate, buffer, sendq, consumer,
                   call, issued, accepted, dropped, unknown>>

-----------------------------------------------------------------------------
\* close(storageReady) in initStorage.
OpenGate ==
    /\ ~gate
    /\ gate' = TRUE
    /\ UNCHANGED <<handlers, buffers, reg, buffer, sendq, consumer, inHand,
                   call, issued, accepted, handled, dropped, unknown>>

Register(r) == MakeHandler(r) \/ InstallHandler(r)

CallStep(c) == Enqueue(c) \/ Drop(c) \/ Park(c) \/ EnterSync(c) \/ LeaveSync(c)

Goroutine(r) == PassGate(r) \/ Take(r) \/ Finish(r)

Next ==
    \/ \E r \in Regs : Register(r)
    \/ \E c \in Callers, cmd \in Commands : Lookup(c, cmd)
    \/ \E c \in Callers : CallStep(c)
    \/ \E r \in Regs : Goroutine(r)
    \/ OpenGate

Spec == Init /\ [][Next]_vars

\* The Go scheduler runs every runnable goroutine and caller; handlers return.
\* Nothing makes Register, the next call of Dispatch or OpenGate happen.
Fairness ==
    /\ \A c \in Callers : WF_vars(CallStep(c))
    /\ \A r \in Regs : WF_vars(Goroutine(r))

FairSpec == Spec /\ Fairness

-----------------------------------------------------------------------------
CallTypes ==
    {Idle} \union
    [st : BusyStates, reg : Regs, ev : Events]

\* The type invariant of every variable of the dispatcher.
TypeOK ==
    /\ handlers \in [Commands -> Regs \union {NoReg}]
    /\ buffers  \in [Commands -> Regs \union {NoReg}]
    /\ reg      \in [Regs -> {"unused", "made", "installed"}]
    /\ gate     \in BOOLEAN
    /\ buffer   \in [Regs -> Seq(Events)]
    /\ sendq    \in [Regs -> Seq(Callers)]
    /\ consumer \in [Regs -> {"none", "waiting", "ready"}]
    /\ inHand   \in [Regs -> {<<>>} \union {<<e>> : e \in Events}]
    /\ call     \in [Callers -> CallTypes]
    /\ issued   \in [Callers -> 0..MaxEvents]
    /\ accepted \in [Regs -> Seq(Events)]
    /\ handled  \in [Regs -> Seq(Events)]
    /\ dropped  \subseteq Events
    /\ unknown  \subseteq Events

\* Delivery of a buffered registration is exactly once and in order: what was
\* put in the channel is what was handled, then the event in hand, then what
\* is still queued (the loop of withBuffer and the sends it serves).
ExactlyOnceInOrder ==
    \A r \in Regs : IsBuffered(r) =>
        accepted[r] = handled[r] \o inHand[r] \o buffer[r]

\* A channel never holds more than its size, and callers are parked only
\* while it is full (Buffered, Blocking).
CapacityRespected ==
    \A r \in Regs :
        /\ Len(buffer[r]) <= Cap[r]
        /\ sendq[r] # <<>> => Len(buffer[r]) = Cap[r]

\* No handler of a gated registration has started before the gate opened
\* (the comment of Gated).
NothingBeforeGate ==
    ~gate => /\ \A r \in GatedRegs : handled[r] = <<>> /\ inHand[r] = <<>>
             /\ \A c \in Callers :
                    call[c].st = "handling" => call[c].reg \notin GatedRegs

\* The events one caller sends through one registration are handled in the
\* order it made the calls, whatever the channel size, the gate and the other
\* callers do.
CallOrder ==
    \A r \in Regs : \A i, j \in DOMAIN handled[r] :
        (i < j /\ handled[r][i][1] = handled[r][j][1]) =>
            handled[r][i][2] < handled[r][j][2]

\* Where an issued event is: the caller that still holds it, the registration
\* that took it, or the refusal that answered it.
Whereabouts(e) ==
    {<<"call", c>> : c \in {x \in Callers : call[x] # Idle /\ call[x].ev = e}}
    \union {<<"reg", r>> : r \in {x \in Regs :
                e \in Range(accepted[x]) \union Range(handled[x])}}
    \union {<<"dropped", NoReg>> : x \in {e} \intersect dropped}
    \union {<<"unknown", NoReg>> : x \in {e} \intersect unknown}

\* Every call of Dispatch has exactly one fate, also while handlers are being
\* replaced: no event is both refused and handled, handled by two
\* registrations, or lost without an error reply.
OneFate ==
    \A c \in Callers, n \in Numbers :
        LET w == Whereabouts(<<c, n>>)
        IN  IF n <= issued[c] THEN \E x \in w : w = {x} ELSE w = {}

\* Once its gate is open, every queued event is eventually handled, also when
\* handlers fail or panic and when the command has been registered again.
QueuedIsHandled ==
    \A r \in Regs, c \in Callers, n \in Numbers :
        (<<c, n>> \in Range(accepted[r]) /\ GateOpenFor(r))
            ~> <<c, n>> \in Range(handled[r])

\* Once the gate is open, no call of Dispatch blocks forever.
CallsReturn ==
    \A c \in Callers : (call[c] # Idle /\ gate) ~> call[c] = Idle
-----------------------------------------------------------------------------
\* The buffered registrations implement the streams of OrderedDelivery: the
\* channel, its parked senders and the event in hand are hidden.
BufferedRegs == {r \in Regs : IsBuffered(r)}

Delivery == INSTANCE OrderedDelivery WITH
    Streams <- BufferedRegs,
    Gated   <- GatedRegs,
    Items   <- Events,
    taken   <- [r \in BufferedRegs |-> accepted[r]],
    done    <- [r \in BufferedRegs |-> handled[r]],
    open    <- gate

\* Every step of the dispatcher is a step of OrderedDelivery or leaves its
\* streams alone: no event enters two channels, none is handled twice, out of
\* order, or before its gate.
ImplementsOrderedDelivery == Delivery!OSpec
=============================================================================
