------------------------------ MODULE Lifecycle ------------------------------
(***************************************************************************)
(* From the load of the extension to the first mission                     *)
(* (cmd/ocap_recorder/main.go and storage.go, worker.RegisterHandlers).    *)
(*                                                                         *)
(* The game thread sends :STORAGE:INIT:, whose handler only spawns a       *)
(* goroutine.  The goroutine makes the backend, then the worker manager on *)
(* it, registers the manager's handlers one command after the other, sends *)
(* :STORAGE:OK: and opens the gate.  :MISSION:START: is registered at load *)
(* time: channel of one, blocking, gated.  The recording commands are      *)
(* unknown until the goroutine has registered them, and are not gated.     *)
(*                                                                         *)
(* A backend is named after the :STORAGE:INIT: that made it; 0 is nil.     *)
(***************************************************************************)
EXTENDS Integers, Sequences

CONSTANTS
    RecordingCommands, \* the commands the worker registers handlers for
    SerialInits,      \* is :STORAGE:INIT: repeated only after :STORAGE:OK:?
    MaxInits,         \* bound: :STORAGE:INIT: commands
    MaxStarts,        \* bound: :MISSION:START: commands
    MaxSent           \* bound: recording commands and saves

Inits    == 1..MaxInits
Backends == 0..MaxInits

ASSUME LifecycleAssumption ==
    /\ SerialInits \in BOOLEAN
    /\ MaxInits \in Nat /\ MaxStarts \in Nat /\ MaxSent \in Nat

VARIABLES
    supported,      \* is storage.type one that createStorageBackend makes?
    storageBackend, \* the global of that name
    inits,          \* :STORAGE:INIT: commands so far
    init,           \* per :STORAGE:INIT:, the goroutine that runs initStorage
    handlers,       \* per recording command: the init whose manager handles it
    storageOK,      \* has :STORAGE:OK: been sent?
    gate,           \* is storageReady closed?
    startq,         \* channel of :MISSION:START:
    starting,       \* the start that handleNewMission is busy with, 0 for none
    parked,         \* the start the game thread is parked with, 0 for none
    starts,         \* :MISSION:START: commands so far
    acked,          \* history: start and backend of every :MISSION:OK:
    running,        \* per backend: the start its mission came from, 0 for none
    ending,         \* backends a save goroutine is about to end
    sent,           \* recording commands and saves so far
    refused         \* history: commands answered "unknown command" or "no
                    \* storage backend", with storageOK at that moment

ivars == <<storageBackend, init, handlers, storageOK, gate>>
mvars == <<startq, starting, parked, acked, running, ending>>
gvars == <<inits, starts, sent, refused>>
vars  == <<supported, ivars, mvars, gvars>>

LInit ==
    /\ supported \in BOOLEAN
    /\ storageBackend = 0
    /\ inits = 0
    /\ init = [i \in Inits |-> [pc |-> "none", backend |-> 0,
                                left |-> RecordingCommands]]
    /\ handlers = [c \in RecordingCommands |-> 0]
    /\ storageOK = FALSE /\ gate = FALSE
    /\ startq = <<>> /\ starting = 0 /\ parked = 0 /\ starts = 0
    /\ acked = {}
    /\ running = [b \in Backends |-> 0]
    /\ ending = {}
    /\ sent = 0
    /\ refused = {}

Initialising == \E i \in Inits : init[i].pc \notin {"none", "done"}

-----------------------------------------------------------------------------
(* The game thread: one command at a time, none while it is parked *)

SendInit ==
    /\ parked = 0
    /\ inits < MaxInits
    /\ SerialInits => ~Initialising
    /\ inits' = inits + 1
    /\ init' = [init EXCEPT ![inits + 1].pc = "create"]
    /\ UNCHANGED <<supported, storageBackend, handlers, storageOK, gate, mvars,
                   starts, sent, refused>>

\* :MISSION:START: enters the channel or parks the caller.
SendStart ==
    /\ parked = 0
    /\ starts < MaxStarts
    /\ starts' = starts + 1
    /\ IF startq = <<>>
       THEN startq' = <<starts + 1>> /\ UNCHANGED parked
       ELSE parked' = starts + 1 /\ UNCHANGED startq
    /\ UNCHANGED <<supported, ivars, starting, acked, running, ending, inits,
                   sent, refused>>

\* A recording command is refused while no handler is registered.
SendRecord(c) ==
    /\ parked = 0
    /\ sent < MaxSent
    /\ sent' = sent + 1
    /\ refused' = IF handlers[c] # 0 THEN refused
                  ELSE refused \union {[cmd |-> c, ok |-> storageOK]}
    /\ UNCHANGED <<supported, ivars, mvars, inits, starts>>

\* triggerMissionSave takes the global backend: refused when there is none,
\* and while another save is in flight.
SendSave ==
    /\ parked = 0
    /\ sent < MaxSent
    /\ sent' = sent + 1
    /\ IF storageBackend = 0
       THEN /\ refused' = refused \union {[cmd |-> "save", ok |-> storageOK]}
            /\ UNCHANGED ending
       ELSE /\ ending' = IF ending = {} THEN {storageBackend} ELSE ending
            /\ UNCHANGED refused
    /\ UNCHANGED <<supported, ivars, startq, starting, parked, acked, running,
                   inits, starts>>

-----------------------------------------------------------------------------
(* initStorage, in the goroutine of the i-th :STORAGE:INIT: *)

At(i, pc) == init[i].pc = pc
Goto(i, pc) == init' = [init EXCEPT ![i].pc = pc]

UNCHANGED_but_init == UNCHANGED <<supported, mvars, gvars>>

\* createStorageBackend: an error for every type but "memory" ends it.
CreateBackend(i) ==
    /\ At(i, "create")
    /\ IF supported
       THEN storageBackend' = i /\ Goto(i, "manager")
       ELSE Goto(i, "done") /\ UNCHANGED storageBackend
    /\ UNCHANGED <<handlers, storageOK, gate>>
    /\ UNCHANGED_but_init

\* NewManager reads the global again.
NewManager(i) ==
    /\ At(i, "manager")
    /\ init' = [init EXCEPT ![i].pc = "register", ![i].backend = storageBackend]
    /\ UNCHANGED <<storageBackend, handlers, storageOK, gate>>
    /\ UNCHANGED_but_init

\* (As it would be if a command that has a handler were skipped.)
RegisterIfUnknown(i) ==
    /\ At(i, "register")
    /\ \E c \in init[i].left :
          /\ handlers' = [handlers EXCEPT ![c] = IF @ = 0 THEN i ELSE @]
          /\ init' = [init EXCEPT ![i].left = @ \ {c}]
    /\ UNCHANGED <<storageBackend, storageOK, gate>>
    /\ UNCHANGED_but_init

\* RegisterHandlers: one d.Register after the other.
RegisterOne(i) ==
    /\ At(i, "register")
    /\ \E c \in init[i].left :
          /\ handlers' = [handlers EXCEPT ![c] = i]
          /\ init' = [init EXCEPT ![i].left = @ \ {c}]
    /\ UNCHANGED <<storageBackend, storageOK, gate>>
    /\ UNCHANGED_but_init

\* (As it would be if :STORAGE:OK: did not wait for the registrations.)
StorageOKEarly(i) ==
    /\ At(i, "register")
    /\ storageOK' = TRUE
    /\ Goto(i, IF init[i].left = {} THEN "gate" ELSE "register")
    /\ UNCHANGED <<storageBackend, handlers, gate>>
    /\ UNCHANGED_but_init

\* RegisterHandlers is over: the :STORAGE:OK: callback.
StorageOK(i) ==
    /\ At(i, "register")
    /\ init[i].left = {}
    /\ storageOK' = TRUE
    /\ Goto(i, "gate")
    /\ UNCHANGED <<storageBackend, handlers, gate>>
    /\ UNCHANGED_but_init

\* (As it would be if the channel were never closed.)
KeepGateShut(i) ==
    /\ At(i, "gate")
    /\ Goto(i, "done")
    /\ UNCHANGED <<storageBackend, handlers, storageOK, gate>>
    /\ UNCHANGED_but_init

\* storageReadyOnce.Do(close).
OpenGate(i) ==
    /\ At(i, "gate")
    /\ gate' = TRUE
    /\ Goto(i, "done")
    /\ UNCHANGED <<storageBackend, handlers, storageOK>>
    /\ UNCHANGED_but_init

-----------------------------------------------------------------------------
(* The goroutine of :MISSION:START: and the goroutine of a save *)

\* :MISSION:START: is gated.
StartGate == gate

\* It takes a start once the gate is open, which lets a parked one in.  A
\* start that does not parse ends here.
StartTake ==
    /\ StartGate
    /\ starting = 0
    /\ startq # <<>>
    /\ starting' \in {Head(startq), 0}
    /\ startq' = IF parked = 0 THEN <<>> ELSE <<parked>>
    /\ parked' = 0
    /\ UNCHANGED <<supported, ivars, acked, running, ending, gvars>>

\* The rest of handleNewMission: StartMission unless the backend is nil, then
\* :MISSION:OK:.
StartMission ==
    /\ starting # 0
    /\ running' = IF storageBackend = 0 THEN running
                  ELSE [running EXCEPT ![storageBackend] = starting]
    /\ acked' = acked \union {[start |-> starting, backend |-> storageBackend]}
    /\ starting' = 0
    /\ UNCHANGED <<supported, ivars, startq, parked, ending, gvars>>

\* EndMission on the backend the save was triggered with.
EndMission ==
    /\ \E b \in ending : running' = [running EXCEPT ![b] = 0]
    /\ ending' = {}
    /\ UNCHANGED <<supported, ivars, startq, starting, parked, acked, gvars>>

-----------------------------------------------------------------------------
InitStorage(i) == CreateBackend(i) \/ NewManager(i) \/ RegisterOne(i)
                    \/ StorageOK(i) \/ OpenGate(i)

StartHandler == StartTake \/ StartMission

LNext ==
    \/ SendInit
    \/ SendStart
    \/ \E c \in RecordingCommands : SendRecord(c)
    \/ SendSave
    \/ \E i \in Inits : InitStorage(i)
    \/ StartHandler
    \/ EndMission

LSpec == LInit /\ [][LNext]_vars

\* Goroutines run; the game sends what it likes.
LFairSpec == LSpec /\ WF_vars(StartHandler) /\ WF_vars(EndMission)
                   /\ \A i \in Inits : WF_vars(InitStorage(i))

-----------------------------------------------------------------------------
\* The two answers of the extension mean what they say: a mission that was
\* acknowledged with :MISSION:OK: was started in a backend, although the handler
\* also answers when there is none (handleNewMission), and after :STORAGE:OK: no
\* recording command is unknown and no save finds the backend missing
\* (initStorage registers first, reports then and opens the gate last).
OkMeansReady ==
    /\ \A a \in acked : a.backend # 0
    /\ \A r \in refused : ~r.ok

\* When nothing initialises storage, the handlers of all recording commands
\* write to the backend that missions are started in and saved from.
OneBackend ==
    (storageOK /\ ~Initialising) =>
        \A c \in RecordingCommands :
            handlers[c] # 0 /\ init[handlers[c]].backend = storageBackend

\* Once :STORAGE:OK: has been sent, a :MISSION:START: does not park the game
\* thread for good, whenever it was sent: the gate follows the callback.
StartDoesNotHang == (parked # 0 /\ storageOK) ~> (parked = 0)
=============================================================================
